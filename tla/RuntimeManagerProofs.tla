------------------------ MODULE RuntimeManagerProofs ------------------------
(***************************************************************************)
(* Proofs about RuntimeManager, for every number of mappings, ports,       *)
(* callers, cores and changes.                                             *)
(***************************************************************************)
EXTENDS RuntimeManager, TLAPS

Outside == {"idle", "lock"}

\* operationMu: whoever is inside the manager holds it.
Mutex == \A c \in Callers : pc[c] \notin Outside => operationMu = c

\* What caller c has in hand, and when.
Hands(c) ==
    /\ pc[c] # "close" => victims[c] = {}
    /\ op[c] # "reload" \/ pc[c] \in Outside \cup {"reload", "close"} => staged[c] = NoCores
    /\ pc[c] \in Outside \cup {"reload"} => existing[c] = None

\* Which operation is at which step.
Modes(c) ==
    /\ pc[c] \in {"reload", "build"} => op[c] = "reload"
    /\ pc[c] \in {"sync", "remove", "stop"} => op[c] # "reload"
    /\ pc[c] = "close" => \/ op[c] # "reload" /\ after[c] \in {"sync", "plan", "fail"}
                          \/ op[c] = "reload" /\ after[c] = "build"

\* A sync works on the mapping's core or on none; a core it fails to update is
\* closed before it is dropped from the table.
SyncState(c) ==
    op[c] # "reload" =>
        /\ pc[c] \in {"plan", "apply"} => instances[cur[c]] = existing[c]
        /\ pc[c] = "close" /\ after[c] = "plan" => instances[cur[c]] = None /\ existing[c] = None
        /\ pc[c] = "close" /\ after[c] = "fail" => instances[cur[c]] \in victims[c]
        /\ pc[c] = "fail" /\ instances[cur[c]] # None => ~core[instances[cur[c]]].open

\* A reload works with an empty table and builds every mapping once.
ReloadState(c) ==
    op[c] = "reload" =>
        /\ pc[c] \in {"close", "build", "plan", "apply", "fail"}
             => instances = NoCores /\ existing[c] = None
        /\ pc[c] \in {"build", "plan", "apply", "fail"} => \A m \in todo[c] : staged[c][m] = None
        /\ pc[c] \in {"plan", "apply", "fail"} => cur[c] \notin todo[c]
        /\ pc[c] \in {"plan", "apply"} => staged[c][cur[c]] = None

CallerInv(c) == Hands(c) /\ Modes(c) /\ SyncState(c) /\ ReloadState(c)

IInv == TypeOK /\ Mutex /\ (\A c \in Callers : CallerInv(c)) /\ NoLeakedListener

-----------------------------------------------------------------------------
\* The defaults of unused fields exist and have their types.
LEMMA Defaults ==
    /\ SomeMapping \in Mappings /\ SomePort \in Ports /\ 0 \in Stamp
    /\ NoConfig \in Config /\ NoRow \in Row /\ Closed \in Core
    /\ NoRows \in [Mappings -> Row] /\ NoCores \in [Mappings -> Cores \cup {None}]
  <1>1. SomeMapping \in Mappings /\ SomePort \in Ports
    BY NonEmpty DEF SomeMapping, SomePort
  <1>2. 0 \in Stamp
    BY MaxWritesIsNat DEF Stamp
  <1>3. NoConfig \in Config
    BY <1>2 DEF NoConfig, Config
  <1>4. NoRow \in Row
    BY <1>1, <1>2 DEF NoRow, Row
  <1>5. Closed \in Core
    BY <1>1, <1>2 DEF Closed, Core
  <1>6. NoRows \in [Mappings -> Row] /\ NoCores \in [Mappings -> Cores \cup {None}]
    BY <1>4 DEF NoRows, NoCores
  <1> QED
    BY <1>1, <1>2, <1>3, <1>4, <1>5, <1>6

\* Changing one value of a function keeps its type.
LEMMA Update ==
    ASSUME NEW S, NEW T, NEW f \in [S -> T], NEW x \in S, NEW v \in T
    PROVE  [f EXCEPT ![x] = v] \in [S -> T]
  OBVIOUS

\* The initial states have the right types.
LEMMA InitTypeOK == Init => TypeOK
  BY Defaults DEF Init, TypeOK, Ops, Labels

\* A change of what nodes, groups and health imply has the right type.
LEMMA ChangeType ==
    ASSUME TypeOK, NEW S \in SUBSET Mappings, NEW part \in {"options", "members"}, Change(S, part)
    PROVE  writes' \in Stamp /\ config' \in [Mappings -> Config] /\ row' = row
  <1>1. writes' \in Stamp
    BY MaxWritesIsNat DEF Change, TypeOK, Stamp
  <1>2. \A m \in Mappings : [config[m] EXCEPT !.options = writes'] \in Config
                            /\ [config[m] EXCEPT !.members = writes'] \in Config
    BY <1>1 DEF TypeOK, Config
  <1> QED
    BY <1>1, <1>2 DEF Change, TypeOK

\* A request of a caller keeps the types.
LEMMA RequestType ==
    ASSUME TypeOK, NEW c \in Callers, Request(c)
    PROVE  TypeOK'
  <1> USE DEF Ops, Labels
  <1>1. ASSUME NEW o \in Ops, NEW S \in SUBSET Mappings, NEW x \in {"background", "request"} \cup Cores,
               Call(c, o, S, x),
               row' \in [Mappings -> Row], config' \in [Mappings -> Config], writes' \in Stamp
        PROVE  TypeOK'
    BY <1>1 DEF Call, TypeOK, Goto, statusVars, workVars
  <1>2. ASSUME NEW m \in Mappings, NEW st \in {"off", "on"}, NEW p \in Ports, WriteMapping(c, m, st, p)
        PROVE  TypeOK'
    <2>1. writes' \in Stamp
      BY <1>2, MaxWritesIsNat DEF WriteMapping, TypeOK, Stamp
    <2>2. [state |-> st, port |-> p, gen |-> writes'] \in Row
      BY <2>1 DEF Row
    <2>3. row' \in [Mappings -> Row] /\ config' \in [Mappings -> Config]
      BY <1>2, <2>2 DEF WriteMapping, TypeOK
    <2> QED
      BY <1>1, <1>2, <2>1, <2>3 DEF WriteMapping
  <1>3. ASSUME NEW m \in Mappings, DeleteMapping(c, m)
        PROVE  TypeOK'
    <2>0. /\ row \in [Mappings -> Row] /\ row[m] \in Row
          /\ row' = [row EXCEPT ![m] = [row[m] EXCEPT !.state = "deleted"]]
      BY <1>3 DEF DeleteMapping, TypeOK
    <2>a. [row[m] EXCEPT !.state = "deleted"] \in Row
      BY <2>0 DEF Row
    <2>b. row' \in [Mappings -> Row]
      BY <2>0, <2>a, Update
    <2>1. row' \in [Mappings -> Row] /\ config' \in [Mappings -> Config] /\ writes' \in Stamp
      BY <1>3, <2>b DEF DeleteMapping, TypeOK
    <2> QED
      BY <1>1, <1>3, <2>1 DEF DeleteMapping
  <1>4. ASSUME NEW S \in SUBSET Mappings, NEW part \in {"options", "members"},
               NEW x \in {"background", "request"}, ChangeConfig(c, S, part, x)
        PROVE  TypeOK'
    BY <1>1, <1>4, ChangeType DEF ChangeConfig, TypeOK
  <1>5. ASSUME NEW S \in SUBSET Mappings, NEW part \in {"options", "members"},
               ChangeConfigUnsynced(c, S, part)
        PROVE  TypeOK'
    BY <1>5, ChangeType DEF ChangeConfigUnsynced, TypeOK, statusVars, callVars, workVars
  <1>6. ASSUME NEW k \in Cores, NEW S \in SUBSET Mappings, TrafficFailure(c, k, S)
        PROVE  TypeOK'
    BY <1>1, <1>6, ChangeType DEF TrafficFailure, TypeOK
  <1>7. CASE Reload(c) \/ RuntimeStop(c)
    BY <1>1, <1>7 DEF Reload, RuntimeStop, dbVars, TypeOK
  <1> QED
    BY <1>2, <1>3, <1>4, <1>5, <1>6, <1>7 DEF Request

\* Returning from the manager keeps the types.
LEMMA ReturnType ==
    ASSUME TypeOK, NEW c \in Callers, Return(c), UNCHANGED dbVars,
           core' \in [Cores -> Core], instances' \in [Mappings -> Cores \cup {None}],
           inbounds' \subseteq Mappings, failures' \subseteq Mappings, missed' \subseteq Mappings
    PROVE  TypeOK'
  BY Defaults DEF TypeOK, Return, Goto, dbVars, Ops, Labels

\* So does taking a mapping down.
LEMMA DetachType ==
    ASSUME TypeOK, NEW c \in Callers, NEW m \in Mappings, NEW next \in Labels, Detach(c, m, next)
    PROVE  /\ instances' \in [Mappings -> Cores \cup {None}]
           /\ inbounds' \subseteq Mappings /\ failures' \subseteq Mappings
           /\ victims' \in [Callers -> SUBSET Cores]
           /\ after' \in [Callers -> Labels] /\ pc' \in [Callers -> Labels]
  <1>1. CoreOf(m) \in SUBSET Cores
    BY DEF CoreOf, TypeOK
  <1>2. "close" \in Labels
    BY DEF Labels
  <1> QED
    BY <1>1, <1>2 DEF Detach, Goto, TypeOK

\* A step inside the manager keeps the types.
LEMMA WorkType ==
    ASSUME TypeOK, NEW c \in Callers, Work(c) \/ Error(c)
    PROVE  TypeOK'
  <1> USE DEF Goto, Ops, Labels, dbVars, statusVars, callVars, workVars
  <1>1. CASE SyncReturn(c) \/ ReloadError(c)
    BY <1>1, ReturnType DEF SyncReturn, ReloadError, TypeOK
  <1>2. CASE Publish(c)
    <2>1. staged[c] \in [Mappings -> Cores \cup {None}] /\ stagedFail[c] \subseteq Mappings
      BY DEF TypeOK
    <2> QED
      BY <1>2, <2>1, ReturnType DEF Publish, TypeOK
  <1>3. ASSUME NEW m \in Mappings, SyncSkip(c, m) \/ Build(c, m)
        PROVE  TypeOK'
    <2>1. /\ todo \in [Callers -> SUBSET Mappings] /\ todo[c] \ {m} \in SUBSET Mappings
          /\ todo' = [todo EXCEPT ![c] = todo[c] \ {m}]
      BY <1>3 DEF SyncSkip, Build, TypeOK
    <2>2. todo' \in [Callers -> SUBSET Mappings]
      BY <2>1, Update
    <2>3. missed' \subseteq Mappings /\ cur' \in [Callers -> Mappings] /\ pc' \in [Callers -> Labels]
      <3>1. /\ missed \subseteq Mappings /\ cur \in [Callers -> Mappings]
            /\ pc \in [Callers -> Labels] /\ "plan" \in Labels
        BY DEF TypeOK
      <3>2. CASE SyncSkip(c, m)
        BY <3>1, <3>2 DEF SyncSkip
      <3>3. CASE Build(c, m)
        BY <3>1, <3>3, Update DEF Build
      <3> QED
        BY <1>3, <3>2, <3>3
    <2> QED
      BY <1>3, <2>2, <2>3 DEF SyncSkip, Build, TypeOK
  <1>4. ASSUME NEW m \in Mappings, SyncRemove(c, m) \/ Remove(c, m)
        PROVE  TypeOK'
    <2>1. /\ instances' \in [Mappings -> Cores \cup {None}]
          /\ inbounds' \subseteq Mappings /\ failures' \subseteq Mappings
          /\ victims' \in [Callers -> SUBSET Cores]
          /\ after' \in [Callers -> Labels] /\ pc' \in [Callers -> Labels]
      BY <1>4, DetachType DEF SyncRemove, Remove
    <2>2. /\ todo \in [Callers -> SUBSET Mappings] /\ todo[c] \ {m} \in SUBSET Mappings
          /\ todo' = [todo EXCEPT ![c] = todo[c] \ {m}] /\ missed' \subseteq Mappings
      BY <1>4 DEF SyncRemove, Remove, TypeOK
    <2>3. todo' \in [Callers -> SUBSET Mappings]
      BY <2>2, Update
    <2> QED
      BY <1>4, <2>1, <2>2, <2>3 DEF SyncRemove, Remove, TypeOK
  <1>5. ASSUME NEW m \in Mappings, SyncRead(c, m)
        PROVE  TypeOK'
    <2>1. /\ seen' \in [Callers -> [Mappings -> Row]] /\ todo' \in [Callers -> SUBSET Mappings]
          /\ cur' \in [Callers -> Mappings] /\ missed' \subseteq Mappings
          /\ existing' \in [Callers -> Cores \cup {None}]
      BY <1>5 DEF SyncRead, TypeOK
    <2>2. /\ instances' \in [Mappings -> Cores \cup {None}]
          /\ inbounds' \subseteq Mappings /\ failures' \subseteq Mappings
          /\ victims' \in [Callers -> SUBSET Cores]
          /\ after' \in [Callers -> Labels] /\ pc' \in [Callers -> Labels]
      <3>1. CASE Detach(c, m, "plan")
        BY <3>1, DetachType
      <3>2. CASE UNCHANGED <<statusVars, victims, after>> /\ Goto(c, "plan")
        BY <3>2 DEF TypeOK
      <3> QED
        BY <1>5, <3>1, <3>2 DEF SyncRead
    <2> QED
      BY <1>5, <2>1, <2>2 DEF SyncRead, TypeOK
  <1>13. CASE Plan(c)
    <2>1. plan' \in [Callers -> Config] /\ pc' \in [Callers -> Labels]
      BY <1>13 DEF Plan, TypeOK
    <2> QED
      BY <1>13, <2>1 DEF Plan, TypeOK
  <1>14. CASE PlanError(c)
    <2>1. CASE existing[c] = None
      BY <1>14, <2>1 DEF PlanError, TypeOK
    <2>2. CASE existing[c] # None
      <3>1. /\ victims \in [Callers -> SUBSET Cores] /\ {existing[c]} \in SUBSET Cores
            /\ victims' = [victims EXCEPT ![c] = {existing[c]}]
        BY <1>14, <2>2 DEF PlanError, TypeOK
      <3>2. victims' \in [Callers -> SUBSET Cores]
        BY <3>1, Update
      <3>3. after' \in [Callers -> Labels] /\ pc' \in [Callers -> Labels]
        BY <1>14, <2>2 DEF PlanError, TypeOK
      <3> QED
        BY <1>14, <3>2, <3>3 DEF PlanError, TypeOK
    <2> QED
      BY <2>1, <2>2
  <1>6. Built(c) \in Core
    BY DEF Built, TypeOK, Core, Config, Row
  <1>7. CASE Apply(c)
    <2>1. existing[c] \in Cores /\ cur[c] \in Mappings
      BY <1>7 DEF Apply, TypeOK
    <2> QED
      BY <1>7, <1>6, <2>1 DEF Apply, SetInstance, TypeOK
  <1>8. CASE Restart(c)
    <2>1. /\ instances' \in [Mappings -> Cores \cup {None}]
          /\ inbounds' \subseteq Mappings /\ failures' \subseteq Mappings
          /\ victims' \in [Callers -> SUBSET Cores]
          /\ after' \in [Callers -> Labels] /\ pc' \in [Callers -> Labels]
      BY <1>8, DetachType DEF Restart, TypeOK
    <2> QED
      BY <1>8, <2>1 DEF Restart, TypeOK
  <1>9. CASE Start(c)
    <2>1. PICK k \in Cores :
            /\ core' = [core EXCEPT ![k] = Built(c)]
            /\ IF op[c] = "reload"
               THEN /\ staged' = [staged EXCEPT ![c][cur[c]] = k]
                    /\ Goto(c, "build")
                    /\ UNCHANGED statusVars
               ELSE /\ SetInstance(cur[c], k)
                    /\ Goto(c, "sync")
                    /\ UNCHANGED staged
      BY <1>9 DEF Start
    <2>2. cur[c] \in Mappings /\ core' \in [Cores -> Core]
      BY <2>1, <1>6 DEF TypeOK
    <2>3. staged' \in [Callers -> [Mappings -> Cores \cup {None}]]
      <3>1. CASE op[c] = "reload"
        <4>1. /\ staged \in [Callers -> [Mappings -> Cores \cup {None}]] /\ k \in Cores \cup {None}
              /\ staged[c] \in [Mappings -> Cores \cup {None}]
              /\ staged' = [staged EXCEPT ![c] = [staged[c] EXCEPT ![cur[c]] = k]]
          BY <2>1, <3>1 DEF TypeOK
        <4>2. [staged[c] EXCEPT ![cur[c]] = k] \in [Mappings -> Cores \cup {None}]
          BY <4>1, <2>2, Update
        <4> QED
          BY <4>1, <4>2, Update
      <3>2. CASE op[c] # "reload"
        BY <2>1, <3>2 DEF TypeOK
      <3> QED
        BY <3>1, <3>2
    <2>4. /\ instances' \in [Mappings -> Cores \cup {None}]
          /\ inbounds' \subseteq Mappings /\ failures' \subseteq Mappings
      <3>1. CASE op[c] = "reload"
        BY <2>1, <3>1 DEF TypeOK
      <3>2. CASE op[c] # "reload"
        <4>1. SetInstance(cur[c], k)
          BY <2>1, <3>2
        <4>2. /\ instances \in [Mappings -> Cores \cup {None}] /\ k \in Cores \cup {None}
              /\ inbounds \subseteq Mappings /\ failures \subseteq Mappings
          BY DEF TypeOK
        <4> QED
          BY <2>2, <4>1, <4>2, Update DEF SetInstance
      <3> QED
        BY <3>1, <3>2
    <2>5. pc' \in [Callers -> Labels]
      BY <2>1 DEF TypeOK
    <2> QED
      BY <1>9, <2>2, <2>3, <2>4, <2>5 DEF Start, TypeOK
  <1>10. CASE Fail(c)
    <2>1. /\ instances' \in [Mappings -> Cores \cup {None}]
          /\ inbounds' \subseteq Mappings /\ failures' \subseteq Mappings
          /\ stagedFail' \in [Callers -> SUBSET Mappings]
      <3>1. /\ cur[c] \in Mappings /\ stagedFail[c] \cup {cur[c]} \in SUBSET Mappings
            /\ stagedFail \in [Callers -> SUBSET Mappings]
            /\ instances \in [Mappings -> Cores \cup {None}]
            /\ inbounds \subseteq Mappings /\ failures \subseteq Mappings
        BY DEF TypeOK
      <3>2. CASE op[c] = "reload"
        BY <1>10, <3>1, <3>2, Update DEF Fail
      <3>3. CASE op[c] # "reload"
        BY <1>10, <3>1, <3>3, Update DEF Fail
      <3> QED
        BY <3>2, <3>3
    <2>2. pc' \in [Callers -> Labels]
      <3>1. Goto(c, "build") \/ Goto(c, "sync")
        BY <1>10 DEF Fail
      <3>2. pc \in [Callers -> Labels] /\ "build" \in Labels /\ "sync" \in Labels
        BY DEF TypeOK, Labels
      <3> QED
        BY <3>1, <3>2, Update DEF Goto
    <2> QED
      BY <1>10, <2>1, <2>2 DEF Fail, TypeOK
  <1>11. CASE Close(c)
    <2>1. core' \in [Cores -> Core] /\ cancelled' \subseteq Callers
      BY <1>11, Defaults DEF Close, TypeOK
    <2>2. /\ victims' \in [Callers -> SUBSET Cores]
          /\ after' \in [Callers -> Labels] /\ pc' \in [Callers -> Labels]
      BY <1>11 DEF Close, TypeOK
    <2> QED
      BY <1>11, <2>1, <2>2 DEF Close, TypeOK
  <1>12. CASE ReloadRead(c) \/ Stop(c)
    <2>1. AllCores \in SUBSET Cores
      BY DEF AllCores, TypeOK
    <2>2. /\ instances' \in [Mappings -> Cores \cup {None}]
          /\ inbounds' \subseteq Mappings /\ failures' \subseteq Mappings
          /\ victims' \in [Callers -> SUBSET Cores]
          /\ after' \in [Callers -> Labels] /\ pc' \in [Callers -> Labels]
      BY <1>12, <2>1, Defaults DEF ReloadRead, Stop, ReplaceAll, TypeOK
    <2>3. /\ seen' \in [Callers -> [Mappings -> Row]] /\ todo' \in [Callers -> SUBSET Mappings]
          /\ missed' \subseteq Mappings
      <3>1. /\ row \in [Mappings -> Row] /\ seen \in [Callers -> [Mappings -> Row]]
            /\ {m \in Mappings : row[m].state = "on"} \in SUBSET Mappings
            /\ todo \in [Callers -> SUBSET Mappings] /\ missed \subseteq Mappings
        BY DEF TypeOK
      <3>2. CASE ReloadRead(c)
        BY <3>1, <3>2, Update DEF ReloadRead
      <3>3. CASE Stop(c)
        BY <3>1, <3>3 DEF Stop
      <3> QED
        BY <1>12, <3>2, <3>3
    <2> QED
      BY <1>12, <2>2, <2>3 DEF ReloadRead, Stop, TypeOK
  <1>15. ASSUME NEW S \in SUBSET Mappings, Replan(c, S)
         PROVE  TypeOK'
    <2>1. writes' \in Stamp /\ config' \in [Mappings -> Config] /\ row' = row
      BY <1>15, ChangeType DEF Replan
    <2>2. missed' \subseteq Mappings /\ pc' \in [Callers -> Labels]
      BY <1>15 DEF Replan, TypeOK
    <2> QED
      BY <1>15, <2>1, <2>2 DEF Replan, TypeOK
  <1> QED
    BY <1>1, <1>2, <1>3, <1>4, <1>5, <1>7, <1>8, <1>9, <1>10, <1>11, <1>12, <1>13, <1>14, <1>15
    DEF Work, Error

\* Every step keeps the types.
LEMMA TypeStep == TypeOK /\ [Next]_vars => TypeOK'
  <1> SUFFICES ASSUME TypeOK, [Next]_vars PROVE TypeOK'
    OBVIOUS
  <1>1. ASSUME NEW c \in Callers, Cancel(c) \/ Lock(c) PROVE TypeOK'
    BY <1>1 DEF Cancel, Lock, Goto, TypeOK, Ops, Labels, dbVars, statusVars, callVars, workVars
  <1>2. CASE UNCHANGED vars
    BY <1>2 DEF TypeOK, vars, dbVars, statusVars, callVars, workVars
  <1> QED
    BY <1>1, <1>2, RequestType, WorkType DEF Next

\* Type correctness of the runtime manager.
THEOREM TypeCorrect == Spec => []TypeOK
  BY InitTypeOK, TypeStep, PTL DEF Spec

-----------------------------------------------------------------------------
\* NoLeakedListener, as caller c sees it while it holds operationMu.
Covered(c) ==
    \A k \in Cores : core[k].open =>
        \/ \E m \in Mappings : instances[m] = k
        \/ k \in victims[c]
        \/ \E m \in Mappings : staged[c][m] = k

\* The other callers have nothing in hand.
LEMMA Alone ==
    ASSUME IInv, NEW c \in Callers, pc[c] \notin Outside
    PROVE  /\ Covered(c)
           /\ \A d \in Callers \ {c} : /\ pc[d] \in Outside /\ victims[d] = {}
                                       /\ staged[d] = NoCores /\ existing[d] = None
  <1>1. \A d \in Callers \ {c} : pc[d] \in Outside
    BY DEF IInv, Mutex
  <1>2. \A d \in Callers \ {c} : victims[d] = {} /\ staged[d] = NoCores /\ existing[d] = None
    BY <1>1 DEF IInv, CallerInv, Hands, Outside
  <1>3. \A d \in Callers \ {c} : InHand(d) = {}
    BY <1>2 DEF InHand, NoCores
  <1>4. Covered(c)
    <2> SUFFICES ASSUME NEW k \in Cores, core[k].open, k \notin victims[c],
                        ~ \E m \in Mappings : instances[m] = k
                 PROVE  \E m \in Mappings : staged[c][m] = k
      BY DEF Covered
    <2>1. k \in UNION {InHand(d) : d \in Callers}
      BY DEF IInv, NoLeakedListener, OpenCores, AllCores
    <2>2. k \in InHand(c)
      BY <1>3, <2>1
    <2> QED
      BY <2>2 DEF InHand
  <1> QED
    BY <1>1, <1>2, <1>4

\* A step of caller c inside the manager leaves the others where they are.
LEMMA OthersKept ==
    ASSUME IInv, NEW c \in Callers, pc[c] \notin Outside,
           \A d \in Callers \ {c} :
               /\ pc'[d] = pc[d] /\ victims'[d] = victims[d]
               /\ staged'[d] = staged[d] /\ existing'[d] = existing[d]
    PROVE  \A d \in Callers \ {c} : pc'[d] \in Outside /\ CallerInv(d)'
  BY Alone DEF CallerInv, Hands, Modes, SyncState, ReloadState, Outside

\* It remains to look at c.
LEMMA StepOf ==
    ASSUME IInv, TypeOK', NEW c \in Callers, pc[c] \notin Outside,
           \A d \in Callers \ {c} :
               /\ pc'[d] = pc[d] /\ victims'[d] = victims[d]
               /\ staged'[d] = staged[d] /\ existing'[d] = existing[d],
           pc'[c] \notin Outside => operationMu' = operationMu,
           CallerInv(c)', Covered(c)'
    PROVE  IInv'
  <1>1. \A d \in Callers \ {c} : pc'[d] \in Outside /\ CallerInv(d)'
    BY OthersKept
  <1>2. Mutex'
    BY <1>1 DEF IInv, Mutex
  <1>3. NoLeakedListener'
    BY NoneIsNothing DEF Covered, NoLeakedListener, OpenCores, AllCores, InHand
  <1> QED
    BY <1>1, <1>2, <1>3 DEF IInv

\* Requests, cancellations and taking the lock keep the inductive invariant.
LEMMA OutsideStep ==
    ASSUME IInv, TypeOK', NEW c \in Callers, Request(c) \/ Cancel(c) \/ Lock(c)
    PROVE  IInv'
  <1> USE DEF Goto, dbVars, statusVars, callVars, workVars
  <1>1. TypeOK
    BY DEF IInv
  <1>2. UNCHANGED <<core, instances, victims, staged, existing, cur, after>>
    BY DEF Request, WriteMapping, DeleteMapping, ChangeConfig, ChangeConfigUnsynced,
       TrafficFailure, Reload, RuntimeStop, Call, Cancel, Lock
  <1>3. NoLeakedListener'
    BY <1>2 DEF IInv, NoLeakedListener, OpenCores, AllCores, InHand
  <1>4. CASE Request(c)
    <2>1. \/ UNCHANGED <<pc, op, todo, operationMu>>
          \/ /\ pc[c] = "idle" /\ pc' = [pc EXCEPT ![c] = "lock"] /\ operationMu' = operationMu
             /\ \A d \in Callers \ {c} : op'[d] = op[d] /\ todo'[d] = todo[d]
      BY <1>1, <1>4 DEF Request, WriteMapping, DeleteMapping, ChangeConfig, ChangeConfigUnsynced,
         TrafficFailure, Reload, RuntimeStop, Call, TypeOK
    <2>2. CASE UNCHANGED <<pc, op, todo, operationMu>>
      BY <1>2, <1>3, <2>2 DEF IInv, Mutex, CallerInv, Hands, Modes, SyncState, ReloadState
    <2>3. CASE /\ pc[c] = "idle" /\ pc' = [pc EXCEPT ![c] = "lock"] /\ operationMu' = operationMu
               /\ \A d \in Callers \ {c} : op'[d] = op[d] /\ todo'[d] = todo[d]
      <3>1. pc'[c] = "lock" /\ \A d \in Callers \ {c} : pc'[d] = pc[d]
        BY <1>1, <2>3 DEF TypeOK
      <3>2. CallerInv(c)'
        BY <1>2, <2>3, <3>1 DEF IInv, CallerInv, Hands, Modes, SyncState, ReloadState, Outside
      <3>3. \A d \in Callers \ {c} : CallerInv(d)'
        BY <1>2, <2>3, <3>1 DEF IInv, CallerInv, Hands, Modes, SyncState, ReloadState
      <3>4. Mutex'
        BY <2>3, <3>1 DEF IInv, Mutex, Outside
      <3> QED
        BY <1>3, <3>2, <3>3, <3>4 DEF IInv
    <2> QED
      BY <2>1, <2>2, <2>3
  <1>5. CASE Cancel(c)
    BY <1>2, <1>3, <1>5 DEF IInv, Cancel, Mutex, CallerInv, Hands, Modes, SyncState, ReloadState
  <1>6. CASE Lock(c)
    <2>1. /\ pc[c] = "lock" /\ operationMu = None /\ operationMu' = c /\ op' = op /\ todo' = todo
          /\ pc'[c] = op[c] /\ op[c] \in Ops /\ \A d \in Callers \ {c} : pc'[d] = pc[d]
      BY <1>1, <1>6 DEF Lock, TypeOK
    <2>2. \A d \in Callers : pc[d] \in Outside
      BY <2>1, NoneIsNothing DEF IInv, Mutex
    <2>3. CallerInv(c)'
      BY <1>2, <2>1 DEF IInv, CallerInv, Hands, Modes, SyncState, ReloadState, Outside, Ops
    <2>4. \A d \in Callers \ {c} : CallerInv(d)'
      BY <1>2, <2>1 DEF IInv, CallerInv, Hands, Modes, SyncState, ReloadState
    <2>5. Mutex'
      BY <2>1, <2>2 DEF Mutex
    <2> QED
      BY <1>3, <2>3, <2>4, <2>5 DEF IInv
  <1> QED
    BY <1>4, <1>5, <1>6

\* So do the steps that begin to close cores.
LEMMA DownStep ==
    ASSUME IInv, TypeOK', NEW c \in Callers, NEW m \in Mappings,
           SyncRemove(c, m) \/ SyncRead(c, m) \/ Remove(c, m) \/ Restart(c) \/ PlanError(c)
             \/ ReloadRead(c) \/ Stop(c)
    PROVE  IInv'
  <1> USE DEF Goto, Detach, CoreOf, ReplaceAll, dbVars, statusVars, callVars, workVars
  <1>1. TypeOK /\ CallerInv(c)
    BY DEF IInv
  <1>2. pc[c] \notin Outside
    BY DEF SyncRemove, SyncRead, Remove, Restart, PlanError, ReloadRead, Stop, Outside
  <1>3. Covered(c)
    BY <1>2, Alone
  <1>4. victims[c] = {} /\ operationMu' = operationMu /\ core' = core /\ staged' = staged
    BY <1>1 DEF CallerInv, Hands, SyncRemove, SyncRead, Remove, Restart, PlanError, ReloadRead, Stop
  <1>5. \A d \in Callers \ {c} : /\ pc'[d] = pc[d] /\ victims'[d] = victims[d]
                                 /\ staged'[d] = staged[d] /\ existing'[d] = existing[d]
    BY <1>1, <1>4 DEF TypeOK, SyncRemove, SyncRead, Remove, Restart, PlanError, ReloadRead, Stop
  <1>6. CallerInv(c)' /\ Covered(c)'
    <2>1. CASE SyncRemove(c, m) \/ Remove(c, m)
      <3>1. /\ pc[c] \in {"sync", "remove"} /\ pc'[c] = "close" /\ after'[c] = "sync"
            /\ op' = op /\ instances' = [instances EXCEPT ![m] = None]
            /\ victims'[c] = {instances[m]} \ {None}
        BY <1>1, <2>1 DEF TypeOK, SyncRemove, Remove
      <3>2. CallerInv(c)'
        BY <1>1, <1>4, <3>1 DEF CallerInv, Hands, Modes, SyncState, ReloadState, Outside
      <3>3. Covered(c)'
        BY <1>1, <1>3, <1>4, <3>1, NoneIsNothing DEF Covered, TypeOK
      <3> QED
        BY <3>2, <3>3
    <2>2. CASE SyncRead(c, m)
      <3>1. pc[c] = "sync" /\ op' = op /\ cur'[c] = m
        BY <1>1, <2>2 DEF TypeOK, SyncRead
      <3>2. CASE instances[m] # None /\ core[instances[m]].port = row[m].port
        <4>1. /\ pc'[c] = "plan" /\ existing'[c] = instances[m] /\ instances' = instances
              /\ victims' = victims
          BY <1>1, <2>2, <3>2 DEF TypeOK, SyncRead
        <4>2. CallerInv(c)'
          BY <1>1, <1>4, <3>1, <4>1 DEF CallerInv, Hands, Modes, SyncState, ReloadState, Outside
        <4>3. Covered(c)'
          BY <1>3, <1>4, <4>1 DEF Covered
        <4> QED
          BY <4>2, <4>3
      <3>3. CASE ~(instances[m] # None /\ core[instances[m]].port = row[m].port)
        <4>1. /\ pc'[c] = "close" /\ after'[c] = "plan" /\ existing'[c] = None
              /\ instances' = [instances EXCEPT ![m] = None]
              /\ victims'[c] = {instances[m]} \ {None}
          BY <1>1, <2>2, <3>3 DEF TypeOK, SyncRead
        <4>2. instances'[m] = None
          BY <1>1, <4>1 DEF TypeOK
        <4>3. CallerInv(c)'
          BY <1>1, <1>4, <3>1, <4>1, <4>2 DEF CallerInv, Hands, Modes, SyncState, ReloadState, Outside
        <4>4. ASSUME NEW k \in Cores, core[k].open
              PROVE  \/ \E x \in Mappings : instances'[x] = k
                     \/ k \in victims'[c]
                     \/ \E x \in Mappings : staged'[c][x] = k
          <5>1. CASE \E x \in Mappings : instances[x] = k
            <6>1. PICK x \in Mappings : instances[x] = k
              BY <5>1
            <6>2. CASE x = m
              BY <4>1, <6>1, <6>2, NoneIsNothing
            <6>3. CASE x # m
              <7>1. instances'[x] = k
                BY <1>1, <4>1, <6>1, <6>3 DEF TypeOK
              <7> QED
                BY <7>1
            <6> QED
              BY <6>2, <6>3
          <5>2. CASE \E x \in Mappings : staged[c][x] = k
            BY <1>4, <5>2
          <5> QED
            BY <1>3, <1>4, <4>4, <5>1, <5>2 DEF Covered
        <4>5. Covered(c)'
          BY <1>4, <4>4 DEF Covered
        <4> QED
          BY <4>3, <4>5
      <3> QED
        BY <3>2, <3>3
    <2>3. CASE Restart(c)
      <3>1. /\ pc[c] = "apply" /\ pc'[c] = "close" /\ after'[c] = "plan" /\ existing[c] # None
            /\ existing'[c] = None /\ op' = op /\ cur' = cur /\ cur[c] \in Mappings
            /\ instances' = [instances EXCEPT ![cur[c]] = None]
            /\ victims'[c] = {instances[cur[c]]} \ {None}
        BY <1>1, <2>3 DEF TypeOK, Restart
      <3>2. op[c] # "reload" /\ instances'[cur[c]] = None
        BY <1>1, <3>1 DEF CallerInv, ReloadState, TypeOK
      <3>3. CallerInv(c)'
        BY <1>1, <1>4, <3>1, <3>2 DEF CallerInv, Hands, Modes, SyncState, ReloadState, Outside
      <3>4. Covered(c)'
        <4>1. core' = core /\ staged' = staged /\ victims[c] = {}
          BY <1>1, <1>4, <2>3, <3>1 DEF Restart, CallerInv, Hands
        <4>2. \A q \in Mappings \ {cur[c]} : instances'[q] = instances[q]
          BY <3>1 DEF TypeOK
        <4>3. \A k \in Cores : instances[cur[c]] = k => k \in victims'[c]
          BY <3>1, NoneIsNothing
        <4> QED
          BY <1>1, <1>3, <4>1, <4>2, <4>3 DEF Covered
      <3> QED
        BY <3>3, <3>4
    <2>4. CASE PlanError(c)
      <3>1. /\ pc[c] \in {"plan", "apply"} /\ op' = op /\ cur' = cur /\ todo' = todo
            /\ instances' = instances /\ existing' = existing
        BY <2>4 DEF PlanError
      <3>2. CASE existing[c] = None
        <4>1. pc'[c] = "fail" /\ victims' = victims /\ after' = after
          BY <1>1, <2>4, <3>2 DEF TypeOK, PlanError
        <4>2. CallerInv(c)'
          BY <1>1, <1>4, <3>1, <3>2, <4>1 DEF CallerInv, Hands, Modes, SyncState, ReloadState, Outside
        <4>3. Covered(c)'
          BY <1>3, <1>4, <3>1, <4>1 DEF Covered
        <4> QED
          BY <4>2, <4>3
      <3>3. CASE existing[c] # None
        <4>1. pc'[c] = "close" /\ after'[c] = "fail" /\ victims'[c] = {existing[c]}
          BY <1>1, <2>4, <3>3 DEF TypeOK, PlanError
        <4>2. op[c] # "reload" /\ instances[cur[c]] = existing[c]
          BY <1>1, <3>1, <3>3 DEF CallerInv, ReloadState, SyncState
        <4>3. CallerInv(c)'
          BY <1>1, <1>4, <3>1, <4>1, <4>2 DEF CallerInv, Hands, Modes, SyncState, ReloadState, Outside
        <4>4. Covered(c)'
          BY <1>3, <1>4, <3>1, <4>1 DEF Covered
        <4> QED
          BY <4>3, <4>4
      <3> QED
        BY <3>2, <3>3
    <2>5. CASE ReloadRead(c) \/ Stop(c)
      <3>1. /\ pc'[c] = "close" /\ op' = op /\ instances' = NoCores /\ existing' = existing
            /\ victims'[c] = AllCores
            /\ \/ pc[c] = "reload" /\ after'[c] = "build"
               \/ pc[c] = "stop" /\ after'[c] = "sync"
        BY <1>1, <2>5 DEF TypeOK, ReloadRead, Stop
      <3>2. CallerInv(c)'
        BY <1>1, <1>4, <3>1 DEF CallerInv, Hands, Modes, SyncState, ReloadState, Outside
      <3>3. Covered(c)'
        BY <1>3, <1>4, <3>1, NoneIsNothing DEF Covered, AllCores
      <3> QED
        BY <3>2, <3>3
    <2> QED
      BY <2>1, <2>2, <2>3, <2>4, <2>5
  <1> QED
    BY <1>2, <1>4, <1>5, <1>6, StepOf

\* So do the steps that close, build, publish and return.
LEMMA UpStep ==
    ASSUME IInv, TypeOK', NEW c \in Callers, NEW m \in Mappings,
           Close(c) \/ SyncSkip(c, m) \/ Plan(c) \/ Apply(c) \/ Start(c) \/ Fail(c) \/ Build(c, m)
    PROVE  IInv'
  <1> USE DEF Goto, dbVars, statusVars, callVars, workVars
  <1>1. TypeOK /\ CallerInv(c)
    BY DEF IInv
  <1>2. pc[c] \notin Outside
    BY DEF Close, SyncSkip, Plan, Apply, Start, Fail, Build, Outside
  <1>3. Covered(c)
    BY <1>2, Alone
  <1>4. operationMu' = operationMu /\ op' = op
    BY DEF Close, SyncSkip, Plan, Apply, Start, Fail, Build
  <1>5. \A d \in Callers \ {c} : /\ pc'[d] = pc[d] /\ victims'[d] = victims[d]
                                 /\ staged'[d] = staged[d] /\ existing'[d] = existing[d]
    BY <1>1 DEF TypeOK, Close, SyncSkip, Plan, Apply, Start, Fail, Build
  <1>6. CallerInv(c)' /\ Covered(c)'
    <2>1. CASE Close(c)
      <3>1. /\ pc[c] = "close" /\ pc'[c] = after[c] /\ victims'[c] = {}
            /\ instances' = instances /\ staged' = staged /\ existing' = existing
            /\ cur' = cur /\ todo' = todo
            /\ \A k \in Cores : core'[k] = IF k \in victims[c] THEN Closed ELSE core[k]
        BY <1>1, <2>1 DEF TypeOK, Close
      <3>2. Covered(c)'
        BY <1>3, <3>1 DEF Covered, Closed
      <3>3. op[c] # "reload" /\ after[c] = "fail" =>
               instances[cur[c]] \in Cores /\ ~core'[instances[cur[c]]].open
        BY <1>1, <3>1 DEF CallerInv, SyncState, TypeOK, Closed
      <3>4. staged[c] = NoCores
        BY <1>1, <3>1 DEF CallerInv, Hands
      <3>5. op[c] = "reload" => after[c] = "build" /\ \A n \in todo[c] : staged[c][n] = None
        BY <1>1, <3>1, <3>4 DEF CallerInv, Modes, NoCores, TypeOK
      <3>6. CallerInv(c)'
        BY <1>1, <1>4, <3>1, <3>3, <3>4, <3>5
        DEF CallerInv, Hands, Modes, SyncState, ReloadState, Outside
      <3> QED
        BY <3>2, <3>6
    <2>2. CASE SyncSkip(c, m)
      <3>1. /\ pc[c] = "sync"
            /\ UNCHANGED <<pc, core, instances, victims, staged, existing, cur, after>>
        BY <2>2 DEF SyncSkip
      <3> QED
        BY <1>1, <1>3, <1>4, <3>1 DEF Covered, CallerInv, Hands, Modes, SyncState, ReloadState
    <2>3. CASE Plan(c)
      <3>1. /\ pc[c] = "plan" /\ pc'[c] = "apply"
            /\ UNCHANGED <<core, instances, victims, staged, existing, cur, after, todo>>
        BY <1>1, <2>3 DEF TypeOK, Plan
      <3> QED
        BY <1>1, <1>3, <1>4, <3>1
        DEF Covered, CallerInv, Hands, Modes, SyncState, ReloadState, Outside
    <2>4. CASE Apply(c)
      <3>1. /\ pc[c] = "apply" /\ pc'[c] = "sync" /\ existing[c] # None
            /\ UNCHANGED <<victims, staged, existing, cur, after, todo>>
            /\ instances' = [instances EXCEPT ![cur[c]] = existing[c]]
            /\ existing[c] \in Cores /\ cur[c] \in Mappings
            /\ \A k \in Cores \ {existing[c]} : core'[k] = core[k]
        BY <1>1, <2>4 DEF TypeOK, Apply, SetInstance
      <3>2. op[c] # "reload" /\ instances[cur[c]] = existing[c]
        BY <1>1, <3>1 DEF CallerInv, SyncState, ReloadState
      <3>3. instances' = instances
        BY <1>1, <3>1, <3>2 DEF TypeOK
      <3>4. Covered(c)'
        BY <1>3, <3>1, <3>2, <3>3 DEF Covered
      <3>5. CallerInv(c)'
        BY <1>1, <1>4, <3>1, <3>2 DEF CallerInv, Hands, Modes, SyncState, ReloadState, Outside
      <3> QED
        BY <3>4, <3>5
    <2>5. CASE Start(c)
      <3>1. PICK k \in Cores :
              /\ core' = [core EXCEPT ![k] = Built(c)]
              /\ IF op[c] = "reload"
                 THEN /\ staged' = [staged EXCEPT ![c][cur[c]] = k]
                      /\ Goto(c, "build")
                      /\ UNCHANGED statusVars
                 ELSE /\ SetInstance(cur[c], k)
                      /\ Goto(c, "sync")
                      /\ UNCHANGED staged
        BY <2>5 DEF Start
      <3>2. /\ pc[c] = "apply" /\ existing[c] = None /\ cur[c] \in Mappings
            /\ UNCHANGED <<victims, existing, cur, after, todo>>
            /\ \A j \in Cores \ {k} : core'[j] = core[j]
        BY <1>1, <2>5, <3>1 DEF TypeOK, Start
      <3>3. CASE op[c] = "reload"
        <4>1. /\ pc'[c] = "build" /\ instances' = instances /\ staged[c][cur[c]] = None
              /\ staged'[c] = [staged[c] EXCEPT ![cur[c]] = k] /\ cur[c] \notin todo[c]
              /\ staged[c] \in [Mappings -> Cores \cup {None}] /\ todo[c] \subseteq Mappings
          BY <1>1, <3>1, <3>2, <3>3 DEF TypeOK, CallerInv, ReloadState
        <4>2. staged'[c][cur[c]] = k /\ \A n \in Mappings \ {cur[c]} : staged'[c][n] = staged[c][n]
          BY <3>2, <4>1
        <4>3. Covered(c)'
          BY <1>3, <3>2, <4>1, <4>2, NoneIsNothing DEF Covered
        <4>4. CallerInv(c)'
          BY <1>1, <1>4, <3>2, <3>3, <4>1, <4>2
          DEF CallerInv, Hands, Modes, SyncState, ReloadState, Outside
        <4> QED
          BY <4>3, <4>4
      <3>4. CASE op[c] # "reload"
        <4>1. /\ pc'[c] = "sync" /\ staged' = staged /\ instances[cur[c]] = None
              /\ instances' = [instances EXCEPT ![cur[c]] = k]
          BY <1>1, <3>1, <3>2, <3>4 DEF TypeOK, CallerInv, SyncState, SetInstance
        <4>2. instances'[cur[c]] = k /\ \A n \in Mappings \ {cur[c]} : instances'[n] = instances[n]
          BY <1>1, <3>2, <4>1 DEF TypeOK
        <4>3. Covered(c)'
          BY <1>3, <3>2, <4>1, <4>2, NoneIsNothing DEF Covered
        <4>4. CallerInv(c)'
          BY <1>1, <1>4, <3>2, <3>4, <4>1
          DEF CallerInv, Hands, Modes, SyncState, ReloadState, Outside
        <4> QED
          BY <4>3, <4>4
      <3> QED
        BY <3>3, <3>4
    <2>6. CASE Fail(c)
      <3>1. /\ pc[c] = "fail" /\ cur[c] \in Mappings
            /\ UNCHANGED <<core, victims, staged, existing, cur, after, todo>>
        BY <1>1, <2>6 DEF TypeOK, Fail
      <3>2. CASE op[c] = "reload"
        <4>1. pc'[c] = "build" /\ instances' = instances
          BY <1>1, <2>6, <3>2 DEF TypeOK, Fail
        <4> QED
          BY <1>1, <1>3, <1>4, <3>1, <3>2, <4>1
          DEF Covered, CallerInv, Hands, Modes, SyncState, ReloadState, Outside
      <3>3. CASE op[c] # "reload"
        <4>1. /\ pc'[c] = "sync"
              /\ \A n \in Mappings \ {cur[c]} : instances'[n] = instances[n]
          BY <1>1, <2>6, <3>3 DEF TypeOK, Fail
        <4>2. instances[cur[c]] # None => ~core[instances[cur[c]]].open
          BY <1>1, <3>1, <3>3 DEF CallerInv, SyncState
        <4>3. Covered(c)'
          BY <1>3, <3>1, <4>1, <4>2, NoneIsNothing DEF Covered
        <4>4. CallerInv(c)'
          BY <1>1, <1>4, <3>1, <3>3, <4>1
          DEF CallerInv, Hands, Modes, SyncState, ReloadState, Outside
        <4> QED
          BY <4>3, <4>4
      <3> QED
        BY <3>2, <3>3
    <2>7. CASE Build(c, m)
      <3>1. /\ pc[c] = "build" /\ pc'[c] = "plan" /\ cur'[c] = m /\ m \in todo[c]
            /\ todo'[c] = todo[c] \ {m}
            /\ UNCHANGED <<core, instances, victims, staged, existing, after>>
        BY <1>1, <2>7 DEF TypeOK, Build
      <3> QED
        BY <1>1, <1>3, <1>4, <3>1
        DEF Covered, CallerInv, Hands, Modes, SyncState, ReloadState, Outside
    <2> QED
      BY <2>1, <2>2, <2>3, <2>4, <2>5, <2>6, <2>7
  <1> QED
    BY <1>2, <1>4, <1>5, <1>6, StepOf

\* So does building the plan again.
LEMMA ReplanStep ==
    ASSUME IInv, TypeOK', NEW c \in Callers, NEW S \in SUBSET Mappings, Replan(c, S)
    PROVE  IInv'
  <1>1. TypeOK /\ CallerInv(c)
    BY DEF IInv
  <1>2. /\ pc[c] \in {"plan", "apply"} /\ pc'[c] = "plan"
        /\ UNCHANGED <<core, instances, operationMu, op, todo>>
        /\ UNCHANGED <<victims, staged, existing, cur, after>>
    BY <1>1 DEF TypeOK, Replan, Goto, statusVars, callVars, workVars
  <1>3. pc[c] \notin Outside
    BY <1>2 DEF Outside
  <1>4. Covered(c)
    BY <1>3, Alone
  <1>5. \A d \in Callers \ {c} : pc'[d] = pc[d]
    BY <1>1 DEF TypeOK, Replan, Goto
  <1>6. CallerInv(c)' /\ Covered(c)'
    BY <1>1, <1>2, <1>4 DEF Covered, CallerInv, Hands, Modes, SyncState, ReloadState, Outside
  <1> QED
    BY <1>2, <1>3, <1>5, <1>6, StepOf

\* So does returning from the manager.
LEMMA ReturnStep ==
    ASSUME IInv, TypeOK', NEW c \in Callers, SyncReturn(c) \/ ReloadError(c) \/ Publish(c)
    PROVE  IInv'
  <1> USE DEF Return, Goto, dbVars, statusVars
  <1>1. TypeOK /\ CallerInv(c)
    BY DEF IInv
  <1>2. pc[c] \notin Outside /\ pc[c] # "close"
    BY DEF SyncReturn, ReloadError, Publish, Outside
  <1>3. Covered(c)
    BY <1>2, Alone
  <1>4. /\ pc'[c] = "idle" /\ victims[c] = {} /\ victims'[c] = {} /\ staged'[c] = NoCores
        /\ existing'[c] = None /\ op'[c] = "sync" /\ core' = core
    BY <1>1, <1>2 DEF TypeOK, SyncReturn, ReloadError, Publish, CallerInv, Hands
  <1>5. \A d \in Callers \ {c} : /\ pc'[d] = pc[d] /\ victims'[d] = victims[d]
                                 /\ staged'[d] = staged[d] /\ existing'[d] = existing[d]
    BY <1>1 DEF TypeOK, SyncReturn, ReloadError, Publish
  <1>6. CallerInv(c)'
    BY <1>4 DEF CallerInv, Hands, Modes, SyncState, ReloadState, Outside
  <1>7. Covered(c)'
    <2>1. CASE SyncReturn(c) \/ ReloadError(c)
      <3>1. instances' = instances /\ staged[c] = NoCores
        BY <1>1, <2>1 DEF SyncReturn, ReloadError, CallerInv, Hands, Modes
      <3> QED
        BY <1>3, <1>4, <3>1, NoneIsNothing DEF Covered, NoCores
    <2>2. CASE Publish(c)
      <3>1. instances' = staged[c] /\ instances = NoCores
        BY <1>1, <2>2 DEF Publish, CallerInv, Modes, ReloadState
      <3> QED
        BY <1>3, <1>4, <3>1, NoneIsNothing DEF Covered, NoCores
    <2> QED
      BY <2>1, <2>2
  <1> QED
    BY <1>2, <1>4, <1>5, <1>6, <1>7, StepOf DEF Outside

\* The initial states satisfy the inductive invariant.
LEMMA InitIInv == Init => IInv
  <1> SUFFICES ASSUME Init PROVE IInv
    OBVIOUS
  <1>1. TypeOK
    BY InitTypeOK
  <1>2. Mutex /\ \A c \in Callers : CallerInv(c)
    BY DEF Init, Mutex, CallerInv, Hands, Modes, SyncState, ReloadState, Outside
  <1>3. NoLeakedListener
    BY DEF Init, NoLeakedListener, OpenCores, Closed
  <1> QED
    BY <1>1, <1>2, <1>3 DEF IInv

\* Every step keeps the inductive invariant.
LEMMA IInvStep == IInv /\ [Next]_vars => IInv'
  <1> SUFFICES ASSUME IInv, [Next]_vars PROVE IInv'
    OBVIOUS
  <1>1. TypeOK'
    BY TypeStep DEF IInv
  <1>2. CASE UNCHANGED vars
    BY <1>1, <1>2
    DEF IInv, vars, dbVars, statusVars, callVars, workVars, Mutex, CallerInv, Hands, Modes,
        SyncState, ReloadState, NoLeakedListener, OpenCores, AllCores, InHand
  <1>3. ASSUME NEW c \in Callers, Request(c) \/ Cancel(c) \/ Lock(c) PROVE IInv'
    BY <1>1, <1>3, OutsideStep
  <1>4. ASSUME NEW c \in Callers, Work(c) \/ Error(c) PROVE IInv'
    <2>1. SomeMapping \in Mappings
      BY Defaults
    <2>2. ASSUME NEW m \in Mappings,
                 SyncRemove(c, m) \/ SyncRead(c, m) \/ Remove(c, m) \/ Restart(c) \/ PlanError(c)
                   \/ ReloadRead(c) \/ Stop(c)
          PROVE  IInv'
      BY <1>1, <2>2, DownStep
    <2>3. ASSUME NEW m \in Mappings,
                 Close(c) \/ SyncSkip(c, m) \/ Plan(c) \/ Apply(c) \/ Start(c) \/ Fail(c) \/ Build(c, m)
          PROVE  IInv'
      BY <1>1, <2>3, UpStep
    <2>4. CASE SyncReturn(c) \/ ReloadError(c) \/ Publish(c)
      BY <1>1, <2>4, ReturnStep
    <2>5. ASSUME NEW S \in SUBSET Mappings, Replan(c, S) PROVE IInv'
      BY <1>1, <2>5, ReplanStep
    <2> QED
      BY <1>4, <2>1, <2>2, <2>3, <2>4, <2>5 DEF Work, Error
  <1> QED
    BY <1>2, <1>3, <1>4 DEF Next

\* No step of any caller ever loses an open core, and with it a listening port.
THEOREM ListenersAccounted == Spec => []NoLeakedListener
  <1>1. IInv => NoLeakedListener
    BY DEF IInv
  <1> QED
    BY <1>1, InitIInv, IInvStep, PTL DEF Spec

-----------------------------------------------------------------------------
(* What the table, the status and the cores are between and during calls *)

\* Core k serves mapping m, and it is what the database says of m.
Serves(k, m) == core[k].open /\ core[k].mapping = m
Right(k, m) ==
    /\ k # None
    /\ core[k] = [open |-> TRUE, mapping |-> m, port |-> row[m].port, gen |-> row[m].gen,
                  options |-> config[m].options, members |-> config[m].members]

\* UpToDate, of one mapping: a call is waiting that will look at it, or none is owed.
Waiting(m) == \E d \in Callers : pc[d] = "lock" /\ (m \in todo[d] \/ op[d] \in {"reload", "stop"})
Excused(m) == m \in missed \/ Waiting(m)
Settled(m) ==
    IF row[m].state # "on" THEN instances[m] = None
    ELSE m \in failures \/ Right(instances[m], m)

\* Caller c syncs the mapping cur[c], from reading its row to publishing the outcome.
Planning == {"plan", "apply", "fail"}
Syncing(c) == op[c] # "reload" /\ (pc[c] \in Planning \/ (pc[c] = "close" /\ after[c] \in {"plan", "fail"}))

\* Caller c, inside the manager, has still to deal with mapping m.
Held(c, m) ==
    /\ pc[c] \notin Outside
    /\ m \in todo[c] \/ pc[c] = "stop" \/ op[c] = "reload" \/ (Syncing(c) /\ m = cur[c])

\* What is true of mapping m at every step of the caller c that holds operationMu;
\* what c has closed and not yet reported is the exception.
Entry(c, m) ==
    /\ instances[m] # None =>
          Serves(instances[m], m) \/ (op[c] # "reload" /\ pc[c] = "fail" /\ m = cur[c])
    /\ m \notin missed =>
          (m \in inbounds <=> instances[m] # None) \/ (Syncing(c) /\ m = cur[c])
    /\ Excused(m) \/ Settled(m) \/ Held(c, m)

\* The same with no caller inside.
Quiet(m) ==
    /\ instances[m] # None => Serves(instances[m], m)
    /\ m \notin missed => (m \in inbounds <=> instances[m] # None)
    /\ Excused(m) \/ Settled(m)

\* Only the core that a sync could not update is closed while it is in the table.
ClosesDetached(c) ==
    pc[c] = "close" => \A m \in Mappings : instances[m] \in victims[c] =>
                          op[c] # "reload" /\ after[c] = "fail" /\ m = cur[c]

\* A sync works with the row as it is, and applies the configuration as it is,
\* unless a call is waiting that will look again.
SyncsCurrent(c) ==
    \A m \in Mappings : Syncing(c) /\ m = cur[c] =>
        \/ Excused(m)
        \/ /\ seen[c][m] = row[m] /\ row[m].state = "on"
           /\ pc[c] = "apply" => plan[c] = config[m]

\* A removal follows a deletion, and a deleted row stays deleted.
RemovesDeleted(c) ==
    pc[c] = "remove" \/ (pc[c] = "lock" /\ op[c] = "remove") => \A m \in todo[c] : row[m].state = "deleted"

\* A reload builds the rows it has read; what it has staged is right, failed, or
\* will be looked at again.
ReloadsCurrent(c) ==
    op[c] = "reload" /\ pc[c] \in {"close", "build"} \cup Planning =>
        /\ \A m \in todo[c] : seen[c][m].state = "on"
        /\ pc[c] \in Planning => seen[c][cur[c]].state = "on"
        /\ \A m \in Mappings :
              /\ pc[c] = "apply" /\ m = cur[c] => Excused(m) \/ plan[c] = config[m]
              /\ staged[c][m] # None => Serves(staged[c][m], m) /\ seen[c][m].state = "on"
              /\ \/ Excused(m)
                 \/ /\ seen[c][m] = row[m]
                    /\ \/ m \in todo[c] \cup stagedFail[c] \/ row[m].state # "on"
                       \/ pc[c] \in Planning /\ m = cur[c]
                       \/ Right(staged[c][m], m)

Charge(c) == ClosesDetached(c) /\ SyncsCurrent(c) /\ RemovesDeleted(c) /\ ReloadsCurrent(c)

Ledger ==
    /\ \A c \in Callers : Charge(c)
    /\ \A m \in Mappings : Quiet(m) \/ \E c \in Callers : pc[c] \notin Outside /\ Entry(c, m)

LInv == IInv /\ Ledger

\* A step of a caller inside the manager does not touch who waits outside.
LEMMA WaitingKept ==
    ASSUME NEW c \in Callers, pc[c] \notin Outside, pc'[c] # "lock",
           \A d \in Callers \ {c} : pc'[d] = pc[d] /\ op'[d] = op[d] /\ todo'[d] = todo[d]
    PROVE  \A m \in Mappings : Waiting(m)' <=> Waiting(m)
  BY DEF Waiting, Outside

\* Seen by the caller inside, every mapping has its entry, and nobody else is inside.
LEMMA Inside ==
    ASSUME LInv, NEW c \in Callers, pc[c] \notin Outside
    PROVE  /\ \A m \in Mappings : Entry(c, m)
           /\ Charge(c) /\ TypeOK /\ CallerInv(c)
           /\ \A d \in Callers \ {c} : pc[d] \in Outside
  <1>1. \A d \in Callers \ {c} : pc[d] \in Outside
    BY DEF LInv, IInv, Mutex
  <1>2. \A m \in Mappings : Entry(c, m)
    BY <1>1 DEF LInv, Ledger, Quiet, Entry
  <1> QED
    BY <1>1, <1>2 DEF LInv, IInv, Ledger

\* The others, outside, are charged with nothing that a step inside changes.
LEMMA OthersCharged ==
    ASSUME LInv, NEW c \in Callers, pc[c] \notin Outside, row' = row,
           \A d \in Callers \ {c} : pc'[d] = pc[d] /\ op'[d] = op[d] /\ todo'[d] = todo[d]
    PROVE  \A d \in Callers \ {c} : Charge(d)'
  <1> SUFFICES ASSUME NEW d \in Callers \ {c} PROVE Charge(d)'
    OBVIOUS
  <1>1. pc'[d] \in Outside
    BY Inside
  <1>2. RemovesDeleted(d)
    BY DEF LInv, Ledger, Charge
  <1>3. ClosesDetached(d)' /\ SyncsCurrent(d)' /\ ReloadsCurrent(d)'
    BY <1>1 DEF ClosesDetached, SyncsCurrent, ReloadsCurrent, Syncing, Planning, Outside
  <1>4. RemovesDeleted(d)'
    BY <1>2 DEF RemovesDeleted
  <1> QED
    BY <1>3, <1>4 DEF Charge

\* It remains to look at the entries and at the caller inside.
LEMMA LedgerOf ==
    ASSUME LInv, NEW c \in Callers, pc[c] \notin Outside, pc'[c] \notin Outside, row' = row,
           \A d \in Callers \ {c} : pc'[d] = pc[d] /\ op'[d] = op[d] /\ todo'[d] = todo[d],
           Charge(c)', \A m \in Mappings : Entry(c, m)'
    PROVE  Ledger'
  BY OthersCharged DEF Ledger

\* Cores in the table serve one mapping each: whoever takes m out of the table
\* closes no other mapping's core.
LEMMA Detached ==
    ASSUME TypeOK, TypeOK', NEW c \in Callers, NEW m \in Mappings,
           \A n \in Mappings : instances[n] # None => Serves(instances[n], n),
           instances' = [instances EXCEPT ![m] = None], victims'[c] = CoreOf(m)
    PROVE  \A n \in Mappings : /\ instances'[n] = IF n = m THEN None ELSE instances[n]
                               /\ instances'[n] \notin victims'[c]
  <1>1. \A n \in Mappings : instances'[n] = IF n = m THEN None ELSE instances[n]
    BY DEF TypeOK
  <1>2. victims'[c] \subseteq Cores /\ victims'[c] = {instances[m]} \ {None}
    BY DEF TypeOK, CoreOf
  <1>3. ASSUME NEW n \in Mappings PROVE instances'[n] \notin victims'[c]
    BY <1>1, <1>2, NoneIsNothing DEF Serves
  <1> QED
    BY <1>1, <1>3

\* Skipping a mapping owes it a sync.
LEMMA SkipLedger ==
    ASSUME LInv, NEW c \in Callers, NEW m \in Mappings, SyncSkip(c, m)
    PROVE  Ledger'
  <1>1. pc[c] = "sync" /\ pc[c] \notin Outside
    BY DEF SyncSkip, Outside
  <1>2. /\ \A n \in Mappings : Entry(c, n)
        /\ Charge(c) /\ TypeOK /\ CallerInv(c)
    BY <1>1, Inside
  <1>3. /\ UNCHANGED <<dbVars, core, statusVars, workVars, op, pc>>
        /\ todo'[c] = todo[c] \ {m} /\ \A d \in Callers \ {c} : todo'[d] = todo[d]
        /\ missed' = missed \cup {m} /\ op[c] # "reload"
    BY <1>1, <1>2 DEF SyncSkip, TypeOK, CallerInv, Modes
  <1>4. \A n \in Mappings : Waiting(n)' <=> Waiting(n)
    BY <1>1, <1>3, WaitingKept DEF Outside
  <1>5. \A n \in Mappings : Entry(c, n)'
    BY <1>1, <1>2, <1>3, <1>4
    DEF Entry, Held, Excused, Settled, Right, Serves, Syncing, Planning, dbVars, statusVars, workVars
  <1>6. Charge(c)'
    BY <1>1, <1>3 DEF Charge, ClosesDetached, SyncsCurrent, RemovesDeleted, ReloadsCurrent, Syncing, Planning
  <1> QED
    BY <1>1, <1>3, <1>5, <1>6, LedgerOf DEF dbVars

\* Taking a mapping down leaves nothing in the table, and its row is not enabled.
LEMMA RemoveLedger ==
    ASSUME LInv, TypeOK', NEW c \in Callers, NEW m \in Mappings, SyncRemove(c, m) \/ Remove(c, m)
    PROVE  Ledger'
  <1>1. pc[c] \in {"sync", "remove"} /\ pc[c] \notin Outside /\ m \in todo[c]
    BY DEF SyncRemove, Remove, Outside
  <1>2. /\ \A n \in Mappings : Entry(c, n)
        /\ Charge(c) /\ TypeOK /\ CallerInv(c)
    BY <1>1, Inside
  <1>3. /\ UNCHANGED <<dbVars, core, op, cur, seen>> /\ op[c] # "reload"
        /\ pc'[c] = "close" /\ after'[c] = "sync" /\ todo'[c] = todo[c] \ {m} /\ missed' = missed \ {m}
        /\ \A d \in Callers \ {c} : pc'[d] = pc[d] /\ op'[d] = op[d] /\ todo'[d] = todo[d]
        /\ instances' = [instances EXCEPT ![m] = None] /\ victims'[c] = CoreOf(m)
        /\ inbounds' = inbounds \ {m} /\ failures' = failures \ {m}
    BY <1>1, <1>2 DEF SyncRemove, Remove, Detach, Goto, TypeOK, CallerInv, Modes
  <1>4. \A n \in Mappings : Waiting(n)' <=> Waiting(n)
    BY <1>1, <1>3, WaitingKept
  <1>5. ~Syncing(c) /\ ~Syncing(c)'
    BY <1>1, <1>3 DEF Syncing, Planning
  <1>6. \A n \in Mappings : instances[n] # None => Serves(instances[n], n)
    BY <1>1, <1>2 DEF Entry
  <1>7. \A n \in Mappings : /\ instances'[n] = IF n = m THEN None ELSE instances[n]
                            /\ instances'[n] \notin victims'[c]
    BY <1>2, <1>3, <1>6, Detached
  <1>8. row[m].state # "on"
    <2>1. CASE SyncRemove(c, m)
      BY <2>1 DEF SyncRemove
    <2>2. CASE Remove(c, m)
      BY <1>1, <1>2, <2>2 DEF Remove, Charge, RemovesDeleted
    <2> QED
      BY <2>1, <2>2
  <1>9. \A n \in Mappings : Entry(c, n)'
    BY <1>1, <1>2, <1>3, <1>4, <1>5, <1>7, <1>8
    DEF Entry, Held, Excused, Settled, Right, Serves, dbVars, Outside
  <1>10. Charge(c)'
    BY <1>3, <1>5, <1>7 DEF Charge, ClosesDetached, SyncsCurrent, RemovesDeleted, ReloadsCurrent
  <1> QED
    BY <1>1, <1>3, <1>9, <1>10, LedgerOf DEF dbVars, Outside

\* Reading a row begins a sync with the row as it is.
LEMMA ReadLedger ==
    ASSUME LInv, TypeOK', NEW c \in Callers, NEW m \in Mappings, SyncRead(c, m)
    PROVE  Ledger'
  <1>1. pc[c] = "sync" /\ pc[c] \notin Outside /\ m \in todo[c] /\ row[m].state = "on"
    BY DEF SyncRead, Outside
  <1>2. /\ \A n \in Mappings : Entry(c, n)
        /\ Charge(c) /\ TypeOK /\ CallerInv(c)
    BY <1>1, Inside
  <1>3. /\ UNCHANGED <<dbVars, core, op, plan>> /\ op[c] # "reload"
        /\ todo'[c] = todo[c] \ {m} /\ missed' = missed \ {m} /\ cur'[c] = m /\ seen'[c][m] = row[m]
        /\ \A d \in Callers \ {c} : pc'[d] = pc[d] /\ op'[d] = op[d] /\ todo'[d] = todo[d]
    BY <1>1, <1>2 DEF SyncRead, Detach, Goto, TypeOK, CallerInv, Modes
  <1>4. \/ /\ pc'[c] = "plan" /\ UNCHANGED statusVars
        \/ /\ pc'[c] = "close" /\ after'[c] = "plan"
           /\ instances' = [instances EXCEPT ![m] = None] /\ victims'[c] = CoreOf(m)
           /\ inbounds' = inbounds \ {m} /\ failures' = failures \ {m}
    BY <1>2 DEF SyncRead, Detach, Goto, TypeOK
  <1>5. ~Syncing(c) /\ Syncing(c)'
    BY <1>1, <1>3, <1>4 DEF Syncing, Planning
  <1>6. pc'[c] \notin Outside /\ \A n \in Mappings : Waiting(n)' <=> Waiting(n)
    BY <1>1, <1>3, <1>4, WaitingKept DEF Outside
  <1>7. \A n \in Mappings : instances[n] # None => Serves(instances[n], n)
    BY <1>1, <1>2 DEF Entry
  <1>8. /\ \A n \in Mappings \ {m} : instances'[n] = instances[n] /\ (n \in inbounds' <=> n \in inbounds)
                                     /\ (n \in failures' <=> n \in failures)
        /\ instances'[m] \in {None, instances[m]}
        /\ pc'[c] = "close" => \A n \in Mappings : instances'[n] \notin victims'[c]
    <2>1. CASE pc'[c] = "plan" /\ UNCHANGED statusVars
      BY <2>1 DEF statusVars
    <2>2. CASE /\ pc'[c] = "close" /\ after'[c] = "plan"
               /\ instances' = [instances EXCEPT ![m] = None] /\ victims'[c] = CoreOf(m)
               /\ inbounds' = inbounds \ {m} /\ failures' = failures \ {m}
      <3>1. \A n \in Mappings : /\ instances'[n] = IF n = m THEN None ELSE instances[n]
                                /\ instances'[n] \notin victims'[c]
        BY <1>2, <1>7, <2>2, Detached
      <3> QED
        BY <2>2, <3>1
    <2> QED
      BY <1>4, <2>1, <2>2
  <1>9. ASSUME NEW n \in Mappings PROVE Entry(c, n)'
    <2>1. instances'[n] # None => Serves(instances[n], n)'
      BY <1>3, <1>7, <1>8 DEF Serves
    <2>2. CASE n = m
      BY <1>3, <1>5, <1>6, <2>1, <2>2 DEF Entry, Held
    <2>3. CASE n # m
      BY <1>1, <1>2, <1>3, <1>5, <1>6, <1>8, <2>1, <2>3
      DEF Entry, Held, Excused, Settled, Right, dbVars
    <2> QED
      BY <2>2, <2>3
  <1>10. Charge(c)'
    <2>1. ClosesDetached(c)'
      BY <1>8 DEF ClosesDetached
    <2>2. SyncsCurrent(c)'
      BY <1>1, <1>3, <1>4 DEF SyncsCurrent, dbVars
    <2> QED
      BY <1>3, <1>4, <2>1, <2>2 DEF Charge, RemovesDeleted, ReloadsCurrent
  <1> QED
    BY <1>1, <1>3, <1>6, <1>9, <1>10, LedgerOf DEF dbVars

\* The plan of the mapping in work is what nodes, groups and health imply.
LEMMA PlanLedger ==
    ASSUME LInv, NEW c \in Callers, Plan(c)
    PROVE  Ledger'
  <1>1. pc[c] = "plan" /\ pc[c] \notin Outside
    BY DEF Plan, Outside
  <1>2. /\ \A n \in Mappings : Entry(c, n)
        /\ Charge(c) /\ TypeOK
    BY <1>1, Inside
  <1>3. /\ UNCHANGED <<dbVars, core, statusVars, callVars, cur, seen, staged, stagedFail, missed>>
        /\ pc'[c] = "apply" /\ plan'[c] = config[cur[c]] /\ \A d \in Callers \ {c} : pc'[d] = pc[d]
    BY <1>1, <1>2 DEF Plan, Goto, TypeOK
  <1>4. \A n \in Mappings : Waiting(n)' <=> Waiting(n)
    BY <1>1, <1>3, WaitingKept DEF callVars
  <1>5. Syncing(c)' <=> Syncing(c)
    BY <1>1, <1>3 DEF Syncing, Planning, callVars
  <1>6. \A n \in Mappings : Entry(c, n)'
    BY <1>1, <1>2, <1>3, <1>4, <1>5
    DEF Entry, Held, Excused, Settled, Right, Serves, dbVars, statusVars, callVars, Outside
  <1>7. Charge(c)'
    <2>1. SyncsCurrent(c)'
      BY <1>1, <1>2, <1>3, <1>4, <1>5 DEF Charge, SyncsCurrent, Excused, dbVars
    <2>2. ReloadsCurrent(c)'
      BY <1>1, <1>2, <1>3, <1>4
      DEF Charge, ReloadsCurrent, Excused, Planning, Right, Serves, dbVars, callVars
    <2> QED
      BY <1>3, <2>1, <2>2 DEF Charge, ClosesDetached, RemovesDeleted
  <1> QED
    BY <1>1, <1>3, <1>6, <1>7, LedgerOf DEF dbVars, callVars, Outside

\* A plan is built again from what has changed; other mappings that use the node are owed a sync.
LEMMA ReplanLedger ==
    ASSUME LInv, NEW c \in Callers, NEW S \in SUBSET Mappings, Replan(c, S)
    PROVE  Ledger'
  <1>1. pc[c] \in {"plan", "apply"} /\ pc[c] \notin Outside
    BY DEF Replan, Outside
  <1>2. /\ \A n \in Mappings : Entry(c, n)
        /\ Charge(c) /\ TypeOK /\ CallerInv(c)
    BY <1>1, Inside
  <1>3. /\ UNCHANGED <<row, core, statusVars, callVars, cur, seen, staged, stagedFail>>
        /\ pc'[c] = "plan" /\ \A d \in Callers \ {c} : pc'[d] = pc[d]
        /\ missed' = missed \cup (S \ {cur[c]}) /\ cur[c] \in S
        /\ \A n \in Mappings \ S : config'[n] = config[n]
    BY <1>1, <1>2 DEF Replan, Change, Goto, TypeOK, workVars
  <1>4. \A n \in Mappings : Waiting(n)' <=> Waiting(n)
    BY <1>1, <1>3, WaitingKept DEF callVars
  <1>5. Syncing(c)' <=> Syncing(c)
    BY <1>1, <1>3 DEF Syncing, Planning, callVars
  <1>6. ASSUME NEW n \in Mappings PROVE Entry(c, n)'
    <2>1. CASE n = cur[c]
      <3>1. Held(c, n)'
        BY <1>1, <1>3, <1>5, <2>1 DEF Held, Syncing, Planning, callVars, Outside
      <3> QED
        BY <1>1, <1>2, <1>3, <1>5, <3>1, <2>1 DEF Entry, Serves, statusVars
    <2>2. CASE n \in S \ {cur[c]}
      BY <1>1, <1>2, <1>3, <1>5, <2>2 DEF Entry, Excused, Serves, statusVars
    <2>3. CASE n \notin S
      BY <1>1, <1>2, <1>3, <1>4, <1>5, <2>3
      DEF Entry, Held, Excused, Settled, Right, Serves, statusVars, callVars, Outside
    <2> QED
      BY <2>1, <2>2, <2>3
  <1>7. Charge(c)'
    <2>1. SyncsCurrent(c)'
      BY <1>1, <1>2, <1>3, <1>4, <1>5 DEF Charge, SyncsCurrent, Excused
    <2>2. ReloadsCurrent(c)'
      <3> SUFFICES ASSUME op[c] = "reload" PROVE ReloadsCurrent(c)'
        BY <1>3 DEF ReloadsCurrent, callVars
      <3>1. /\ \A n \in todo[c] : seen[c][n].state = "on"
            /\ seen[c][cur[c]].state = "on"
            /\ \A n \in Mappings :
                  /\ staged[c][n] # None => Serves(staged[c][n], n) /\ seen[c][n].state = "on"
                  /\ \/ Excused(n)
                     \/ /\ seen[c][n] = row[n]
                        /\ \/ n \in todo[c] \cup stagedFail[c] \/ row[n].state # "on"
                           \/ n = cur[c]
                           \/ Right(staged[c][n], n)
        BY <1>1, <1>2 DEF Charge, ReloadsCurrent, Planning
      <3>2. ASSUME NEW n \in Mappings
            PROVE  /\ staged'[c][n] # None => Serves(staged[c][n], n)' /\ seen'[c][n].state = "on"
                   /\ \/ Excused(n)'
                      \/ /\ seen'[c][n] = row'[n]
                         /\ \/ n \in todo'[c] \cup stagedFail'[c] \/ row'[n].state # "on"
                            \/ n = cur'[c]
                            \/ Right(staged[c][n], n)'
        <4>1. staged'[c][n] # None => Serves(staged[c][n], n)' /\ seen'[c][n].state = "on"
          BY <1>3, <3>1 DEF Serves
        <4>2. CASE n \in S \ {cur[c]}
          BY <1>3, <4>1, <4>2 DEF Excused
        <4>3. CASE n = cur[c]
          BY <1>3, <1>4, <3>1, <4>1, <4>3 DEF Excused, callVars
        <4>4. CASE n \notin S
          BY <1>3, <1>4, <3>1, <4>1, <4>4 DEF Excused, Right, callVars
        <4> QED
          BY <4>2, <4>3, <4>4
      <3> QED
        BY <1>3, <3>1, <3>2 DEF ReloadsCurrent, Planning, callVars
    <2> QED
      BY <1>3, <2>1, <2>2 DEF Charge, ClosesDetached, RemovesDeleted
  <1> QED
    BY <1>1, <1>3, <1>6, <1>7, LedgerOf DEF callVars, Outside

\* A failed update closes its own core and no other.
LEMMA PlanErrorLedger ==
    ASSUME LInv, NEW c \in Callers, PlanError(c)
    PROVE  Ledger'
  <1>1. pc[c] \in {"plan", "apply"} /\ pc[c] \notin Outside
    BY DEF PlanError, Outside
  <1>2. /\ \A n \in Mappings : Entry(c, n)
        /\ Charge(c) /\ TypeOK /\ CallerInv(c)
    BY <1>1, Inside
  <1>3. /\ UNCHANGED <<dbVars, core, statusVars, callVars, cur, seen, staged, stagedFail, missed>>
        /\ \A d \in Callers \ {c} : pc'[d] = pc[d]
        /\ cur[c] \in Mappings
        /\ \/ pc'[c] = "fail"
           \/ pc'[c] = "close" /\ after'[c] = "fail" /\ victims'[c] = {existing[c]} /\ existing[c] # None
    BY <1>1, <1>2 DEF PlanError, Goto, TypeOK
  <1>4. pc'[c] \notin Outside /\ \A n \in Mappings : Waiting(n)' <=> Waiting(n)
    BY <1>1, <1>3, WaitingKept DEF callVars, Outside
  <1>5. pc'[c] = "close" => op[c] # "reload" /\ instances[cur[c]] = existing[c]
    BY <1>1, <1>2, <1>3 DEF CallerInv, ReloadState, SyncState
  <1>6. Syncing(c)' <=> Syncing(c)
    BY <1>1, <1>3, <1>5 DEF Syncing, Planning, callVars
  <1>7. \A n \in Mappings : instances[n] # None => Serves(instances[n], n)
    BY <1>1, <1>2 DEF Entry
  <1>8. ASSUME NEW n \in Mappings PROVE Entry(c, n)'
    <2>1. Held(c, n) => Held(c, n)'
      BY <1>1, <1>3, <1>4, <1>6 DEF Held, callVars
    <2>2. (Excused(n) <=> Excused(n)') /\ (Settled(n) <=> Settled(n)') /\ (instances'[n] # None => Serves(instances[n], n)')
      BY <1>3, <1>4, <1>7 DEF Excused, Settled, Right, Serves, dbVars, statusVars
    <2> QED
      BY <1>2, <1>3, <1>6, <2>1, <2>2 DEF Entry, statusVars
  <1>9. Charge(c)'
    <2>1. SyncsCurrent(c)'
      BY <1>2, <1>3, <1>4, <1>6 DEF Charge, SyncsCurrent, Excused, dbVars
    <2>2. ClosesDetached(c)'
      BY <1>3, <1>5, <1>7 DEF ClosesDetached, Serves, statusVars, callVars
    <2>3. ReloadsCurrent(c)'
      BY <1>1, <1>2, <1>3, <1>4, <1>5
      DEF Charge, ReloadsCurrent, Excused, Planning, Right, Serves, dbVars, callVars
    <2> QED
      BY <1>3, <2>1, <2>2, <2>3 DEF Charge, RemovesDeleted
  <1> QED
    BY <1>1, <1>3, <1>4, <1>8, <1>9, LedgerOf DEF dbVars, callVars

\* An updated core is what the database says of its mapping; no other mapping uses it.
LEMMA ApplyLedger ==
    ASSUME LInv, NEW c \in Callers, Apply(c)
    PROVE  Ledger'
  <1>1. pc[c] = "apply" /\ pc[c] \notin Outside /\ existing[c] # None
    BY DEF Apply, Outside
  <1>2. /\ \A n \in Mappings : Entry(c, n)
        /\ Charge(c) /\ TypeOK /\ CallerInv(c)
    BY <1>1, Inside
  <1>3. op[c] # "reload" /\ instances[cur[c]] = existing[c] /\ Syncing(c)
    BY <1>1, <1>2 DEF CallerInv, SyncState, ReloadState, Syncing, Planning
  <1>4. /\ UNCHANGED <<dbVars, callVars, cur, seen, missed>>
        /\ pc'[c] = "sync" /\ \A d \in Callers \ {c} : pc'[d] = pc[d]
        /\ core' = [core EXCEPT ![existing[c]] = Built(c)]
        /\ existing[c] \in Cores /\ core'[existing[c]] = Built(c) /\ cur[c] \in Mappings
        /\ \A k \in Cores \ {existing[c]} : core'[k] = core[k]
        /\ instances' = instances /\ inbounds' = inbounds \cup {cur[c]} /\ failures' = failures \ {cur[c]}
    BY <1>1, <1>2, <1>3 DEF Apply, SetInstance, Goto, TypeOK, workVars
  <1>5. \A n \in Mappings : Waiting(n)' <=> Waiting(n)
    BY <1>1, <1>4, WaitingKept DEF callVars
  <1>6. ~Syncing(c)'
    BY <1>4 DEF Syncing, Planning
  <1>7. ASSUME NEW n \in Mappings PROVE Entry(c, n)'
    <2>1. instances[n] # None => Serves(instances[n], n)
      BY <1>1, <1>2 DEF Entry
    <2>2. CASE n = cur[c]
      <3>1. Serves(instances[n], n)'
        BY <1>3, <1>4, <2>2 DEF Serves, Built
      <3>2. Excused(n) \/ (seen[c][n] = row[n] /\ plan[c] = config[n])
        BY <1>1, <1>2, <1>3, <2>2 DEF Charge, SyncsCurrent
      <3>3. Excused(n)' \/ Right(instances[n], n)'
        <4>1. CASE Excused(n)
          BY <1>4, <1>5, <4>1 DEF Excused
        <4>2. CASE seen[c][n] = row[n] /\ plan[c] = config[n]
          BY <1>1, <1>3, <1>4, <2>2, <4>2 DEF Right, Built, dbVars
        <4> QED
          BY <3>2, <4>1, <4>2
      <3>4. Excused(n)' \/ Settled(n)'
        <4>1. Excused(n) \/ row[n].state = "on"
          BY <1>1, <1>2, <1>3, <2>2 DEF Charge, SyncsCurrent
        <4> QED
          BY <1>4, <1>5, <3>3, <4>1 DEF Excused, Settled, dbVars
      <3> QED
        BY <1>1, <1>3, <1>4, <2>2, <3>1, <3>4 DEF Entry
    <2>3. CASE n # cur[c]
      <3>1. instances[n] # existing[c]
        <4>1. Serves(instances[cur[c]], cur[c])
          BY <1>1, <1>2, <1>3, <1>4 DEF Entry
        <4> QED
          BY <1>1, <1>3, <2>1, <2>3, <4>1 DEF Serves
      <3>2. instances[n] # None => core'[instances[n]] = core[instances[n]]
        BY <1>2, <1>4, <3>1 DEF TypeOK
      <3>3. Settled(n) => Settled(n)'
        BY <1>4, <2>3, <3>2 DEF Settled, Right, dbVars
      <3>4. Held(c, n) => Held(c, n)'
        BY <1>1, <1>3, <1>4, <2>3 DEF Held, callVars, Outside
      <3> QED
        BY <1>2, <1>4, <1>5, <2>1, <2>3, <3>2, <3>3, <3>4 DEF Entry, Excused, Serves
    <2> QED
      BY <2>2, <2>3
  <1>8. Charge(c)'
    BY <1>3, <1>4, <1>6 DEF Charge, ClosesDetached, SyncsCurrent, RemovesDeleted, ReloadsCurrent, callVars
  <1> QED
    BY <1>1, <1>4, <1>7, <1>8, LedgerOf DEF dbVars, callVars, Outside

\* A core taken down for new options leaves its mapping without one.
LEMMA RestartLedger ==
    ASSUME LInv, TypeOK', NEW c \in Callers, Restart(c)
    PROVE  Ledger'
  <1>1. pc[c] = "apply" /\ pc[c] \notin Outside /\ existing[c] # None
    BY DEF Restart, Outside
  <1>2. /\ \A n \in Mappings : Entry(c, n)
        /\ Charge(c) /\ TypeOK /\ CallerInv(c)
    BY <1>1, Inside
  <1>3. op[c] # "reload" /\ Syncing(c)
    BY <1>1, <1>2 DEF CallerInv, ReloadState, Syncing, Planning
  <1>4. /\ UNCHANGED <<dbVars, core, callVars, cur, seen, plan, missed>> /\ cur[c] \in Mappings
        /\ pc'[c] = "close" /\ after'[c] = "plan" /\ \A d \in Callers \ {c} : pc'[d] = pc[d]
        /\ instances' = [instances EXCEPT ![cur[c]] = None] /\ victims'[c] = CoreOf(cur[c])
        /\ inbounds' = inbounds \ {cur[c]} /\ failures' = failures \ {cur[c]}
    BY <1>2 DEF Restart, Detach, Goto, TypeOK
  <1>5. \A n \in Mappings : Waiting(n)' <=> Waiting(n)
    BY <1>1, <1>4, WaitingKept DEF callVars
  <1>6. Syncing(c)'
    BY <1>3, <1>4 DEF Syncing, Planning, callVars
  <1>7. \A n \in Mappings : instances[n] # None => Serves(instances[n], n)
    BY <1>1, <1>2 DEF Entry
  <1>8. \A n \in Mappings : /\ instances'[n] = IF n = cur[c] THEN None ELSE instances[n]
                            /\ instances'[n] \notin victims'[c]
    BY <1>2, <1>4, <1>7, Detached
  <1>9. ASSUME NEW n \in Mappings PROVE Entry(c, n)'
    <2>1. CASE n = cur[c]
      BY <1>4, <1>6, <1>8, <2>1 DEF Entry, Held, Outside
    <2>2. CASE n # cur[c]
      BY <1>1, <1>2, <1>3, <1>4, <1>5, <1>7, <1>8, <2>2
      DEF Entry, Held, Excused, Settled, Right, Serves, dbVars, callVars, Outside
    <2> QED
      BY <2>1, <2>2
  <1>10. Charge(c)'
    <2>1. SyncsCurrent(c)'
      BY <1>2, <1>3, <1>4, <1>5 DEF Charge, SyncsCurrent, Excused, dbVars
    <2>2. ClosesDetached(c)'
      BY <1>8 DEF ClosesDetached
    <2> QED
      BY <1>3, <1>4, <2>1, <2>2 DEF Charge, RemovesDeleted, ReloadsCurrent, callVars
  <1> QED
    BY <1>1, <1>4, <1>9, <1>10, LedgerOf DEF dbVars, callVars, Outside

\* A new core, published by a sync or staged by a reload, is what the plan and the
\* row say; it was closed, so it serves no other mapping.
LEMMA StartLedger ==
    ASSUME LInv, NEW c \in Callers, Start(c)
    PROVE  Ledger'
  <1>1. pc[c] = "apply" /\ pc[c] \notin Outside /\ existing[c] = None
    BY DEF Start, Outside
  <1>2. /\ \A n \in Mappings : Entry(c, n)
        /\ Charge(c) /\ TypeOK /\ CallerInv(c)
    BY <1>1, Inside
  <1>3. PICK k \in Cores :
          /\ ~core[k].open
          /\ core' = [core EXCEPT ![k] = Built(c)]
          /\ IF op[c] = "reload"
             THEN /\ staged' = [staged EXCEPT ![c][cur[c]] = k]
                  /\ Goto(c, "build")
                  /\ UNCHANGED statusVars
             ELSE /\ SetInstance(cur[c], k)
                  /\ Goto(c, "sync")
                  /\ UNCHANGED staged
    BY DEF Start
  <1>4. /\ UNCHANGED <<dbVars, callVars, cur, seen, stagedFail, missed>> /\ cur[c] \in Mappings
        /\ pc'[c] \in {"build", "sync"} /\ \A d \in Callers \ {c} : pc'[d] = pc[d]
        /\ core'[k] = Built(c) /\ \A j \in Cores \ {k} : core'[j] = core[j]
    BY <1>2, <1>3 DEF Start, Goto, TypeOK
  <1>5. \A n \in Mappings : Waiting(n)' <=> Waiting(n)
    BY <1>1, <1>4, WaitingKept DEF callVars
  <1>6. ASSUME NEW n \in Mappings, instances[n] # None
        PROVE  Serves(instances[n], n) /\ core'[instances[n]] = core[instances[n]]
    BY <1>1, <1>2, <1>3, <1>4, <1>6 DEF Entry, Serves, TypeOK
  <1>7. CASE op[c] = "reload"
    <2>1. /\ pc'[c] = "build" /\ UNCHANGED statusVars /\ instances = NoCores
          /\ staged[c] \in [Mappings -> Cores \cup {None}] /\ staged'[c] = [staged[c] EXCEPT ![cur[c]] = k]
      BY <1>1, <1>2, <1>3, <1>4, <1>7 DEF Goto, TypeOK, CallerInv, ReloadState
    <2>2. ~Syncing(c) /\ ~Syncing(c)' /\ \A n \in Mappings : Held(c, n)'
      BY <1>4, <1>7, <2>1 DEF Syncing, Held, callVars, Outside
    <2>3. \A n \in Mappings : Entry(c, n)'
      BY <1>2, <1>4, <2>1, <2>2 DEF Entry, NoCores, statusVars
    <2>4. /\ \A n \in todo[c] : seen[c][n].state = "on"
          /\ seen[c][cur[c]].state = "on"
          /\ \A n \in Mappings :
                /\ n = cur[c] => Excused(n) \/ plan[c] = config[n]
                /\ staged[c][n] # None => Serves(staged[c][n], n) /\ seen[c][n].state = "on"
                /\ \/ Excused(n)
                   \/ /\ seen[c][n] = row[n]
                      /\ \/ n \in todo[c] \cup stagedFail[c] \/ row[n].state # "on"
                         \/ n = cur[c]
                         \/ Right(staged[c][n], n)
      BY <1>1, <1>2, <1>7 DEF Charge, ReloadsCurrent, Planning
    <2>5. ASSUME NEW n \in Mappings
          PROVE  /\ staged'[c][n] # None => Serves(staged[c][n], n)' /\ seen'[c][n].state = "on"
                 /\ \/ Excused(n)'
                    \/ /\ seen'[c][n] = row'[n]
                       /\ \/ n \in todo'[c] \cup stagedFail'[c] \/ row'[n].state # "on"
                          \/ Right(staged[c][n], n)'
      <3>1. Excused(n) => Excused(n)'
        BY <1>4, <1>5 DEF Excused
      <3>2. CASE n = cur[c]
        <4>1. staged'[c][n] = k
          BY <1>4, <2>1, <3>2
        <4>2. Serves(staged[c][n], n)'
          BY <1>4, <3>2, <4>1 DEF Serves, Built
        <4>3. CASE ~Excused(n)
          <5>1. plan[c] = config[n] /\ seen[c][n] = row[n]
            BY <2>4, <3>2, <4>3
          <5>2. Right(staged[c][n], n)'
            BY <1>3, <1>4, <3>2, <4>1, <5>1, NoneIsNothing DEF Right, Built, dbVars
          <5> QED
            BY <1>4, <2>4, <3>2, <4>2, <5>1, <5>2 DEF dbVars
        <4> QED
          BY <1>4, <2>4, <3>1, <3>2, <4>2, <4>3
      <3>3. CASE n # cur[c]
        <4>1. staged'[c][n] = staged[c][n] /\ staged[c][n] \in Cores \cup {None}
          BY <1>4, <2>1, <3>3
        <4>2. staged[c][n] # None => core'[staged[c][n]] = core[staged[c][n]]
          BY <1>3, <1>4, <2>4, <4>1 DEF Serves
        <4>3. Right(staged[c][n], n) => Right(staged[c][n], n)'
          BY <1>4, <4>1, <4>2 DEF Right, dbVars
        <4>4. staged'[c][n] # None => Serves(staged[c][n], n)'
          BY <2>4, <4>1, <4>2 DEF Serves
        <4> QED
          BY <1>4, <2>4, <3>1, <3>3, <4>1, <4>3, <4>4 DEF dbVars, callVars
      <3> QED
        BY <3>2, <3>3
    <2>6. ReloadsCurrent(c)'
      BY <1>4, <2>1, <2>4, <2>5 DEF ReloadsCurrent, Planning, callVars
    <2>7. Charge(c)'
      BY <1>4, <2>1, <2>2, <2>6 DEF Charge, ClosesDetached, SyncsCurrent, RemovesDeleted
    <2> QED
      BY <1>1, <1>4, <2>3, <2>7, LedgerOf DEF dbVars, callVars, Outside
  <1>8. CASE op[c] # "reload"
    <2>1. /\ pc'[c] = "sync" /\ instances' = [instances EXCEPT ![cur[c]] = k]
          /\ inbounds' = inbounds \cup {cur[c]} /\ failures' = failures \ {cur[c]}
      BY <1>2, <1>3, <1>8 DEF Goto, SetInstance, TypeOK
    <2>2. Syncing(c) /\ ~Syncing(c)'
      BY <1>1, <1>8, <2>1 DEF Syncing, Planning
    <2>3. \A n \in Mappings : instances'[n] = IF n = cur[c] THEN k ELSE instances[n]
      BY <1>2, <2>1 DEF TypeOK
    <2>4. ASSUME NEW n \in Mappings PROVE Entry(c, n)'
      <3>1. Excused(n) => Excused(n)'
        BY <1>4, <1>5 DEF Excused
      <3>2. CASE n = cur[c]
        <4>1. instances'[n] = k /\ Serves(instances[n], n)'
          BY <1>4, <2>3, <3>2 DEF Serves, Built
        <4>2. CASE ~Excused(n)
          <5>1. plan[c] = config[n] /\ seen[c][n] = row[n] /\ row[n].state = "on"
            BY <1>1, <1>2, <2>2, <3>2, <4>2 DEF Charge, SyncsCurrent
          <5>2. Right(instances[n], n)'
            BY <1>3, <1>4, <3>2, <4>1, <5>1, NoneIsNothing DEF Right, Built, dbVars
          <5>3. Settled(n)'
            BY <1>4, <5>1, <5>2 DEF Settled, dbVars
          <5> QED
            BY <1>3, <2>1, <3>2, <4>1, <5>3, NoneIsNothing DEF Entry
        <4> QED
          BY <1>3, <2>1, <3>1, <3>2, <4>1, <4>2, NoneIsNothing DEF Entry
      <3>3. CASE n # cur[c]
        <4>1. instances'[n] = instances[n] /\ (n \in inbounds' <=> n \in inbounds)
              /\ (n \in failures' <=> n \in failures)
          BY <2>1, <2>3, <3>3
        <4>2. Settled(n) => Settled(n)'
          BY <1>4, <1>6, <4>1 DEF Settled, Right, dbVars
        <4>3. Held(c, n) => Held(c, n)'
          BY <1>1, <1>4, <1>8, <2>1, <3>3 DEF Held, callVars, Outside
        <4>4. instances'[n] # None => Serves(instances[n], n)'
          BY <1>6, <4>1 DEF Serves
        <4> QED
          BY <1>2, <1>4, <3>1, <3>3, <4>1, <4>2, <4>3, <4>4 DEF Entry
      <3> QED
        BY <3>2, <3>3
    <2>5. Charge(c)'
      BY <1>4, <1>8, <2>1, <2>2 DEF Charge, ClosesDetached, SyncsCurrent, RemovesDeleted, ReloadsCurrent, callVars
    <2> QED
      BY <1>1, <1>4, <2>4, <2>5, LedgerOf DEF dbVars, callVars, Outside
  <1> QED
    BY <1>7, <1>8

\* A failure is reported for the mapping in work.
LEMMA FailLedger ==
    ASSUME LInv, NEW c \in Callers, Fail(c)
    PROVE  Ledger'
  <1>1. pc[c] = "fail" /\ pc[c] \notin Outside
    BY DEF Fail, Outside
  <1>2. /\ \A n \in Mappings : Entry(c, n)
        /\ Charge(c) /\ TypeOK /\ CallerInv(c)
    BY <1>1, Inside
  <1>3. /\ UNCHANGED <<dbVars, core, callVars, cur, seen, staged, missed>> /\ cur[c] \in Mappings
        /\ pc'[c] \in {"build", "sync"} /\ \A d \in Callers \ {c} : pc'[d] = pc[d]
    BY <1>2 DEF Fail, Goto, TypeOK
  <1>4. \A n \in Mappings : Waiting(n)' <=> Waiting(n)
    BY <1>1, <1>3, WaitingKept DEF callVars
  <1>5. \A n \in Mappings : Excused(n) => Excused(n)'
    BY <1>3, <1>4 DEF Excused
  <1>6. CASE op[c] = "reload"
    <2>1. /\ pc'[c] = "build" /\ UNCHANGED statusVars /\ instances = NoCores
          /\ stagedFail'[c] = stagedFail[c] \cup {cur[c]}
      BY <1>1, <1>2, <1>6 DEF Fail, Goto, TypeOK, CallerInv, ReloadState
    <2>2. ~Syncing(c) /\ ~Syncing(c)' /\ \A n \in Mappings : Held(c, n)'
      BY <1>3, <1>6, <2>1 DEF Syncing, Held, callVars, Outside
    <2>3. \A n \in Mappings : Entry(c, n)'
      BY <1>2, <1>3, <2>1, <2>2 DEF Entry, NoCores, statusVars
    <2>4. ReloadsCurrent(c)'
      BY <1>1, <1>2, <1>3, <1>5, <1>6, <2>1
      DEF Charge, ReloadsCurrent, Planning, Serves, Right, dbVars, callVars
    <2>5. Charge(c)'
      BY <1>3, <2>1, <2>2, <2>4 DEF Charge, ClosesDetached, SyncsCurrent, RemovesDeleted
    <2> QED
      BY <1>1, <1>3, <2>3, <2>5, LedgerOf DEF dbVars, callVars, Outside
  <1>7. CASE op[c] # "reload"
    <2>1. /\ pc'[c] = "sync" /\ inbounds' = inbounds \ {cur[c]} /\ failures' = failures \cup {cur[c]}
          /\ \A n \in Mappings : instances'[n] = IF n = cur[c] THEN None ELSE instances[n]
      BY <1>2, <1>7 DEF Fail, Goto, TypeOK
    <2>2. Syncing(c) /\ ~Syncing(c)'
      BY <1>1, <1>7, <2>1 DEF Syncing, Planning
    <2>3. ASSUME NEW n \in Mappings PROVE Entry(c, n)'
      <3>1. CASE n = cur[c]
        <4>1. Excused(n) \/ row[n].state = "on"
          BY <1>2, <2>2, <3>1 DEF Charge, SyncsCurrent
        <4>2. Excused(n)' \/ Settled(n)'
          BY <1>3, <1>5, <2>1, <3>1, <4>1 DEF Settled, dbVars
        <4> QED
          BY <2>1, <3>1, <4>2 DEF Entry
      <3>2. CASE n # cur[c]
        <4>1. Settled(n) => Settled(n)'
          BY <1>3, <2>1, <3>2 DEF Settled, Right, dbVars
        <4>2. Held(c, n) => Held(c, n)'
          BY <1>1, <1>3, <1>7, <2>1, <3>2 DEF Held, callVars, Outside
        <4> QED
          BY <1>2, <1>3, <1>5, <2>1, <3>2, <4>1, <4>2 DEF Entry, Serves
      <3> QED
        BY <3>1, <3>2
    <2>4. Charge(c)'
      BY <1>3, <1>7, <2>1, <2>2 DEF Charge, ClosesDetached, SyncsCurrent, RemovesDeleted, ReloadsCurrent, callVars
    <2> QED
      BY <1>1, <1>3, <2>3, <2>4, LedgerOf DEF dbVars, callVars, Outside
  <1> QED
    BY <1>6, <1>7

\* Closing: the port of the core that could not be updated is all that is lost.
LEMMA CloseLedger ==
    ASSUME LInv, NEW c \in Callers, Close(c)
    PROVE  Ledger'
  <1>1. pc[c] = "close" /\ pc[c] \notin Outside
    BY DEF Close, Outside
  <1>2. /\ \A n \in Mappings : Entry(c, n)
        /\ Charge(c) /\ TypeOK /\ CallerInv(c)
    BY <1>1, Inside
  <1>3. /\ UNCHANGED <<dbVars, statusVars, todo, op, cur, seen, plan, staged, stagedFail, missed>>
        /\ pc'[c] = after[c] /\ \A d \in Callers \ {c} : pc'[d] = pc[d]
        /\ \A k \in Cores \ victims[c] : core'[k] = core[k]
    BY <1>1, <1>2 DEF Close, Goto, TypeOK
  <1>4. \/ op[c] # "reload" /\ after[c] \in {"sync", "plan", "fail"}
        \/ op[c] = "reload" /\ after[c] = "build" /\ staged[c] = NoCores
    BY <1>1, <1>2 DEF CallerInv, Modes, Hands
  <1>5. pc'[c] \notin Outside /\ \A n \in Mappings : Waiting(n)' <=> Waiting(n)
    BY <1>1, <1>3, <1>4, WaitingKept DEF Outside
  <1>6. Syncing(c)' <=> Syncing(c)
    BY <1>1, <1>3, <1>4 DEF Syncing, Planning
  <1>7. \A n \in Mappings : instances[n] \in victims[c] =>
            op[c] # "reload" /\ after[c] = "fail" /\ n = cur[c]
    BY <1>1, <1>2 DEF Charge, ClosesDetached
  <1>8. ASSUME NEW n \in Mappings PROVE Entry(c, n)'
    <2>1. Held(c, n) => Held(c, n)'
      BY <1>1, <1>3, <1>5, <1>6 DEF Held
    <2>2. CASE instances[n] \in victims[c]
      <3>1. pc'[c] = "fail" /\ op'[c] # "reload" /\ n = cur'[c] /\ Syncing(c)'
        BY <1>3, <1>7, <2>2 DEF Syncing, Planning
      <3> QED
        BY <1>5, <3>1 DEF Entry, Held
    <2>3. CASE instances[n] \notin victims[c]
      <3>1. instances[n] # None => core'[instances[n]] = core[instances[n]]
        BY <1>2, <1>3, <2>3 DEF TypeOK
      <3>2. (Excused(n) => Excused(n)') /\ (Settled(n) => Settled(n)')
        BY <1>3, <1>5, <3>1 DEF Excused, Settled, Right, dbVars, statusVars
      <3>3. instances[n] # None => Serves(instances[n], n)'
        BY <1>1, <1>2, <1>3, <3>1 DEF Entry, Serves, statusVars
      <3> QED
        BY <1>2, <1>3, <1>6, <2>1, <3>2, <3>3 DEF Entry, statusVars
    <2> QED
      BY <2>2, <2>3
  <1>9. Charge(c)'
    <2>1. SyncsCurrent(c)'
      BY <1>2, <1>3, <1>4, <1>5, <1>6 DEF Charge, SyncsCurrent, Excused, dbVars
    <2>2. ReloadsCurrent(c)'
      <3> SUFFICES ASSUME op[c] = "reload" PROVE ReloadsCurrent(c)'
        BY <1>3 DEF ReloadsCurrent
      <3>1. pc'[c] = "build" /\ staged' = staged /\ staged[c] = NoCores
        BY <1>3, <1>4
      <3>2. /\ \A n \in todo[c] : seen[c][n].state = "on"
            /\ \A n \in Mappings :
                  \/ Excused(n)
                  \/ /\ seen[c][n] = row[n]
                     /\ n \in todo[c] \cup stagedFail[c] \/ row[n].state # "on"
        BY <1>1, <1>2, <3>1 DEF Charge, ReloadsCurrent, Planning, Right, NoCores
      <3>3. \A n \in Mappings : Excused(n) => Excused(n)'
        BY <1>3, <1>5 DEF Excused
      <3> QED
        BY <1>3, <3>1, <3>2, <3>3 DEF ReloadsCurrent, Planning, NoCores, dbVars
    <2> QED
      BY <1>3, <1>4, <2>1, <2>2 DEF Charge, ClosesDetached, RemovesDeleted
  <1> QED
    BY <1>1, <1>3, <1>5, <1>8, <1>9, LedgerOf DEF dbVars

\* A reload takes everything down and holds the rows as they are; a stop owes everything.
LEMMA DownLedger ==
    ASSUME LInv, NEW c \in Callers, ReloadRead(c) \/ Stop(c)
    PROVE  Ledger'
  <1>1. pc[c] \in {"reload", "stop"} /\ pc[c] \notin Outside
    BY DEF ReloadRead, Stop, Outside
  <1>2. Charge(c) /\ TypeOK /\ CallerInv(c)
    BY <1>1, Inside
  <1>3. /\ UNCHANGED <<dbVars, core, op, staged, stagedFail>>
        /\ pc'[c] = "close"
        /\ \A d \in Callers \ {c} : pc'[d] = pc[d] /\ op'[d] = op[d] /\ todo'[d] = todo[d]
        /\ instances' = NoCores /\ inbounds' = {} /\ victims'[c] \subseteq Cores
    <2>1. AllCores \subseteq Cores
      BY <1>2 DEF AllCores, TypeOK
    <2> QED
      BY <1>2, <2>1 DEF ReloadRead, Stop, ReplaceAll, Goto, TypeOK, callVars
  <1>4. \A n \in Mappings : instances'[n] = None /\ n \notin inbounds' /\ instances'[n] \notin victims'[c]
    BY <1>3, NoneIsNothing DEF NoCores
  <1>5. CASE ReloadRead(c)
    <2>1. /\ op[c] = "reload" /\ staged[c] = NoCores /\ seen'[c] = row
          /\ todo'[c] = {n \in Mappings : row[n].state = "on"}
      BY <1>2, <1>5 DEF ReloadRead, CallerInv, Modes, Hands, TypeOK
    <2>2. \A n \in Mappings : Entry(c, n)'
      BY <1>3, <1>4, <2>1 DEF Entry, Held, Outside
    <2>3. ~Syncing(c)'
      BY <1>3, <2>1 DEF Syncing
    <2>4. ReloadsCurrent(c)'
      BY <1>3, <2>1 DEF ReloadsCurrent, Planning, NoCores, dbVars
    <2>5. Charge(c)'
      BY <1>3, <1>4, <2>3, <2>4 DEF Charge, ClosesDetached, SyncsCurrent, RemovesDeleted
    <2> QED
      BY <1>1, <1>3, <2>2, <2>5, LedgerOf DEF dbVars, Outside
  <1>6. CASE Stop(c)
    <2>1. /\ op[c] # "reload" /\ after'[c] = "sync" /\ missed' = Mappings
      BY <1>2, <1>6 DEF Stop, ReplaceAll, CallerInv, Modes, TypeOK
    <2>2. \A n \in Mappings : Entry(c, n)'
      BY <1>4, <2>1 DEF Entry, Excused
    <2>3. Charge(c)'
      BY <1>3, <1>4, <2>1
      DEF Charge, ClosesDetached, SyncsCurrent, RemovesDeleted, ReloadsCurrent, Syncing, Planning
    <2> QED
      BY <1>1, <1>3, <2>2, <2>3, LedgerOf DEF dbVars, Outside
  <1> QED
    BY <1>5, <1>6

\* The next mapping of a reload.
LEMMA BuildLedger ==
    ASSUME LInv, NEW c \in Callers, NEW m \in Mappings, Build(c, m)
    PROVE  Ledger'
  <1>1. pc[c] = "build" /\ pc[c] \notin Outside /\ m \in todo[c]
    BY DEF Build, Outside
  <1>2. /\ \A n \in Mappings : Entry(c, n)
        /\ Charge(c) /\ TypeOK /\ CallerInv(c)
    BY <1>1, Inside
  <1>3. /\ UNCHANGED <<dbVars, core, statusVars, op, seen, staged, stagedFail, missed>>
        /\ pc'[c] = "plan" /\ cur'[c] = m /\ todo'[c] = todo[c] \ {m}
        /\ op[c] = "reload" /\ instances = NoCores
        /\ \A d \in Callers \ {c} : pc'[d] = pc[d] /\ todo'[d] = todo[d]
    BY <1>1, <1>2 DEF Build, Goto, TypeOK, CallerInv, Modes, ReloadState
  <1>4. \A n \in Mappings : Waiting(n)' <=> Waiting(n)
    BY <1>1, <1>3, WaitingKept
  <1>5. \A n \in Mappings : Excused(n) => Excused(n)'
    BY <1>3, <1>4 DEF Excused
  <1>6. ~Syncing(c) /\ ~Syncing(c)' /\ \A n \in Mappings : Held(c, n)'
    BY <1>3 DEF Syncing, Held, Outside
  <1>7. \A n \in Mappings : Entry(c, n)'
    BY <1>2, <1>3, <1>6 DEF Entry, NoCores, statusVars
  <1>8. ReloadsCurrent(c)'
    BY <1>1, <1>2, <1>3, <1>5 DEF Charge, ReloadsCurrent, Planning, Serves, Right, dbVars
  <1>9. Charge(c)'
    BY <1>3, <1>6, <1>8 DEF Charge, ClosesDetached, SyncsCurrent, RemovesDeleted
  <1> QED
    BY <1>1, <1>3, <1>7, <1>9, LedgerOf DEF dbVars, Outside

\* Whoever returns leaves every mapping settled or excused.
LEMMA ReturnLedger ==
    ASSUME LInv, NEW c \in Callers, SyncReturn(c) \/ ReloadError(c) \/ Publish(c)
    PROVE  Ledger'
  <1>1. pc[c] \in {"sync", "reload", "build"} /\ pc[c] \notin Outside
    BY DEF SyncReturn, ReloadError, Publish, Outside
  <1>2. /\ \A n \in Mappings : Entry(c, n)
        /\ Charge(c) /\ TypeOK /\ CallerInv(c)
    BY <1>1, Inside
  <1>3. /\ UNCHANGED <<dbVars, core>> /\ pc'[c] = "idle" /\ op'[c] = "sync"
        /\ \A d \in Callers \ {c} : pc'[d] = pc[d] /\ op'[d] = op[d] /\ todo'[d] = todo[d]
    BY <1>2 DEF SyncReturn, ReloadError, Publish, Return, Goto, TypeOK
  <1>4. \A n \in Mappings : Waiting(n)' <=> Waiting(n)
    BY <1>1, <1>3, WaitingKept
  <1>5. \A n \in Mappings : instances[n] # None => Serves(instances[n], n)
    BY <1>1, <1>2 DEF Entry
  <1>6. ~Syncing(c)
    BY <1>1 DEF Syncing, Planning
  <1>7. ASSUME NEW n \in Mappings PROVE Quiet(n)'
    <2>1. CASE SyncReturn(c)
      <3>1. UNCHANGED statusVars /\ missed' = missed /\ pc[c] = "sync" /\ op[c] # "reload" /\ todo[c] = {}
        BY <1>2, <2>1 DEF SyncReturn, CallerInv, Modes
      <3>2. ~Held(c, n)
        BY <1>6, <3>1 DEF Held
      <3> QED
        BY <1>2, <1>3, <1>4, <1>5, <1>6, <3>1, <3>2
        DEF Entry, Quiet, Excused, Settled, Right, Serves, dbVars, statusVars
    <2>2. CASE ReloadError(c)
      BY <1>3, <1>5, <2>2 DEF ReloadError, Quiet, Excused, Serves
    <2>3. CASE Publish(c)
      <3>1. /\ instances' = staged[c] /\ inbounds' = {x \in Mappings : staged[c][x] # None}
            /\ failures' = stagedFail[c] /\ missed' = missed
            /\ pc[c] = "build" /\ op[c] = "reload" /\ todo[c] = {}
        BY <1>2, <2>3 DEF Publish, CallerInv, Modes
      <3>2. /\ staged[c][n] # None => Serves(staged[c][n], n) /\ seen[c][n].state = "on"
            /\ \/ Excused(n)
               \/ /\ seen[c][n] = row[n]
                  /\ n \in stagedFail[c] \/ row[n].state # "on" \/ Right(staged[c][n], n)
        BY <1>2, <3>1 DEF Charge, ReloadsCurrent, Planning
      <3>3. Excused(n)' \/ Settled(n)'
        BY <1>3, <1>4, <3>1, <3>2 DEF Excused, Settled, Right, dbVars
      <3> QED
        BY <1>3, <3>1, <3>2, <3>3 DEF Quiet, Serves
    <2> QED
      BY <2>1, <2>2, <2>3
  <1>8. Charge(c)'
    BY <1>3 DEF Charge, ClosesDetached, SyncsCurrent, RemovesDeleted, ReloadsCurrent, Syncing, Planning
  <1>9. \A d \in Callers \ {c} : Charge(d)'
    BY <1>1, <1>3, OthersCharged DEF dbVars
  <1> QED
    BY <1>7, <1>8, <1>9 DEF Ledger

\* What is written while a call is under way, a waiting caller or missed answers for.
LEMMA WrittenOutside ==
    ASSUME LInv, NEW c \in Callers,
           UNCHANGED <<core, statusVars, workVars>>,
           \A d \in Callers \ {c} : pc'[d] = pc[d] /\ op'[d] = op[d] /\ todo'[d] = todo[d],
           \/ pc'[c] = pc[c] /\ op'[c] = op[c] /\ todo'[c] = todo[c]
           \/ pc[c] = "idle" /\ pc'[c] = "lock" /\ RemovesDeleted(c)',
           \A m \in Mappings :
               /\ Excused(m) => Excused(m)'
               /\ m \in missed => m \in missed'
               /\ Excused(m)' \/ (row'[m] = row[m] /\ config'[m] = config[m])
               /\ row[m].state = "deleted" => row'[m].state = "deleted"
    PROVE  Ledger'
  <1>0. TypeOK
    BY DEF LInv, IInv
  <1>1. \A m \in Mappings : /\ Excused(m)' \/ (Settled(m) => Settled(m)')
                            /\ instances[m] # None /\ Serves(instances[m], m) => Serves(instances[m], m)'
    BY DEF Settled, Right, Serves, statusVars
  <1>2. ASSUME NEW d \in Callers, pc'[d] = pc[d], op'[d] = op[d], todo'[d] = todo[d]
        PROVE  /\ Charge(d)'
               /\ \A m \in Mappings : Entry(d, m) => Entry(d, m)'
    <2>1. Syncing(d)' <=> Syncing(d)
      BY <1>2 DEF Syncing, workVars
    <2>2. Charge(d)
      BY DEF LInv, Ledger
    <2>3. ClosesDetached(d)'
      BY <1>2, <2>2 DEF Charge, ClosesDetached, statusVars, workVars
    <2>4. SyncsCurrent(d)'
      <3> SUFFICES ASSUME NEW m \in Mappings, Syncing(d)', m = cur'[d], ~Excused(m)'
                   PROVE  /\ seen'[d][m] = row'[m] /\ row'[m].state = "on"
                          /\ pc'[d] = "apply" => plan'[d] = config'[m]
        BY DEF SyncsCurrent
      <3>1. ~Excused(m) /\ row'[m] = row[m] /\ config'[m] = config[m]
        OBVIOUS
      <3> QED
        BY <1>2, <2>1, <2>2, <3>1 DEF Charge, SyncsCurrent, workVars
    <2>5. RemovesDeleted(d)'
      BY <1>0, <1>2, <2>2 DEF Charge, RemovesDeleted, TypeOK
    <2>6. ReloadsCurrent(d)'
      <3> SUFFICES ASSUME op[d] = "reload", pc[d] \in {"close", "build"} \cup Planning PROVE ReloadsCurrent(d)'
        BY <1>2 DEF ReloadsCurrent, Planning
      <3>1. /\ \A m \in todo[d] : seen[d][m].state = "on"
            /\ pc[d] \in Planning => seen[d][cur[d]].state = "on"
            /\ \A m \in Mappings :
                  /\ pc[d] = "apply" /\ m = cur[d] => Excused(m) \/ plan[d] = config[m]
                  /\ staged[d][m] # None => Serves(staged[d][m], m) /\ seen[d][m].state = "on"
                  /\ \/ Excused(m)
                     \/ /\ seen[d][m] = row[m]
                        /\ \/ m \in todo[d] \cup stagedFail[d] \/ row[m].state # "on"
                           \/ pc[d] \in Planning /\ m = cur[d]
                           \/ Right(staged[d][m], m)
        BY <2>2 DEF Charge, ReloadsCurrent
      <3>2. ASSUME NEW m \in Mappings
            PROVE  /\ pc[d] = "apply" /\ m = cur[d] => Excused(m)' \/ plan[d] = config'[m]
                   /\ staged[d][m] # None => Serves(staged[d][m], m)' /\ seen[d][m].state = "on"
                   /\ \/ Excused(m)'
                      \/ /\ seen[d][m] = row'[m]
                         /\ \/ m \in todo[d] \cup stagedFail[d] \/ row'[m].state # "on"
                            \/ pc[d] \in Planning /\ m = cur[d]
                            \/ Right(staged[d][m], m)'
        <4>1. Excused(m)' \/ (Right(staged[d][m], m) => Right(staged[d][m], m)')
          BY DEF Right, workVars
        <4>2. Serves(staged[d][m], m) => Serves(staged[d][m], m)'
          BY DEF Serves, workVars
        <4> QED
          BY <3>1, <4>1, <4>2
      <3> QED
        BY <1>2, <3>1, <3>2 DEF ReloadsCurrent, Planning, workVars
    <2>7. ASSUME NEW m \in Mappings, Entry(d, m)
          PROVE  Entry(d, m)'
      <3>1. Held(d, m)' <=> Held(d, m)
        BY <1>2, <2>1 DEF Held, Outside, workVars
      <3> QED
        BY <1>1, <1>2, <2>1, <2>7, <3>1 DEF Entry, statusVars, workVars
    <2> QED
      BY <2>2, <2>3, <2>4, <2>5, <2>6, <2>7 DEF Charge
  <1>3. \A d \in Callers : Charge(d)'
    <2>1. CASE pc'[c] = pc[c] /\ op'[c] = op[c] /\ todo'[c] = todo[c]
      BY <1>2, <2>1
    <2>2. CASE pc[c] = "idle" /\ pc'[c] = "lock" /\ RemovesDeleted(c)'
      <3>1. Charge(c)'
        BY <2>2 DEF Charge, ClosesDetached, SyncsCurrent, ReloadsCurrent, Syncing, Planning
      <3> QED
        BY <1>2, <3>1
    <2> QED
      BY <2>1, <2>2
  <1>4. ASSUME NEW m \in Mappings
        PROVE  Quiet(m)' \/ \E d \in Callers : pc'[d] \notin Outside /\ Entry(d, m)'
    <2>1. CASE Quiet(m)
      BY <1>1, <2>1 DEF Quiet, statusVars
    <2>2. CASE \E d \in Callers : pc[d] \notin Outside /\ Entry(d, m)
      <3>1. PICK d \in Callers : pc[d] \notin Outside /\ Entry(d, m)
        BY <2>2
      <3>2. pc'[d] = pc[d] /\ op'[d] = op[d] /\ todo'[d] = todo[d]
        BY <3>1 DEF Outside
      <3> QED
        BY <1>2, <3>1, <3>2
    <2> QED
      BY <2>1, <2>2 DEF LInv, Ledger
  <1> QED
    BY <1>3, <1>4 DEF Ledger

\* A caller that goes on to lock waits for what it has been given.
LEMMA CallLedger ==
    ASSUME LInv, NEW c \in Callers, NEW o \in Ops, NEW S \in SUBSET Mappings, NEW x, Call(c, o, S, x),
           \A m \in Mappings :
               /\ m \in S \/ (row'[m] = row[m] /\ config'[m] = config[m])
               /\ row[m].state = "deleted" => row'[m].state = "deleted"
               /\ o = "remove" /\ m \in S => row'[m].state = "deleted"
    PROVE  Ledger'
  <1>1. /\ pc[c] = "idle" /\ pc'[c] = "lock" /\ op'[c] = o /\ todo'[c] = S
        /\ \A d \in Callers \ {c} : pc'[d] = pc[d] /\ op'[d] = op[d] /\ todo'[d] = todo[d]
        /\ UNCHANGED <<core, statusVars, workVars, missed>>
    BY DEF Call, Goto, LInv, IInv, TypeOK
  <1>2. \A m \in Mappings : (Waiting(m) => Waiting(m)') /\ (m \in S => Waiting(m)')
    BY <1>1 DEF Waiting
  <1>3. \A m \in Mappings : (Excused(m) => Excused(m)') /\ (m \in S => Excused(m)')
    BY <1>1, <1>2 DEF Excused
  <1>4. RemovesDeleted(c)'
    BY <1>1 DEF RemovesDeleted
  <1> QED
    BY <1>1, <1>3, <1>4, WrittenOutside

\* A request changes what a waiting caller or missed answers for.
LEMMA RequestLedger ==
    ASSUME LInv, NEW c \in Callers, Request(c)
    PROVE  Ledger'
  <1>0. TypeOK
    BY DEF LInv, IInv
  <1>1. ASSUME NEW m \in Mappings, NEW st \in {"off", "on"}, NEW p \in Ports, WriteMapping(c, m, st, p)
        PROVE  Ledger'
    <2>1. \A n \in Mappings : /\ n \in {m} \/ (row'[n] = row[n] /\ config'[n] = config[n])
                              /\ row[n].state = "deleted" => row'[n].state = "deleted"
      BY <1>0, <1>1 DEF WriteMapping, TypeOK
    <2>2. {m} \in SUBSET Mappings /\ "sync" \in Ops /\ Call(c, "sync", {m}, "request")
      BY <1>1 DEF Ops, WriteMapping
    <2> QED
      BY <2>1, <2>2, CallLedger
  <1>2. ASSUME NEW m \in Mappings, DeleteMapping(c, m)
        PROVE  Ledger'
    <2>1. /\ \A n \in Mappings \ {m} : row'[n] = row[n]
          /\ row'[m].state = "deleted" /\ config' = config
      <3>1. row[m] \in Row /\ row' = [row EXCEPT ![m] = [row[m] EXCEPT !.state = "deleted"]]
        BY <1>0, <1>2 DEF DeleteMapping, TypeOK
      <3>2. [row[m] EXCEPT !.state = "deleted"].state = "deleted"
        BY <3>1 DEF Row
      <3> QED
        BY <1>0, <1>2, <3>1, <3>2 DEF DeleteMapping, TypeOK
    <2>2. {m} \in SUBSET Mappings /\ "remove" \in Ops /\ Call(c, "remove", {m}, "background")
      BY <1>2 DEF Ops, DeleteMapping
    <2> QED
      BY <2>1, <2>2, CallLedger
  <1>3. ASSUME NEW S \in SUBSET Mappings, NEW part \in {"options", "members"}, Change(S, part)
        PROVE  \A n \in Mappings : row'[n] = row[n] /\ (n \in S \/ config'[n] = config[n])
    BY <1>3 DEF Change
  <1>4. ASSUME NEW S \in SUBSET Mappings, NEW part \in {"options", "members"}, NEW x,
               Change(S, part), Call(c, "sync", S, x)
        PROVE  Ledger'
    BY <1>3, <1>4, CallLedger DEF Ops
  <1>5. ASSUME NEW S \in SUBSET Mappings, NEW part \in {"options", "members"}, NEW x, ChangeConfig(c, S, part, x)
        PROVE  Ledger'
    BY <1>4, <1>5 DEF ChangeConfig
  <1>6. ASSUME NEW S \in SUBSET Mappings, NEW part \in {"options", "members"}, ChangeConfigUnsynced(c, S, part)
        PROVE  Ledger'
    <2>1. \A n \in Mappings : row'[n] = row[n] /\ (n \in S \/ config'[n] = config[n])
      BY <1>3, <1>6 DEF ChangeConfigUnsynced
    <2>2. /\ missed' = missed \cup S /\ UNCHANGED <<core, statusVars, workVars, pc, op, todo>>
      BY <1>6 DEF ChangeConfigUnsynced, callVars
    <2>3. \A n \in Mappings : (Excused(n) => Excused(n)') /\ (n \in S => Excused(n)')
      BY <2>2 DEF Excused, Waiting
    <2> QED
      BY <2>1, <2>2, <2>3, WrittenOutside
  <1>7. ASSUME NEW k \in Cores, NEW S \in SUBSET Mappings, TrafficFailure(c, k, S)
        PROVE  Ledger'
    BY <1>4, <1>7 DEF TrafficFailure
  <1>8. CASE Reload(c) \/ RuntimeStop(c)
    <2>1. {} \in SUBSET Mappings /\ {"reload", "stop"} \subseteq Ops
      BY DEF Ops
    <2> QED
      BY <1>8, <2>1, CallLedger DEF Reload, RuntimeStop, dbVars
  <1> QED
    BY <1>1, <1>2, <1>5, <1>6, <1>7, <1>8 DEF Request

\* Taking the lock: what the caller waited for, it now holds.
LEMMA LockLedger ==
    ASSUME LInv, NEW c \in Callers, Lock(c)
    PROVE  Ledger'
  <1>1. /\ pc[c] = "lock" /\ pc'[c] = op[c] /\ op[c] \in Ops /\ operationMu = None
        /\ \A d \in Callers \ {c} : pc'[d] = pc[d]
        /\ UNCHANGED <<dbVars, core, statusVars, callVars, workVars, missed>>
    BY DEF Lock, Goto, LInv, IInv, TypeOK
  <1>2. \A d \in Callers : pc[d] \in Outside
    BY <1>1, NoneIsNothing DEF LInv, IInv, Mutex
  <1>3. \A m \in Mappings : Quiet(m)
    BY <1>2 DEF LInv, Ledger
  <1>4. ASSUME NEW m \in Mappings, Waiting(m)
        PROVE  Waiting(m)' \/ Held(c, m)'
    <2>1. PICK d \in Callers : pc[d] = "lock" /\ (m \in todo[d] \/ op[d] \in {"reload", "stop"})
      BY <1>4 DEF Waiting
    <2>2. CASE d = c
      BY <1>1, <2>1, <2>2 DEF Held, Outside, Ops, callVars
    <2>3. CASE d # c
      BY <1>1, <2>1, <2>3 DEF Waiting, callVars
    <2> QED
      BY <2>2, <2>3
  <1>5. ASSUME NEW m \in Mappings PROVE Entry(c, m)'
    BY <1>1, <1>3, <1>4
    DEF Quiet, Entry, Excused, Settled, Right, Serves, dbVars, statusVars
  <1>6. ASSUME NEW d \in Callers PROVE Charge(d)'
    <2>1. pc'[d] \in {"idle", "lock"} \cup Ops /\ (pc'[d] = "reload" => d = c)
      BY <1>1, <1>2 DEF Outside
    <2>2. ClosesDetached(d)' /\ SyncsCurrent(d)' /\ ReloadsCurrent(d)'
      BY <2>1 DEF ClosesDetached, SyncsCurrent, ReloadsCurrent, Syncing, Planning, Ops
    <2>3. RemovesDeleted(d)
      BY DEF LInv, Ledger, Charge
    <2>4. RemovesDeleted(d)'
      BY <1>1, <1>2, <2>3 DEF RemovesDeleted, dbVars, callVars, Outside
    <2> QED
      BY <2>2, <2>4 DEF Charge
  <1>7. pc'[c] \notin Outside
    BY <1>1 DEF Ops, Outside
  <1> QED
    BY <1>5, <1>6, <1>7 DEF Ledger

\* Every step keeps the ledger.
LEMMA LedgerStep == LInv /\ [Next]_vars => Ledger'
  <1> SUFFICES ASSUME LInv, [Next]_vars PROVE Ledger'
    OBVIOUS
  <1>1. TypeOK'
    BY TypeStep DEF LInv, IInv
  <1>2. SomeMapping \in Mappings
    BY Defaults
  <1>3. ASSUME NEW c \in Callers, UNCHANGED <<dbVars, core, statusVars, workVars, missed, pc, op, todo>>
        PROVE  Ledger'
    <2>1. \A m \in Mappings : Excused(m)' <=> Excused(m)
      BY <1>3 DEF Excused, Waiting
    <2> QED
      BY <1>3, <2>1, WrittenOutside DEF dbVars
  <1>4. CASE UNCHANGED vars
    <2>1. CASE Callers = {}
      BY <1>4, <2>1 DEF LInv, Ledger, Quiet, Excused, Waiting, Settled, Right, Serves,
                        vars, dbVars, statusVars, callVars, workVars
    <2>2. CASE Callers # {}
      BY <1>3, <1>4, <2>2 DEF vars, callVars
    <2> QED
      BY <2>1, <2>2
  <1>5. ASSUME NEW c \in Callers, Cancel(c) PROVE Ledger'
    BY <1>3, <1>5 DEF Cancel
  <1>6. ASSUME NEW c \in Callers, Work(c) \/ Error(c) PROVE Ledger'
    <2>1. ASSUME NEW m \in Mappings, SyncRemove(c, m) \/ Remove(c, m) PROVE Ledger'
      BY <1>1, <2>1, RemoveLedger
    <2>2. ASSUME NEW m \in Mappings, SyncRead(c, m) PROVE Ledger'
      BY <1>1, <2>2, ReadLedger
    <2>3. ASSUME NEW m \in Mappings, Build(c, m) \/ SyncSkip(c, m) PROVE Ledger'
      BY <2>3, BuildLedger, SkipLedger
    <2>4. ASSUME NEW S \in SUBSET Mappings, Replan(c, S) PROVE Ledger'
      BY <2>4, ReplanLedger
    <2>5. CASE SyncReturn(c) \/ ReloadError(c) \/ Publish(c)
      BY <2>5, ReturnLedger
    <2>6. CASE ReloadRead(c) \/ Stop(c)
      BY <2>6, DownLedger
    <2>7. CASE Plan(c) \/ PlanError(c) \/ Apply(c) \/ Restart(c)
      BY <1>1, <2>7, PlanLedger, PlanErrorLedger, ApplyLedger, RestartLedger
    <2>8. CASE Start(c) \/ Fail(c) \/ Close(c)
      BY <2>8, StartLedger, FailLedger, CloseLedger
    <2> QED
      BY <1>6, <2>1, <2>2, <2>3, <2>4, <2>5, <2>6, <2>7, <2>8 DEF Work, Error
  <1>7. ASSUME NEW c \in Callers, Request(c) \/ Lock(c) PROVE Ledger'
    BY <1>7, RequestLedger, LockLedger
  <1> QED
    BY <1>4, <1>5, <1>6, <1>7 DEF Next

\* The ledger is kept from the beginning.
LEMMA LedgerKept == Spec => []LInv
  <1>1. Init => LInv
    <2> SUFFICES ASSUME Init PROVE Ledger
      BY InitIInv DEF LInv
    <2>1. \A c \in Callers : Charge(c)
      BY DEF Init, Charge, ClosesDetached, SyncsCurrent, RemovesDeleted, ReloadsCurrent, Syncing, Planning
    <2>2. \A m \in Mappings : Quiet(m)
      BY DEF Init, Quiet, Settled, NoRows, NoRow, NoCores
    <2> QED
      BY <2>1, <2>2 DEF Ledger
  <1>2. LInv /\ [Next]_vars => LInv'
    BY IInvStep, LedgerStep DEF LInv
  <1> QED
    BY <1>1, <1>2, PTL DEF Spec

\* With nobody inside the manager, every mapping is at rest.
LEMMA AtRest ==
    ASSUME LInv, operationMu = None
    PROVE  \A m \in Mappings : Quiet(m)
  BY NoneIsNothing DEF LInv, IInv, Mutex, Ledger

\* Whenever nobody holds operationMu, the table holds open cores of the right
\* mappings and the published status names them, but for mappings owed a sync.
THEOREM StatusIsTrue == Spec => []StatusAgrees
  <1>1. LInv => StatusAgrees
    BY AtRest DEF StatusAgrees, Quiet, Serves
  <1> QED
    BY <1>1, LedgerKept, PTL

\* No change of rows, nodes, groups or health is lost by the order in which callers
\* get operationMu: at rest, what is served is what the database says, or a
\* failure is reported, or a caller waits that will look again.
THEOREM NoChangeLost == Spec => []UpToDate
  <1>1. LInv => UpToDate
    <2> SUFFICES ASSUME LInv, operationMu = None, NEW m \in Mappings, m \notin missed
                 PROVE  Waiting(m) \/ Settled(m)
      BY DEF UpToDate, Waiting, Settled, Right
    <2> QED
      BY AtRest DEF Quiet, Excused
  <1> QED
    BY <1>1, LedgerKept, PTL

-----------------------------------------------------------------------------
(* One core for each mapping, one listener for each port                   *)

\* The core that a sync updates listens where the row that was read says.
SamePort(c) ==
    op[c] # "reload" /\ pc[c] \in {"plan", "apply"} /\ existing[c] # None
        => core[existing[c]].port = seen[c][cur[c]].port

TwinInv == OneCoreEach /\ \A c \in Callers : SamePort(c)

\* A step that leaves the cores alone: it is enough to look at the caller that makes it.
LEMMA SamePortKept ==
    ASSUME LInv, \A c \in Callers : SamePort(c), NEW c \in Callers,
           \/ Request(c) \/ Cancel(c) \/ Lock(c)
           \/ Plan(c) \/ Restart(c) \/ Fail(c) \/ ReloadRead(c) \/ Stop(c) \/ PlanError(c)
           \/ \E m \in Mappings : SyncRemove(c, m) \/ Remove(c, m) \/ SyncSkip(c, m) \/ Build(c, m)
           \/ \E S \in SUBSET Mappings : Replan(c, S)
    PROVE  core' = core /\ \A d \in Callers : SamePort(d)'
  <1> USE DEF Goto, dbVars, statusVars, callVars, workVars
  <1>0. TypeOK /\ CallerInv(c)
    BY DEF LInv, IInv
  <1>1. ASSUME UNCHANGED <<core, cur, seen, existing>>,
               \A d \in Callers \ {c} : pc'[d] = pc[d] /\ op'[d] = op[d],
               \/ pc'[c] \notin {"plan", "apply"}
               \/ op'[c] = "reload"
               \/ existing[c] = None
               \/ op'[c] = op[c] /\ pc[c] \in {"plan", "apply"}
        PROVE  core' = core /\ \A d \in Callers : SamePort(d)'
    BY <1>1 DEF SamePort
  <1>2. CASE Request(c)
    <2>1. ASSUME NEW o, NEW S, NEW x, Call(c, o, S, x)
          PROVE  core' = core /\ \A d \in Callers : SamePort(d)'
      BY <1>0, <1>1, <2>1 DEF Call, TypeOK
    <2>2. ASSUME NEW S \in SUBSET Mappings, NEW part, ChangeConfigUnsynced(c, S, part)
          PROVE  core' = core /\ \A d \in Callers : SamePort(d)'
      BY <1>0, <1>1, <2>2 DEF ChangeConfigUnsynced
    <2> QED
      BY <1>2, <2>1, <2>2 DEF Request, WriteMapping, DeleteMapping, ChangeConfig, TrafficFailure,
                              Reload, RuntimeStop
  <1>3. CASE Cancel(c)
    BY <1>1, <1>3 DEF Cancel, SamePort
  <1>4. CASE Lock(c)
    BY <1>0, <1>1, <1>4 DEF Lock, TypeOK, Ops
  <1>5. CASE Plan(c)
    BY <1>0, <1>1, <1>5 DEF Plan, TypeOK
  <1>6. CASE Restart(c)
    <2>1. /\ existing' = [existing EXCEPT ![c] = None] /\ pc' = [pc EXCEPT ![c] = "close"]
          /\ UNCHANGED <<core, cur, seen, op>>
      BY <1>6 DEF Restart, Detach
    <2> QED
      BY <1>0, <2>1 DEF SamePort, TypeOK
  <1>7. CASE Fail(c)
    BY <1>0, <1>1, <1>7 DEF Fail, TypeOK
  <1>8. CASE ReloadRead(c)
    <2>1. /\ seen' = [seen EXCEPT ![c] = row] /\ pc' = [pc EXCEPT ![c] = "close"]
          /\ UNCHANGED <<core, cur, existing, op>>
      BY <1>8 DEF ReloadRead, ReplaceAll
    <2> QED
      BY <1>0, <2>1 DEF SamePort, TypeOK
  <1>9. CASE Stop(c)
    BY <1>0, <1>1, <1>9 DEF Stop, ReplaceAll, TypeOK
  <1>10. CASE PlanError(c)
    BY <1>0, <1>1, <1>10 DEF PlanError, TypeOK
  <1>11. ASSUME NEW m \in Mappings, SyncRemove(c, m) \/ Remove(c, m)
         PROVE  core' = core /\ \A d \in Callers : SamePort(d)'
    BY <1>0, <1>1, <1>11 DEF SyncRemove, Remove, Detach, TypeOK
  <1>12. ASSUME NEW m \in Mappings, SyncSkip(c, m)
         PROVE  core' = core /\ \A d \in Callers : SamePort(d)'
    BY <1>1, <1>12 DEF SyncSkip
  <1>13. ASSUME NEW m \in Mappings, Build(c, m)
         PROVE  core' = core /\ \A d \in Callers : SamePort(d)'
    <2>1. op[c] = "reload" /\ UNCHANGED <<core, existing, seen, op>>
      BY <1>0, <1>13 DEF Build, CallerInv, Modes
    <2>2. cur' = [cur EXCEPT ![c] = m] /\ pc' = [pc EXCEPT ![c] = "plan"]
      BY <1>13 DEF Build
    <2> QED
      BY <1>0, <2>1, <2>2 DEF SamePort, TypeOK
  <1>14. ASSUME NEW S \in SUBSET Mappings, Replan(c, S)
         PROVE  core' = core /\ \A d \in Callers : SamePort(d)'
    BY <1>0, <1>1, <1>14 DEF Replan, TypeOK
  <1> QED
    BY <1>2, <1>3, <1>4, <1>5, <1>6, <1>7, <1>8, <1>9, <1>10, <1>11, <1>12, <1>13, <1>14

\* A sync that finds a core takes it for an update only if the port is the same.
LEMMA SamePortRead ==
    ASSUME LInv, \A c \in Callers : SamePort(c), NEW c \in Callers, NEW m \in Mappings, SyncRead(c, m)
    PROVE  core' = core /\ \A d \in Callers : SamePort(d)'
  <1> USE DEF Goto
  <1>0. TypeOK
    BY DEF LInv, IInv
  <1>1. /\ core' = core /\ op' = op
        /\ cur' = [cur EXCEPT ![c] = m] /\ seen' = [seen EXCEPT ![c][m] = row[m]]
    BY DEF SyncRead
  <1>2. \/ /\ existing' = [existing EXCEPT ![c] = instances[m]]
           /\ core[instances[m]].port = row[m].port
           /\ pc' = [pc EXCEPT ![c] = "plan"]
        \/ /\ existing' = [existing EXCEPT ![c] = None]
           /\ pc' = [pc EXCEPT ![c] = "close"]
    BY DEF SyncRead, Detach
  <1>3. \A d \in Callers \ {c} : SamePort(d)'
    BY <1>0, <1>1, <1>2 DEF SamePort, TypeOK
  <1>4. cur'[c] = m /\ seen'[c][m] = row[m]
    BY <1>0, <1>1 DEF TypeOK
  <1>5. SamePort(c)'
    BY <1>0, <1>1, <1>2, <1>4 DEF SamePort, TypeOK
  <1> QED
    BY <1>1, <1>3, <1>5

\* Returning, the caller forgets the core.
LEMMA SamePortReturn ==
    ASSUME LInv, \A c \in Callers : SamePort(c), NEW c \in Callers,
           SyncReturn(c) \/ ReloadError(c) \/ Publish(c)
    PROVE  core' = core /\ \A d \in Callers : SamePort(d)'
  <1>0. TypeOK
    BY DEF LInv, IInv
  <1>1. core' = core /\ Return(c)
    BY DEF SyncReturn, ReloadError, Publish
  <1>2. /\ pc' = [pc EXCEPT ![c] = "idle"]
        /\ op' = [op EXCEPT ![c] = "sync"]
        /\ cur' = [cur EXCEPT ![c] = SomeMapping]
        /\ seen' = [seen EXCEPT ![c] = NoRows]
        /\ existing' = [existing EXCEPT ![c] = None]
    BY <1>1 DEF Return, Goto
  <1> QED
    BY <1>0, <1>1, <1>2 DEF SamePort, TypeOK

\* The caller inside is the only one with a core to update.
LEMMA SamePortAlone ==
    ASSUME LInv, NEW c \in Callers, pc[c] \notin Outside,
           \A d \in Callers \ {c} : pc'[d] = pc[d]
    PROVE  \A d \in Callers \ {c} : SamePort(d)'
  BY Inside DEF SamePort, Outside

\* Closing cores makes room.
LEMMA TwinClose ==
    ASSUME LInv, TwinInv, NEW c \in Callers, Close(c)
    PROVE  TwinInv'
  <1>0. TypeOK /\ CallerInv(c)
    BY DEF LInv, IInv
  <1>1. /\ pc[c] = "close" /\ pc' = [pc EXCEPT ![c] = after[c]]
        /\ core' = [k \in Cores |-> IF k \in victims[c] THEN Closed ELSE core[k]]
        /\ UNCHANGED <<op, cur, seen, existing>>
    BY DEF Close, Goto
  <1>2. \A k \in Cores : core'[k].open => core'[k] = core[k] /\ core[k].open
    BY <1>1 DEF Closed
  <1>3. OneCoreEach'
    BY <1>2 DEF TwinInv, OneCoreEach, OpenCores
  <1>4. \A d \in Callers \ {c} : SamePort(d)'
    BY <1>0, <1>1, SamePortAlone DEF Outside, TypeOK
  <1>5. SamePort(c)'
    <2> SUFFICES ASSUME op[c] # "reload", pc'[c] \in {"plan", "apply"} PROVE existing[c] = None
      BY <1>1 DEF SamePort
    <2>1. after[c] = "plan"
      BY <1>0, <1>1 DEF TypeOK, CallerInv, Modes
    <2> QED
      BY <1>0, <1>1, <2>1 DEF CallerInv, SyncState
  <1> QED
    BY <1>3, <1>4, <1>5 DEF TwinInv

\* A core updated in place is the mapping's own and keeps its port.
LEMMA TwinApply ==
    ASSUME LInv, TwinInv, NEW c \in Callers, Apply(c)
    PROVE  TwinInv'
  <1>1. pc[c] = "apply" /\ pc[c] \notin Outside /\ existing[c] # None
    BY DEF Apply, Outside
  <1>2. /\ \A n \in Mappings : Entry(c, n)
        /\ TypeOK /\ CallerInv(c)
    BY <1>1, Inside
  <1>3. op[c] # "reload" /\ instances[cur[c]] = existing[c] /\ cur[c] \in Mappings /\ existing[c] \in Cores
    BY <1>1, <1>2 DEF CallerInv, SyncState, ReloadState, TypeOK
  <1>4. Serves(existing[c], cur[c])
    BY <1>1, <1>2, <1>3 DEF Entry
  <1>5. /\ pc' = [pc EXCEPT ![c] = "sync"]
        /\ core' = [core EXCEPT ![existing[c]] = Built(c)]
    BY DEF Apply, Goto
  <1>6. /\ core'[existing[c]].mapping = core[existing[c]].mapping
        /\ core'[existing[c]].port = core[existing[c]].port
    <2>1. core'[existing[c]] = Built(c)
      BY <1>2, <1>3, <1>5 DEF TypeOK
    <2>2. Built(c).mapping = cur[c] /\ Built(c).port = seen[c][cur[c]].port
      BY DEF Built
    <2>3. core[existing[c]].port = seen[c][cur[c]].port
      BY <1>1, <1>3 DEF TwinInv, SamePort
    <2> QED
      BY <1>4, <2>1, <2>2, <2>3 DEF Serves
  <1>7. \A k \in Cores \ {existing[c]} : core'[k] = core[k]
    BY <1>2, <1>5 DEF TypeOK
  <1>8. OneCoreEach'
    BY <1>3, <1>4, <1>6, <1>7 DEF TwinInv, OneCoreEach, OpenCores, Serves
  <1>9. \A d \in Callers : SamePort(d)'
    BY <1>1, <1>2, <1>5, SamePortAlone DEF SamePort, TypeOK
  <1> QED
    BY <1>8, <1>9 DEF TwinInv

\* A core is started for a mapping that has none, on a port that nobody has.
LEMMA TwinStart ==
    ASSUME LInv, TwinInv, NEW c \in Callers, Start(c)
    PROVE  TwinInv'
  <1>1. pc[c] = "apply" /\ pc[c] \notin Outside /\ existing[c] = None
    BY DEF Start, Outside
  <1>2. /\ \A n \in Mappings : Entry(c, n)
        /\ Charge(c) /\ TypeOK /\ CallerInv(c) /\ cur[c] \in Mappings
    BY <1>1, Inside DEF TypeOK
  <1>3. PICK k \in Cores : core' = [core EXCEPT ![k] = Built(c)] /\ pc'[c] \in {"build", "sync"}
    BY <1>2 DEF Start, Goto, TypeOK
  <1>4. \A j \in Cores : core[j].open => core[j].port # seen[c][cur[c]].port
    BY DEF Start, Bound
  <1>5. \A j \in Cores : core[j].open => core[j].mapping # cur[c]
    <2>1. Covered(c)
      BY <1>1, Alone DEF LInv
    <2>2. victims[c] = {}
      BY <1>1, <1>2 DEF CallerInv, Hands
    <2>3. CASE op[c] # "reload"
      <3>1. staged[c] = NoCores /\ instances[cur[c]] = None
        BY <1>1, <1>2, <2>3 DEF CallerInv, Hands, SyncState
      <3>2. ASSUME NEW j \in Cores, core[j].open PROVE \E m \in Mappings : instances[m] = j
        BY <2>1, <2>2, <3>1, <3>2, NoneIsNothing DEF Covered, NoCores
      <3>3. \A m \in Mappings : instances[m] # None => Serves(instances[m], m)
        BY <1>1, <1>2 DEF Entry
      <3> QED
        BY <3>1, <3>2, <3>3, NoneIsNothing DEF Serves
    <2>4. CASE op[c] = "reload"
      <3>1. instances = NoCores /\ staged[c][cur[c]] = None
        BY <1>1, <1>2, <2>4 DEF CallerInv, ReloadState
      <3>2. ASSUME NEW j \in Cores, core[j].open PROVE \E m \in Mappings : staged[c][m] = j
        BY <2>1, <2>2, <3>1, <3>2, NoneIsNothing DEF Covered, NoCores
      <3>3. \A m \in Mappings : staged[c][m] # None => Serves(staged[c][m], m)
        BY <1>1, <1>2, <2>4 DEF Charge, ReloadsCurrent, Planning
      <3> QED
        BY <3>1, <3>2, <3>3, NoneIsNothing DEF Serves
    <2> QED
      BY <2>3, <2>4
  <1>6. /\ core'[k].mapping = cur[c] /\ core'[k].port = seen[c][cur[c]].port
        /\ \A j \in Cores \ {k} : core'[j] = core[j]
    BY <1>2, <1>3 DEF Built, TypeOK
  <1>7. OneCoreEach'
    BY <1>4, <1>5, <1>6 DEF TwinInv, OneCoreEach, OpenCores
  <1>8. \A d \in Callers \ {c} : pc'[d] = pc[d]
    BY <1>2 DEF Start, Goto, TypeOK
  <1>9. \A d \in Callers : SamePort(d)'
    BY <1>1, <1>3, <1>8, SamePortAlone DEF SamePort
  <1> QED
    BY <1>7, <1>9 DEF TwinInv

LEMMA TwinStep == LInv /\ TwinInv /\ [Next]_vars => TwinInv'
  <1> SUFFICES ASSUME LInv, TwinInv, [Next]_vars PROVE TwinInv'
    OBVIOUS
  <1>1. ASSUME core' = core, \A c \in Callers : SamePort(c)' PROVE TwinInv'
    BY <1>1 DEF TwinInv, OneCoreEach, OpenCores
  <1>2. CASE UNCHANGED vars
    BY <1>1, <1>2 DEF vars, dbVars, statusVars, callVars, workVars, TwinInv, SamePort
  <1>3. ASSUME NEW c \in Callers, Close(c) \/ Apply(c) \/ Start(c) PROVE TwinInv'
    BY <1>3, TwinClose, TwinApply, TwinStart
  <1>4. ASSUME NEW c \in Callers, Request(c) \/ Cancel(c) \/ Lock(c) PROVE TwinInv'
    BY <1>1, <1>4, SamePortKept DEF TwinInv
  <1>5. ASSUME NEW c \in Callers, Work(c) \/ Error(c), ~(Close(c) \/ Apply(c) \/ Start(c)) PROVE TwinInv'
    <2>1. CASE SyncReturn(c) \/ ReloadError(c) \/ Publish(c)
      BY <1>1, <2>1, SamePortReturn DEF TwinInv
    <2>2. ASSUME NEW m \in Mappings, SyncRead(c, m) PROVE TwinInv'
      BY <1>1, <2>2, SamePortRead DEF TwinInv
    <2>3. CASE \/ Plan(c) \/ Restart(c) \/ Fail(c) \/ ReloadRead(c) \/ Stop(c) \/ PlanError(c)
               \/ \E m \in Mappings : SyncRemove(c, m) \/ Remove(c, m) \/ SyncSkip(c, m) \/ Build(c, m)
               \/ \E S \in SUBSET Mappings : Replan(c, S)
      BY <1>1, <2>3, SamePortKept DEF TwinInv
    <2> QED
      BY <1>5, <2>1, <2>2, <2>3 DEF Work, Error
  <1> QED
    BY <1>2, <1>3, <1>4, <1>5 DEF Next

\* At every step of every call, no mapping is served by two cores and no port is
\* bound by two.
THEOREM ServedOnce == Spec => []OneCoreEach
  <1>1. Init => TwinInv
    BY DEF Init, TwinInv, OneCoreEach, OpenCores, SamePort, Closed
  <1>2. TwinInv => OneCoreEach
    BY DEF TwinInv
  <1> QED
    BY <1>1, <1>2, TwinStep, LedgerKept, PTL DEF Spec
=============================================================================
