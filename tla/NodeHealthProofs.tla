--------------------------- MODULE NodeHealthProofs ---------------------------
(***************************************************************************)
(* Proofs about health records and the syncs they cause, for any nodes,    *)
(* actors, thresholds and durations.                                       *)
(***************************************************************************)
EXTENDS NodeHealth, TLAPS

Records == [count : Nat, listed : BOOLEAN, until : Nat]

\* What a result makes of a record: a node is blacklisted by it only at the threshold
\* or beyond, or because it was before.
LEMMA AppliedFacts ==
  ASSUME NEW r \in Records, NEW ok \in BOOLEAN, NEW since \in Nat
  PROVE  LET x == Applied(r, ok, since)
         IN  /\ x \in Records
             /\ x.count >= Threshold => x.listed
             /\ x.listed => ~ok
             /\ x.listed /\ x.count < Threshold => r.listed /\ x.until = r.until /\ x.count = r.count + 1
<1>0. Threshold \in Nat \ {0} /\ Duration \in Nat
  BY NumbersPositive
<1>1. CASE ok
  BY <1>0, <1>1 DEF Applied, Clean, Records
<1>2. CASE ~ok /\ r.count + 1 >= Threshold
  BY <1>0, <1>2 DEF Applied, Clean, Records
<1>3. CASE ~ok /\ ~(r.count + 1 >= Threshold) /\ r.listed /\ r.until > since
  <2>1. Applied(r, ok, since) = [r EXCEPT !.count = @ + 1]
    BY <1>3 DEF Applied
  <2> QED
    BY <1>0, <1>3, <2>1 DEF Records
<1>4. CASE ~ok /\ ~(r.count + 1 >= Threshold) /\ ~(r.listed /\ r.until > since)
  <2>1. Applied(r, ok, since) = [count |-> r.count + 1, listed |-> FALSE, until |-> 0]
    BY <1>4 DEF Applied, Clean
  <2> QED
    BY <1>0, <1>4, <2>1 DEF Records
<1> QED
  BY <1>1, <1>2, <1>3, <1>4

\* Facts about the constant records.
LEMMA Constants ==
  /\ Clean \in Records /\ Clean.count = 0 /\ ~Clean.listed
  /\ AtRest.at = "idle"
  /\ NoSync.at = "none" /\ NoSync.by = None
  /\ Threshold \in Nat \ {0} /\ Duration \in Nat \ {0}
  BY NumbersPositive DEF Clean, AtRest, NoSync, Records

\* Time only ends blacklistings.
LEMMA TickStep == IInv /\ Tick => IInv'
<1> SUFFICES ASSUME IInv, Tick PROVE IInv'
  OBVIOUS
<1>1. now \in Nat /\ now' = now + 1 /\ UNCHANGED <<record, actor, sync, served, missed, released>>
  BY DEF Tick, IInv, TypeOK
<1>2. TypeOK' /\ SyncInv' /\ CountInv'
  BY <1>1 DEF IInv, TypeOK, SyncInv, CountInv
<1>3. \A n \in Nodes : Blacklisted(n)' => Blacklisted(n)
  BY <1>1 DEF Blacklisted, IInv, TypeOK
<1>4. BlacklistInv' /\ ReleaseInv'
  BY <1>1, <1>3 DEF IInv, BlacklistInv, ReleaseInv, OwedOut, OwedIn, Pending, Planned
<1> QED
  BY <1>2, <1>4 DEF IInv

\* A result is recorded: whoever brings a node to the threshold will sync for it.
LEMMA RecordStep == ASSUME IInv, NEW a \in Actors, NEW ok \in BOOLEAN, Record(a, ok) PROVE IInv'
<1> DEFINE n == actor[a].node
           r == Applied(record[n], ok, actor[a].since)
<1>1. /\ actor[a].at = "probing" /\ n \in Nodes
      /\ record[n] \in Records /\ actor[a].since \in Nat
  BY DEF Record, IInv, SyncInv, TypeOK, Records
<1>2. /\ record' = [record EXCEPT ![n] = r]
      /\ actor' = [actor EXCEPT ![a] = Then(a, r)]
      /\ released' = IF ok THEN released ELSE released \ {n}
      /\ UNCHANGED <<now, sync, served, missed>>
  BY DEF Record, running
<1>3. /\ r \in Records
      /\ r.count >= Threshold => r.listed
      /\ r.listed => ~ok
      /\ r.listed /\ r.count < Threshold =>
           record[n].listed /\ r.until = record[n].until /\ r.count = record[n].count + 1
  BY <1>1, AppliedFacts
<1> HIDE DEF r
<1>4. /\ record'[n] = r
      /\ \A m \in Nodes : m # n => record'[m] = record[m]
      /\ actor'[a] = Then(a, r)
      /\ \A b \in Actors : b # a => actor'[b] = actor[b]
  BY <1>1, <1>2 DEF IInv, TypeOK
<1>5. /\ r.listed /\ r.count = Threshold => actor'[a].at = "waiting" /\ actor'[a].node = n
      /\ actor'[a].at \in {"idle", "waiting"}
  BY <1>4, Constants DEF Then, ShouldSync, IInv, TypeOK
<1>6. TypeOK'
  <2>1. record' \in [Nodes -> Records]
    BY <1>1, <1>2, <1>3 DEF IInv, TypeOK, Records
  <2>2. Then(a, r) \in [at : {"idle", "probing", "waiting", "syncing"},
                        node : Nodes \cup {None}, since : Nat]
    BY DEF Then, AtRest, IInv, TypeOK
  <2> QED
    BY <1>2, <2>1, <2>2 DEF IInv, TypeOK, Records
<1>7. SyncInv'
  BY <1>1, <1>2, <1>4, <1>5 DEF IInv, SyncInv, TypeOK
<1>8. CountInv'
  BY <1>1, <1>3, <1>4 DEF IInv, CountInv
<1>9. \A m \in Nodes : Pending(m) => Pending(m)'
  BY <1>1, <1>4 DEF Pending
<1>10. BlacklistInv'
  <2> SUFFICES ASSUME NEW m \in Nodes, Blacklisted(m)'
               PROVE  \/ OwedOut(m)'
                      \/ Blacklisted(m) /\ (OwedOut(m) => OwedOut(m)')
    BY <1>2 DEF IInv, BlacklistInv, Planned
  <2>1. CASE m # n
    BY <1>2, <1>4, <1>9, <2>1 DEF Blacklisted, OwedOut
  <2>2. CASE m = n
    <3>1. r.listed /\ r.until > now
      BY <1>2, <1>4, <2>2 DEF Blacklisted
    <3>2. CASE r.count = Threshold
      BY <1>5, <2>2, <3>1, <3>2 DEF OwedOut, Pending
    <3>3. CASE r.count > Threshold
      BY <1>4, <2>2, <3>3 DEF OwedOut
    <3>4. CASE r.count < Threshold
      BY <1>1, <1>2, <1>3, <1>4, <1>9, <2>2, <3>1, <3>4, Constants DEF Blacklisted, OwedOut, Records
    <3> QED
      BY <1>3, <3>2, <3>3, <3>4, Constants DEF Records
  <2> QED
    BY <2>1, <2>2
<1>11. ReleaseInv'
  <2> SUFFICES ASSUME NEW m \in released'
               PROVE  m \in released /\ ~record'[m].listed /\ (OwedIn(m) => OwedIn(m)')
    BY <1>2 DEF IInv, ReleaseInv, Planned
  <2>1. m \in released /\ m \in Nodes /\ (m = n => ok)
    BY <1>2 DEF IInv, TypeOK
  <2>2. ~record'[m].listed
    BY <1>3, <1>4, <2>1 DEF IInv, ReleaseInv
  <2> QED
    BY <1>2, <1>9, <2>1, <2>2 DEF OwedIn
<1> QED
  BY <1>6, <1>7, <1>8, <1>10, <1>11 DEF IInv

\* An actor that begins, drops or repeats a result, asks for a sync, gives one up or
\* takes the mutex leaves the records alone.
LEMMA ActorStep ==
  ASSUME IInv, NEW a \in Actors,
         \/ \E n \in Nodes, force \in BOOLEAN : BeginProbe(a, n, force)
         \/ RecordDuplicate(a) \/ Drop(a) \/ RequestSync(a) \/ GiveUp(a) \/ Lock(a)
  PROVE  IInv'
<1>1. UNCHANGED <<now, record, served, released>>
  BY DEF BeginProbe, RecordDuplicate, Drop, RequestSync, GiveUp, Lock, running
<1>2. CASE Lock(a)
  <2>1. /\ actor[a].at = "waiting" /\ sync.at = "none" /\ UNCHANGED missed
        /\ sync' = [NoSync EXCEPT !.at = "read", !.by = a]
        /\ actor' = [actor EXCEPT ![a] = [AtRest EXCEPT !.at = "syncing"]]
    BY <1>2 DEF Lock
  <2>2. /\ sync'.at = "read" /\ sync'.by = a /\ sync'.plan = {} /\ sync'.excluded = {}
        /\ actor'[a].at = "syncing"
        /\ \A b \in Actors : b # a => actor'[b] = actor[b]
    BY <2>1 DEF NoSync, AtRest, IInv, TypeOK
  <2>3. TypeOK'
    BY <1>1, <2>1 DEF IInv, TypeOK, NoSync, AtRest, Planning
  <2>4. SyncInv' /\ CountInv'
    BY <1>1, <2>1, <2>2, NoneIsNobody DEF IInv, SyncInv, CountInv, TypeOK
  <2>5. BlacklistInv' /\ ReleaseInv'
    BY <1>1, <2>2 DEF IInv, BlacklistInv, ReleaseInv, Planned
  <2> QED
    BY <2>3, <2>4, <2>5 DEF IInv
<1>3. CASE GiveUp(a)
  <2>1. /\ missed' /\ missed' \in BOOLEAN /\ UNCHANGED sync
        /\ actor[a].at = "waiting" /\ actor' = [actor EXCEPT ![a] = AtRest]
    BY <1>3 DEF GiveUp
  <2>2. TypeOK'
    BY <1>1, <2>1 DEF IInv, TypeOK, AtRest
  <2>3. SyncInv' /\ CountInv'
    BY <1>1, <2>1, Constants DEF IInv, SyncInv, CountInv, TypeOK
  <2>4. BlacklistInv' /\ ReleaseInv'
    BY <1>1, <2>1 DEF IInv, BlacklistInv, ReleaseInv, OwedOut, OwedIn
  <2> QED
    BY <2>2, <2>3, <2>4 DEF IInv
<1>4. CASE ~Lock(a) /\ ~GiveUp(a)
  <2> DEFINE Moved ==
               /\ UNCHANGED <<sync, missed>>
               /\ actor[a].at \in {"idle", "probing"}
               /\ \E x \in [at : {"idle", "probing", "waiting"}, node : Nodes \cup {None}, since : Nat] :
                    /\ x.at = "probing" => x.node \in Nodes
                    /\ actor' = [actor EXCEPT ![a] = x]
  <2>1. Moved
    <3>1. ASSUME NEW n \in Nodes, NEW force \in BOOLEAN, BeginProbe(a, n, force) PROVE Moved
      <4> DEFINE x == [at |-> "probing", node |-> n, since |-> now]
      <4>1. x \in [at : {"idle", "probing", "waiting"}, node : Nodes \cup {None}, since : Nat]
        BY DEF IInv, TypeOK
      <4> QED
        BY <3>1, <4>1 DEF BeginProbe, running
    <3>2. CASE Drop(a)
      <4>1. AtRest \in [at : {"idle", "probing", "waiting"}, node : Nodes \cup {None}, since : Nat]
        BY DEF AtRest
      <4> QED
        BY <3>2, <4>1, Constants DEF Drop, running
    <3>3. CASE RequestSync(a)
      <4>1. Waiting(None) \in [at : {"idle", "probing", "waiting"}, node : Nodes \cup {None}, since : Nat]
            /\ Waiting(None).at = "waiting"
        BY DEF Waiting
      <4> QED
        BY <3>3, <4>1 DEF RequestSync, running
    <3>4. CASE RecordDuplicate(a)
      <4> DEFINE x == Then(a, record[actor[a].node])
      <4>1. /\ x \in [at : {"idle", "probing", "waiting"}, node : Nodes \cup {None}, since : Nat]
            /\ x.at # "probing"
        BY DEF Then, AtRest, IInv, TypeOK
      <4> QED
        BY <3>4, <4>1 DEF RecordDuplicate, running
    <3> QED
      BY <1>4, <3>1, <3>2, <3>3, <3>4
  <2>2. \A n \in Nodes : Pending(n) => Pending(n)'
    BY <2>1 DEF Pending, IInv, TypeOK
  <2>3. TypeOK' /\ SyncInv' /\ CountInv'
    BY <1>1, <2>1 DEF IInv, TypeOK, SyncInv, CountInv
  <2>4. BlacklistInv'
    BY <1>1, <2>1, <2>2 DEF IInv, BlacklistInv, OwedOut, Blacklisted, Planned
  <2>5. ReleaseInv'
    BY <1>1, <2>1, <2>2 DEF IInv, TypeOK, ReleaseInv, OwedIn, Planned
  <2> QED
    BY <2>3, <2>4, <2>5 DEF IInv
<1> QED
  BY <1>2, <1>3, <1>4

\* Releases and blacklistings by hand: the node gets a record of its own and a sync.
LEMMA RequestStep ==
  ASSUME IInv, NEW a \in Actors, NEW n \in Nodes,
         NodeRelease(a, n) \/ \E duration \in Durations : NodeBlacklist(a, n, duration)
  PROVE  IInv'
<1>1. PICK r \in Records :
        /\ r.count = 0
        /\ record' = [record EXCEPT ![n] = r]
        /\ r.listed => released' = released \ {n}
        /\ ~r.listed => released' = released \cup {n}
  <2>1. CASE NodeRelease(a, n)
    BY <2>1, Constants DEF NodeRelease
  <2>2. ASSUME NEW duration \in Durations, NodeBlacklist(a, n, duration)
        PROVE  /\ [count |-> 0, listed |-> TRUE, until |-> now + duration] \in Records
               /\ record' = [record EXCEPT ![n] = [count |-> 0, listed |-> TRUE, until |-> now + duration]]
               /\ released' = released \ {n}
    BY <2>2, DurationsPositive DEF NodeBlacklist, Records, IInv, TypeOK
  <2> QED
    BY <2>1, <2>2
<1>2. /\ actor[a].at = "idle"
      /\ actor' = [actor EXCEPT ![a] = Waiting(n)]
      /\ UNCHANGED <<now, sync, served, missed>>
  BY DEF NodeRelease, NodeBlacklist, AfterRelease, running
<1>3. /\ record'[n] = r
      /\ \A m \in Nodes : m # n => record'[m] = record[m]
      /\ actor'[a].at = "waiting" /\ actor'[a].node = n
      /\ \A b \in Actors : b # a => actor'[b] = actor[b]
  BY <1>1, <1>2 DEF Waiting, IInv, TypeOK
<1>4. \A m \in Nodes : Pending(m) \/ m = n => Pending(m)'
  BY <1>2, <1>3 DEF Pending
<1>5. TypeOK'
  <2>1. record' \in [Nodes -> Records]
    BY <1>1 DEF IInv, TypeOK, Records
  <2>2. Waiting(n) \in [at : {"idle", "probing", "waiting", "syncing"},
                        node : Nodes \cup {None}, since : Nat]
    BY DEF Waiting
  <2>3. released' \subseteq Nodes
    BY <1>1 DEF IInv, TypeOK, Records
  <2> QED
    BY <1>2, <2>1, <2>2, <2>3 DEF IInv, TypeOK, Records
<1>6. SyncInv'
  BY <1>2, <1>3 DEF IInv, SyncInv, TypeOK
<1>7. CountInv'
  BY <1>1, <1>3, Constants DEF IInv, CountInv
<1>8. BlacklistInv'
  <2> SUFFICES ASSUME NEW m \in Nodes, Blacklisted(m)'
               PROVE  OwedOut(m)' \/ (Blacklisted(m) /\ (OwedOut(m) => OwedOut(m)'))
    BY <1>2 DEF IInv, BlacklistInv, Planned
  <2> QED
    BY <1>2, <1>3, <1>4 DEF Blacklisted, OwedOut
<1>9. ReleaseInv'
  <2> SUFFICES ASSUME NEW m \in released'
               PROVE  ~record'[m].listed /\ (OwedIn(m)' \/ (m \in released /\ (OwedIn(m) => OwedIn(m)')))
    BY <1>2 DEF IInv, ReleaseInv, Planned
  <2>1. m \in Nodes
    BY <1>5 DEF TypeOK
  <2>2. CASE m = n
    BY <1>1, <1>3, <1>4, <2>1, <2>2 DEF OwedIn, Records
  <2>3. CASE m # n
    BY <1>1, <1>2, <1>3, <1>4, <2>1, <2>3 DEF OwedIn, IInv, ReleaseInv, Records
  <2> QED
    BY <2>2, <2>3
<1> QED
  BY <1>5, <1>6, <1>7, <1>8, <1>9 DEF IInv

\* Clearing records never blacklists anybody.
LEMMA Cleared ==
  ASSUME IInv, NEW N \in SUBSET Nodes,
         record' = [n \in Nodes |-> IF n \in N THEN Clean ELSE record[n]], now' = now
  PROVE  /\ record' \in [Nodes -> Records]
         /\ CountInv'
         /\ \A n \in Nodes : Blacklisted(n)' => Blacklisted(n) /\ record'[n] = record[n] /\ n \notin N
         /\ \A n \in Nodes : ~record[n].listed => ~record'[n].listed
  BY Constants DEF IInv, TypeOK, CountInv, Blacklisted, Records

\* The running group has revived members by itself.
LEMMA CoreReviveStep == ASSUME IInv, NEW N \in SUBSET Nodes, CoreRevive(N) PROVE IInv'
<1>1. UNCHANGED <<now, sync, served, missed, actor, released>>
  BY DEF CoreRevive, running
<1>2. /\ record' \in [Nodes -> Records]
      /\ CountInv'
      /\ \A n \in Nodes : Blacklisted(n)' => Blacklisted(n) /\ record'[n] = record[n]
      /\ \A n \in Nodes : ~record[n].listed => ~record'[n].listed
  BY <1>1, Cleared DEF CoreRevive
<1>3. TypeOK' /\ SyncInv'
  BY <1>1, <1>2 DEF IInv, TypeOK, SyncInv, Records
<1>4. BlacklistInv'
  BY <1>1, <1>2 DEF IInv, BlacklistInv, OwedOut, Pending, Planned
<1>5. ReleaseInv'
  BY <1>1, <1>2 DEF IInv, TypeOK, ReleaseInv, OwedIn, Pending, Planned
<1> QED
  BY <1>2, <1>3, <1>4, <1>5 DEF IInv

\* The end of a sync gives the mutex back.
LEMMA Unlocked ==
  ASSUME IInv, sync.at \in Planning, Unlock
  PROVE  /\ SyncInv'
         /\ sync'.excluded = {}
         /\ sync'.at = "none" /\ sync' \in [at : Planning \cup {"none"}, by : Actors \cup {None},
                                            plan : SUBSET Nodes, excluded : SUBSET Nodes]
         /\ actor' \in [Actors -> [at : {"idle", "probing", "waiting", "syncing"},
                                   node : Nodes \cup {None}, since : Nat]]
         /\ \A n \in Nodes : Pending(n) => Pending(n)'
<1>1. sync.by \in Actors /\ actor[sync.by].at = "syncing"
  BY DEF IInv, SyncInv, Planning, TypeOK
<1>2. actor' = [actor EXCEPT ![sync.by] = AtRest] /\ sync' = NoSync
  BY DEF Unlock
<1>3. \A b \in Actors : actor'[b] = IF b = sync.by THEN AtRest ELSE actor[b]
  BY <1>2 DEF IInv, TypeOK
<1>4. SyncInv'
  BY <1>1, <1>2, <1>3, Constants, NoneIsNobody DEF IInv, SyncInv, TypeOK
<1>5. \A n \in Nodes : Pending(n) => Pending(n)'
  BY <1>1, <1>3 DEF Pending
<1> QED
  BY <1>1, <1>2, <1>4, <1>5 DEF IInv, TypeOK, NoSync, AtRest

\* Every step of a sync.
LEMMA SyncStep == IInv /\ Sync => IInv'
<1> SUFFICES ASSUME IInv, Sync PROVE IInv'
  OBVIOUS
<1>1. CASE ReadBlacklist
  <2> DEFINE plan == {n \in Nodes : ~Blacklisted(n)} \ sync.excluded
  <2>1. /\ sync.at = "read" /\ UNCHANGED <<now, record, actor, served, released>>
        /\ sync' = [sync EXCEPT !.plan = plan,
                                !.at = IF plan = {} /\ sync.excluded = {} THEN "revive" ELSE "apply"]
        /\ missed' = (missed /\ sync.excluded # {})
    BY <1>1 DEF ReadBlacklist
  <2>2. /\ sync'.at \in {"revive", "apply"} /\ sync'.plan = plan
        /\ sync'.by = sync.by /\ sync'.excluded = sync.excluded
    BY <2>1 DEF IInv, TypeOK
  <2>3. TypeOK'
    BY <2>1 DEF IInv, TypeOK, Planning
  <2>4. SyncInv' /\ CountInv'
    BY <2>1, <2>2 DEF IInv, SyncInv, CountInv
  <2>5. BlacklistInv'
    BY <2>1, <2>2 DEF BlacklistInv, Blacklisted, Planned
  <2>6. ReleaseInv'
    <3> SUFFICES ASSUME NEW n \in released PROVE ~record[n].listed /\ (n \in plan \/ OwedIn(n)')
      BY <2>1, <2>2 DEF ReleaseInv, Planned
    <3>1. n \in Nodes /\ ~record[n].listed
      BY DEF IInv, ReleaseInv, TypeOK
    <3>2. CASE n \in sync.excluded
      BY <2>1, <3>2 DEF IInv, ReleaseInv, OwedIn, Pending
    <3>3. CASE n \notin sync.excluded
      BY <3>1, <3>3 DEF Blacklisted
    <3> QED
      BY <3>1, <3>2, <3>3
  <2> QED
    BY <2>3, <2>4, <2>5, <2>6 DEF IInv
<1>2. ASSUME NEW R \in SUBSET Nodes, Revive(R) PROVE IInv'
  <2>1. /\ sync.at = "revive" /\ UNCHANGED <<now, actor, served, missed, released>>
        /\ sync' = [sync EXCEPT !.plan = R, !.at = "apply"]
    BY <1>2 DEF Revive
  <2>2. /\ record' \in [Nodes -> Records]
        /\ CountInv'
        /\ \A n \in Nodes : Blacklisted(n)' => Blacklisted(n) /\ record'[n] = record[n] /\ n \notin R
        /\ \A n \in Nodes : ~record[n].listed => ~record'[n].listed
    BY <1>2, <2>1, Cleared DEF Revive
  <2>3. sync'.at = "apply" /\ sync'.plan = R /\ sync'.by = sync.by /\ sync'.excluded = sync.excluded
    BY <2>1 DEF IInv, TypeOK
  <2>4. TypeOK' /\ SyncInv'
    BY <2>1, <2>2, <2>3 DEF IInv, TypeOK, SyncInv, Planning, Records
  <2>5. BlacklistInv'
    BY <2>1, <2>2, <2>3 DEF BlacklistInv, Planned
  <2>6. ReleaseInv'
    <3> SUFFICES ASSUME NEW n \in released PROVE ~record'[n].listed /\ OwedIn(n)'
      BY <2>1, <2>3 DEF ReleaseInv, Planned
    <3>2. ~record'[n].listed
      BY <2>2 DEF IInv, ReleaseInv, TypeOK
    <3>3. sync.plan = {}
      BY <2>1 DEF IInv, SyncInv
    <3> QED
      BY <2>1, <3>2, <3>3 DEF IInv, ReleaseInv, OwedIn, Pending, Planned
  <2> QED
    BY <2>2, <2>4, <2>5, <2>6 DEF IInv
<1>3. ASSUME NEW n \in Nodes, Exclude(n) PROVE IInv'
  <2> DEFINE r == [count |-> 0, listed |-> TRUE, until |-> now + Duration]
  <2>1. /\ sync.at = "apply" /\ n \in sync.plan /\ UNCHANGED <<now, actor, served, missed>>
        /\ record' = [record EXCEPT ![n] = r]
        /\ sync' = [sync EXCEPT !.at = "read", !.plan = {}, !.excluded = @ \cup {n}]
        /\ released' = released \ {n}
    BY <1>3 DEF Exclude
  <2>2. r \in Records /\ r.count = 0
    BY Constants DEF Records, IInv, TypeOK
  <2>3. record'[n] = r /\ \A m \in Nodes : m # n => record'[m] = record[m]
    BY <2>1 DEF IInv, TypeOK
  <2>4. sync'.at = "read" /\ sync'.by = sync.by /\ sync'.excluded = sync.excluded \cup {n}
    BY <2>1 DEF IInv, TypeOK
  <2>5. TypeOK'
    BY <2>1, <2>2 DEF IInv, TypeOK, Planning, Records
  <2>6. SyncInv' /\ CountInv'
    BY <2>1, <2>2, <2>3, <2>4, Constants DEF IInv, SyncInv, CountInv
  <2>7. BlacklistInv'
    BY <2>4 DEF BlacklistInv, Planned
  <2>8. ReleaseInv'
    BY <2>1, <2>3, <2>4 DEF IInv, TypeOK, ReleaseInv, OwedIn, Pending, Planned
  <2> QED
    BY <2>5, <2>6, <2>7, <2>8 DEF IInv
<1>4. CASE Apply
  <2>1. /\ sync.at = "apply" /\ served' = sync.plan /\ Unlock
        /\ UNCHANGED <<now, record, missed, released>>
    BY <1>4 DEF Apply
  <2>2. sync.at \in Planning
    BY <2>1 DEF Planning
  <2>3. TypeOK' /\ SyncInv' /\ CountInv'
    BY <2>1, <2>2, Unlocked DEF IInv, TypeOK, CountInv
  <2>4. BlacklistInv'
    BY <2>1, <2>2, Unlocked DEF IInv, BlacklistInv, OwedOut, Blacklisted, Planned
  <2>5. ReleaseInv'
    BY <2>1, <2>2, Unlocked DEF IInv, TypeOK, ReleaseInv, OwedIn, Planned
  <2> QED
    BY <2>3, <2>4, <2>5 DEF IInv
<1>5. CASE SyncFail
  <2>1. /\ sync.at \in Planning /\ Unlock /\ missed' /\ missed' \in BOOLEAN
        /\ served' \in {served, {}} /\ UNCHANGED <<now, record, released>>
    BY <1>5 DEF SyncFail
  <2>2. TypeOK' /\ SyncInv' /\ CountInv'
    BY <2>1, Unlocked DEF IInv, TypeOK, CountInv
  <2>3. BlacklistInv' /\ ReleaseInv'
    BY <2>1, Unlocked DEF IInv, BlacklistInv, ReleaseInv, OwedOut, OwedIn, Planned
  <2> QED
    BY <2>2, <2>3 DEF IInv
<1>6. CASE Restart
  <2>1. /\ sync.at = "apply" /\ UNCHANGED <<now, record, actor, served, missed, released>>
        /\ sync' = [sync EXCEPT !.at = "read", !.plan = {}, !.excluded = {}]
    BY <1>6 DEF Restart
  <2>2. sync'.at = "read" /\ sync'.by = sync.by /\ sync'.excluded = {}
    BY <2>1 DEF IInv, TypeOK
  <2>3. TypeOK'
    BY <2>1 DEF IInv, TypeOK, Planning
  <2>4. SyncInv' /\ CountInv'
    BY <2>1, <2>2 DEF IInv, SyncInv, CountInv
  <2>5. BlacklistInv' /\ ReleaseInv'
    BY <2>1, <2>2 DEF IInv, BlacklistInv, ReleaseInv, Planned
  <2> QED
    BY <2>3, <2>4, <2>5 DEF IInv
<1> QED
  BY <1>1, <1>2, <1>3, <1>4, <1>5, <1>6 DEF Sync

\* The invariant holds initially and every step keeps it.
THEOREM Invariant == Spec => []IInv
<1>1. Init => IInv
  <2> SUFFICES ASSUME Init PROVE IInv
    OBVIOUS
  <2>1. TypeOK
    BY DEF Init, TypeOK, Clean, AtRest, NoSync
  <2>2. \A n \in Nodes : record[n] = Clean
    BY DEF Init
  <2>3. SyncInv
    BY Constants, NoneIsNobody DEF Init, SyncInv
  <2>4. CountInv /\ BlacklistInv /\ ReleaseInv
    BY <2>2, Constants DEF Init, CountInv, BlacklistInv, ReleaseInv, Blacklisted
  <2> QED
    BY <2>1, <2>3, <2>4 DEF IInv
<1>2. IInv /\ [Next]_vars => IInv'
  <2> SUFFICES ASSUME IInv, [Next]_vars PROVE IInv'
    OBVIOUS
  <2>1. ASSUME NEW a \in Actors, Report(a) \/ Request(a) PROVE IInv'
    BY <2>1, RecordStep, ActorStep, RequestStep DEF Report, Request
  <2>2. CASE UNCHANGED vars
    BY <2>2 DEF vars, IInv, TypeOK, SyncInv, CountInv, BlacklistInv, ReleaseInv, OwedOut, OwedIn,
       Pending, Planned, Blacklisted
  <2> QED
    BY <2>1, <2>2, TickStep, CoreReviveStep, SyncStep DEF Next
<1> QED
  BY <1>1, <1>2, PTL DEF Spec

\* Every variable keeps its type.
THEOREM TypeCorrect == Spec => []TypeOK
  BY Invariant, PTL DEF IInv

\* A blacklisting reaches the running group.
THEOREM BlacklistsReach == Spec => []BlacklistReaches
<1>1. IInv => BlacklistReaches
  BY DEF IInv, BlacklistInv, BlacklistReaches, OwedOut, Planned
<1> QED
  BY <1>1, Invariant, PTL

\* A release reaches the running group.
THEOREM ReleasesReach == Spec => []ReleaseReaches
<1>1. IInv => ReleaseReaches
  BY DEF IInv, ReleaseInv, ReleaseReaches, OwedIn, Planned
<1> QED
  BY <1>1, Invariant, PTL
=============================================================================
