----------------------- MODULE AccountTrackingProofs -----------------------
(* TLAPS proofs about a proxy that follows the account database, for any    *)
(* sets of accounts and requests and any bounds on the counters.            *)
EXTENDS AccountTracking, TLAPS

\* The tasks that run `snapshot`.
Worker == Request \cup {Watcher}

\* The locals of a task keep their types when one field is assigned.
LEMMA LocalsTyped ==
    ASSUME TypeOK, NEW t \in Task
    PROVE  /\ BlankLoc \in [seen : Version \cup {NoVersion}, now : Version, built : State]
           /\ ConfigNow \in State
           /\ \A cfg \in Nat : AccountsNow(cfg) \in State
           /\ loc[t] \in [seen : Version \cup {NoVersion}, now : Version, built : State]
BY DEF TypeOK, BlankLoc, BlankState, ConfigNow, AccountsNow, State, Version

\* Every variable keeps its type.
THEOREM TypeCorrect == Spec => []TypeOK
<1>1. Init => TypeOK
  <2> SUFFICES ASSUME Init PROVE TypeOK
    OBVIOUS
  <2>1. BlankState \in State
    BY DEF BlankState, State
  <2>2. BlankLoc \in [seen : Version \cup {NoVersion}, now : Version, built : State]
    BY <2>1 DEF BlankLoc, Version
  <2>3. pc \in [Task -> MainPC \cup TaskPC]
    BY DEF Init, MainPC, TaskPC
  <2>4. stored \subseteq Account
    BY DEF Init
  <2>5. start \in [Request -> [foreign : Nat, any : Nat]]
    BY DEF Init
  <2>6. QED
    BY <2>1, <2>2, <2>3, <2>4, <2>5 DEF Init, TypeOK
<1>2. TypeOK /\ [Next]_vars => TypeOK'
  <2> SUFFICES ASSUME TypeOK, [Next]_vars PROVE TypeOK'
    OBVIOUS
  <2>1. ASSUME NEW a \in Account, ForeignChange(a)
        PROVE  TypeOK'
    BY <2>1 DEF TypeOK, ForeignChange, Unguarded, config, shared, tasks
  <2>2. ASSUME NEW a \in Account, OwnDisconnect(a)
        PROVE  TypeOK'
    BY <2>2 DEF TypeOK, OwnDisconnect, Unguarded, config, shared, tasks
  <2>3. CASE ForeignTouch
    BY <2>3 DEF TypeOK, ForeignTouch, config, shared, tasks, history
  <2>4. CASE EditConfig
    BY <2>4 DEF TypeOK, EditConfig, store, shared, tasks
  <2>5. CASE Notify
    <3>1. touched' = FALSE /\ events' = events + 1
      BY <2>5, Zenon DEF Notify
    <3>2. UNCHANGED <<store, configFile, shared, tasks, history>>
      BY <2>5, Zenon DEF Notify
    <3>3. events' \in Nat
      BY <3>1 DEF TypeOK
    <3>4. touched' \in BOOLEAN
      BY <3>1
    <3>5. QED
      BY <3>2, <3>3, <3>4 DEF TypeOK, store, shared, tasks, history
  <2>6. CASE BootConfig
    BY <2>6, LocalsTyped
    DEF TypeOK, BootConfig, Task, MainPC, store, config, history, Goto
  <2>7. CASE BootAccounts
    BY <2>7, LocalsTyped
    DEF TypeOK, BootAccounts, Task, MainPC, State, store, config, history, Goto
  <2>8. CASE Watch
    BY <2>8 DEF TypeOK, Watch, Task, MainPC, store, config, shared, history, Goto
  <2>9. CASE TrackData
    <3> DEFINE l == [loc[Main] EXCEPT !.now.data = dataVersion]
    <3>1. Main \in Task /\ loc' = [loc EXCEPT ![Main] = l]
      BY <2>9 DEF TypeOK, TrackData, Task
    <3>2. l \in [seen : Version \cup {NoVersion}, now : Version, built : State]
      BY <3>1, LocalsTyped DEF TypeOK, Version
    <3> HIDE DEF l
    <3>3. loc' \in [Task -> [seen : Version \cup {NoVersion}, now : Version, built : State]]
      BY <3>1, <3>2 DEF TypeOK
    <3> QED BY <2>9, <3>1, <3>3
    DEF TypeOK, TrackData, MainPC, store, config, shared, history, Goto
  <2>10. CASE Track
    <3>1. Main \in Task /\ loc[Main].now \in Version
      BY DEF Task, TypeOK
    <3>2. seen' \in Version
      BY <2>10, <3>1 DEF Track, TypeOK, Version
    <3>3. loc' \in [Task -> [seen : Version \cup {NoVersion}, now : Version, built : State]]
      BY <2>10, <3>1, LocalsTyped DEF Track, Forget, TypeOK
    <3>4. QED
      BY <2>10, <3>2, <3>3 DEF TypeOK, Track, MainPC, store, config, history, Goto
  <2>11. CASE TrackFails
    BY <2>11 DEF TypeOK, TrackFails, Task, MainPC, store, config, shared, history, Goto
  <2>12. ASSUME NEW r \in Request, Arrive(r)
         PROVE  TypeOK'
    BY <2>12 DEF TypeOK, Arrive, Enter, Task, TaskPC, store, config, shared, Goto
  <2>13. CASE TakeEvent
    BY <2>13 DEF TypeOK, TakeEvent, Enter, Task, TaskPC, store, shared, Goto
  <2>14. ASSUME NEW t \in Worker, ReadData(t)
         PROVE  TypeOK'
    <3> DEFINE l == [loc[t] EXCEPT !.now.data = dataVersion]
    <3>1. t \in Task /\ loc' = [loc EXCEPT ![t] = l]
      BY <2>14 DEF TypeOK, ReadData, Worker, Task
    <3>2. l \in [seen : Version \cup {NoVersion}, now : Version, built : State]
      BY <2>14, <3>1, LocalsTyped DEF TypeOK, Version
    <3> HIDE DEF l
    <3>3. loc' \in [Task -> [seen : Version \cup {NoVersion}, now : Version, built : State]]
      BY <3>1, <3>2 DEF TypeOK
    <3> QED BY <2>14, <3>1, <3>3
    DEF TypeOK, ReadData, TaskPC, store, config, shared, history, Goto
  <2>15. ASSUME NEW t \in Worker, ReadRevision(t)
         PROVE  TypeOK'
    <3>1. t \in Task
      BY DEF Worker, Task
    <3>2. loc' \in [Task -> [seen : Version \cup {NoVersion}, now : Version, built : State]]
      <4>1. CASE Forget(t)
        BY <3>1, <4>1, LocalsTyped DEF TypeOK, Forget
      <4>2. CASE loc' = [loc EXCEPT ![t].now.rev = revision]
        BY <3>1, <4>2, LocalsTyped DEF TypeOK, Version
      <4>3. QED
        BY <2>15, <4>1, <4>2 DEF ReadRevision
    <3>3. pc' \in [Task -> MainPC \cup TaskPC]
      BY <2>15, <3>1 DEF TypeOK, ReadRevision, TaskPC, Goto
    <3>4. QED
      BY <2>15, <3>2, <3>3 DEF TypeOK, ReadRevision, store, config, shared, history
  <2>16. ASSUME NEW t \in Worker, SetSeen(t)
         PROVE  TypeOK'
    BY <2>16, LocalsTyped
    DEF TypeOK, SetSeen, Worker, Task, TaskPC, store, config, shared, history, Goto,
        Forget
  <2>17. ASSUME NEW t \in Worker, Lock(t)
         PROVE  TypeOK'
    BY <2>17, LocalsTyped
    DEF TypeOK, Lock, Worker, Task, TaskPC, store, config, shared, history, Goto, Forget
  <2>18. ASSUME NEW t \in Worker, BuildAccounts(t)
         PROVE  TypeOK'
    <3> DEFINE l == [loc[t] EXCEPT !.built = AccountsNow(mem.config)]
    <3>1. t \in Task /\ loc' = [loc EXCEPT ![t] = l]
      BY <2>18 DEF TypeOK, BuildAccounts, Worker, Task
    <3>2. l \in [seen : Version \cup {NoVersion}, now : Version, built : State]
      BY <2>18, <3>1, LocalsTyped DEF TypeOK, State
    <3> HIDE DEF l
    <3>3. loc' \in [Task -> [seen : Version \cup {NoVersion}, now : Version, built : State]]
      BY <3>1, <3>2 DEF TypeOK
    <3> QED BY <2>18, <3>1, <3>3
    DEF TypeOK, BuildAccounts, TaskPC, store, config, shared, history, Goto
  <2>19. ASSUME NEW t \in Worker, Rebuild(t)
         PROVE  TypeOK'
    BY <2>19, LocalsTyped
    DEF TypeOK, Rebuild, Worker, Task, TaskPC, store, config, shared, history, Goto
  <2>20. ASSUME NEW t \in Worker, Discover(t)
         PROVE  TypeOK'
    <3> DEFINE l == [loc[t] EXCEPT !.built = AccountsNow(@.config)]
    <3>1. t \in Task /\ loc' = [loc EXCEPT ![t] = l]
      BY <2>20 DEF TypeOK, Discover, Worker, Task
    <3>2. l \in [seen : Version \cup {NoVersion}, now : Version, built : State]
      BY <2>20, <3>1, LocalsTyped DEF TypeOK, State
    <3> HIDE DEF l
    <3>3. loc' \in [Task -> [seen : Version \cup {NoVersion}, now : Version, built : State]]
      BY <3>1, <3>2 DEF TypeOK
    <3> QED BY <2>20, <3>1, <3>3
    DEF TypeOK, Discover, TaskPC, store, config, shared, history, Goto
  <2>21. ASSUME NEW t \in Worker, Install(t)
         PROVE  TypeOK'
    BY <2>21, LocalsTyped
    DEF TypeOK, Install, Worker, Task, TaskPC, store, config, shared, history, Goto,
        Forget
  <2>22. ASSUME NEW t \in Worker, Fail(t)
         PROVE  TypeOK'
    BY <2>22, LocalsTyped
    DEF TypeOK, Fail, Worker, Task, TaskPC, store, config, shared, history, Goto, Forget
  <2>23. ASSUME NEW r \in Request, Read(r)
         PROVE  TypeOK'
    BY <2>23, LocalsTyped
    DEF TypeOK, Read, Task, TaskPC, BlankState, State, store, config, shared, history,
        Goto
  <2>24. ASSUME NEW r \in Request, Finish(r)
         PROVE  TypeOK'
    BY <2>24, LocalsTyped
    DEF TypeOK, Finish, Task, TaskPC, BlankState, State, store, config, shared, history,
        Goto
  <2>25. CASE ReloadConfig
    <3> DEFINE l == [loc[Watcher] EXCEPT !.built = ConfigNow]
    <3>1. Watcher \in Task /\ loc' = [loc EXCEPT ![Watcher] = l]
      BY <2>25 DEF TypeOK, ReloadConfig, Task
    <3>2. l \in [seen : Version \cup {NoVersion}, now : Version, built : State]
      BY <2>25, <3>1, LocalsTyped DEF TypeOK, State
    <3> HIDE DEF l
    <3>3. loc' \in [Task -> [seen : Version \cup {NoVersion}, now : Version, built : State]]
      BY <3>1, <3>2 DEF TypeOK
    <3> QED BY <2>25, <3>1, <3>3
    DEF TypeOK, ReloadConfig, TaskPC, store, config, shared, history, Goto
  <2>26. CASE ReloadAccounts
    <3> DEFINE l == [loc[Watcher] EXCEPT !.built = AccountsNow(@.config)]
    <3>1. Watcher \in Task /\ loc' = [loc EXCEPT ![Watcher] = l]
      BY <2>26 DEF TypeOK, ReloadAccounts, Task
    <3>2. l \in [seen : Version \cup {NoVersion}, now : Version, built : State]
      BY <2>26, <3>1, LocalsTyped DEF TypeOK, State
    <3> HIDE DEF l
    <3>3. loc' \in [Task -> [seen : Version \cup {NoVersion}, now : Version, built : State]]
      BY <3>1, <3>2 DEF TypeOK
    <3> QED BY <2>26, <3>1, <3>3
    DEF TypeOK, ReloadAccounts, TaskPC, store, config, shared, history, Goto
  <2>27. CASE ReloadSwap
    BY <2>27, LocalsTyped
    DEF TypeOK, ReloadSwap, Task, TaskPC, State, Forget, store, config, shared, history,
        Goto
  <2>28. CASE UNCHANGED vars
    BY <2>28 DEF TypeOK, vars, store, config, shared, tasks, history
  <2>29. QED
    BY <2>1, <2>2, <2>3, <2>4, <2>5, <2>6, <2>7, <2>8, <2>9, <2>10, <2>11, <2>12, <2>13,
        <2>14, <2>15, <2>16, <2>17, <2>18, <2>19, <2>20, <2>21, <2>22, <2>23, <2>24,
        <2>25, <2>26, <2>27, <2>28
       DEF Next, Environment, StartUp, Serve, Snapshot, Reload, Worker
<1>3. QED
  BY <1>1, <1>2, PTL DEF Spec

-----------------------------------------------------------------------------
(* What the tasks know.  A version is a poll of the store: if no other      *)
(* process has committed since its first half was read, its second half is  *)
(* no older than the last change elsewhere.                                 *)

Locked == {"build", "rebuild", "discover", "install"}
Polled == {"touch", "lock"} \cup Locked
Polling == {"data", "rev"} \cup Polled

Known(v) ==
    /\ v.data <= dataVersion
    /\ v.data = dataVersion => v.rev >= lastForeign

\* The installed accounts, their version, and start-up.
StateInv ==
    /\ mem.rev <= revision
    /\ lastForeign <= revision
    /\ seen # NoVersion => Known(seen) /\ pc[Main] = "serving"
    /\ pc[Main] = "serving" /\ seen = NoVersion => failed[Main]
    /\ pc[Main] = "polled" => loc[Main].now.data <= dataVersion
    /\ pc[Main] \in {"built", "watching", "polled"} /\ ~overtaken => mem.rev = revision

\* A task inside `snapshot`: what it has read of the version and the store, and
\* that the holder of the write lock builds accounts no older than either.
TaskInv(t) ==
    /\ pc[t] \in Locked => lock = t
    /\ pc[t] \in {"install", "swap"} => loc[t].built.rev <= revision
    /\ pc[t] \in Polling =>
         pc[Main] = "serving" /\ loc[t].seen # NoVersion /\ Known(loc[t].seen)
    /\ pc[t] = "rev" => loc[t].now.data <= dataVersion
    /\ pc[t] \in Polled => Known(loc[t].now) /\ loc[t].now.rev <= revision
    /\ pc[t] = "touch" => loc[t].now.rev = loc[t].seen.rev
    /\ pc[t] = "install" =>
         loc[t].built.rev >= loc[t].now.rev /\ loc[t].built.rev >= mem.rev
    /\ pc[t] \in {"data", "rev", "touch", "lock"} /\ ~overtaken =>
         mem.rev >= loc[t].seen.rev
    /\ t = Watcher /\ pc[t] = "swap" /\ ~overtaken => loc[t].built.rev = revision

\* What a request owes to the changes that preceded it.
RequestInv(r) ==
    LET owed == start[r].foreign IN
    /\ pc[r] # "idle" => pc[Main] = "serving" /\ owed <= lastForeign
    /\ pc[r] = "rev" /\ loc[r].now.data = loc[r].seen.data => loc[r].seen.rev >= owed
    /\ pc[r] \in Polled => loc[r].now.rev >= owed
    /\ ~failed[r] /\ ~failed[Main] /\ ~overtaken =>
         /\ pc[r] = "read" => mem.rev >= owed
         /\ pc[r] = "done" => got[r].rev >= owed

TrackingInv ==
    /\ StateInv
    /\ SeenNeverAhead
    /\ \A t \in Worker : TaskInv(t)
    /\ \A r \in Request : RequestInv(r)

\* No step takes back a commit, a served start-up, an error or an overtaken
\* build, or, but for the latter, accounts the proxy serves with.
StoreGrows ==
    /\ revision <= revision'
    /\ Unguarded /\ ~overtaken' => revision' = revision
    /\ lastForeign <= lastForeign'
    /\ dataVersion <= dataVersion'
    /\ dataVersion' = dataVersion => lastForeign' = lastForeign
    /\ overtaken => overtaken'
    /\ failed[Main] => failed'[Main]
    /\ pc[Main] = "serving" => pc'[Main] = "serving"
    /\ pc[Main] = "serving" /\ ~overtaken' => mem.rev <= mem'.rev

\* A step of another task leaves alone what is u's own, and the installed state,
\* too, while u holds the write lock.
Untouched(u) ==
    /\ pc'[u] = pc[u] /\ loc'[u] = loc[u] /\ failed'[u] = failed[u]
    /\ u \in Request => got'[u] = got[u] /\ start'[u] = start[u]
    /\ pc[u] \in Locked => lock' = lock /\ mem' = mem

\* The steps of task u.
Acts(u) ==
    \/ Snapshot(u)
    \/ Fail(u)
    \/ u \in Request /\ (Arrive(u) \/ Read(u) \/ Finish(u))
    \/ u = Watcher /\ (TakeEvent \/ ReloadConfig \/ ReloadAccounts \/ ReloadSwap)

\* The facts about types and the invariant that the steps below rest on.
LEMMA Facts ==
    ASSUME TypeOK, TrackingInv
    PROVE  /\ mem.rev \in Nat /\ revision \in Nat /\ dataVersion \in Nat /\ lastForeign \in Nat
           /\ seen # NoVersion => seen.data \in Nat /\ seen.rev \in Nat
           /\ pc \in [Task -> MainPC \cup TaskPC]
           /\ loc \in [Task -> [seen : Version \cup {NoVersion}, now : Version, built : State]]
           /\ failed \in [Task -> BOOLEAN] /\ Main \in Task
           /\ StateInv /\ SeenNeverAhead
           /\ \A t \in Worker : TaskInv(t) /\ t \in Task /\ t # Main /\ t # Nobody
           /\ \A t \in Task :
                /\ loc[t].now.data \in Nat /\ loc[t].now.rev \in Nat /\ loc[t].built.rev \in Nat
                /\ loc[t].seen # NoVersion => loc[t].seen.data \in Nat /\ loc[t].seen.rev \in Nat
           /\ \A r \in Request : RequestInv(r) /\ r \in Worker /\ r # Watcher
           /\ Watcher \in Worker
<1>1. \A t \in Task :
        /\ loc[t].now.data \in Nat /\ loc[t].now.rev \in Nat /\ loc[t].built.rev \in Nat
        /\ loc[t].seen # NoVersion => loc[t].seen.data \in Nat /\ loc[t].seen.rev \in Nat
  BY DEF TypeOK, State, Version
<1>2. /\ mem.rev \in Nat /\ revision \in Nat /\ dataVersion \in Nat /\ lastForeign \in Nat
      /\ seen # NoVersion => seen.data \in Nat /\ seen.rev \in Nat
  BY DEF TypeOK, State, Version
<1>3. \A t \in Worker : t \in Task /\ t # Main /\ t # Nobody
  BY TaskAssumption DEF Worker, Task
<1>4. QED
  BY <1>1, <1>2, <1>3, TaskAssumption DEF TypeOK, TrackingInv, Worker, Task

LEMMA StoreOnlyGrows ==
    ASSUME TypeOK, TrackingInv, [Next]_vars PROVE StoreGrows
<1>1. ASSUME NEW a \in Account, ForeignChange(a)
      PROVE  StoreGrows
  <2>1. (overtaken => overtaken') /\ (Unguarded => overtaken')
    BY <1>1, Zenon DEF ForeignChange
  <2>2. QED
    BY <1>1, <2>1, Facts
    DEF StoreGrows, StateInv, ForeignChange, store, config, shared, tasks, history
<1>2. ASSUME NEW a \in Account, OwnDisconnect(a)
      PROVE  StoreGrows
  <2>1. (overtaken => overtaken') /\ (Unguarded => overtaken')
    BY <1>2, Zenon DEF OwnDisconnect
  <2>2. QED
    BY <1>2, <2>1, Facts
    DEF StoreGrows, StateInv, OwnDisconnect, store, config, shared, tasks, history
<1>3. CASE ForeignTouch
  BY <1>3, Facts
  DEF StoreGrows, ForeignTouch, Unguarded, store, config, shared, tasks, history
<1>4. CASE EditConfig
  BY <1>4, Facts
  DEF StoreGrows, EditConfig, Unguarded, store, config, shared, tasks, history
<1>5. CASE Notify
  BY <1>5, Facts DEF StoreGrows, Notify, Unguarded, store, config, shared, tasks, history
<1>6. CASE BootConfig
  BY <1>6, Facts
  DEF StoreGrows, BootConfig, Goto, Unguarded, store, config, shared, tasks, history
<1>7. CASE BootAccounts
  BY <1>7, Facts
  DEF StoreGrows, BootAccounts, Goto, Unguarded, store, config, shared, tasks, history
<1>8. CASE Watch
  BY <1>8, Facts
  DEF StoreGrows, Watch, Goto, Unguarded, store, config, shared, tasks, history
<1>9. CASE TrackData
  BY <1>9, Facts
  DEF StoreGrows, TrackData, Goto, Unguarded, store, config, shared, tasks, history
<1>10. CASE Track
  BY <1>10, Facts
  DEF StoreGrows, Track, Goto, Forget, Unguarded, store, config, shared, tasks, history
<1>11. CASE TrackFails
  BY <1>11, Facts
  DEF StoreGrows, TrackFails, Goto, Unguarded, store, config, shared, tasks, history
<1>12. ASSUME NEW r \in Request, Arrive(r)
      PROVE  StoreGrows
  BY <1>12, Facts
  DEF StoreGrows, Arrive, Enter, Goto, Unguarded, store, config, shared, tasks, history
<1>13. ASSUME NEW r \in Request, Read(r)
      PROVE  StoreGrows
  BY <1>13, Facts
  DEF StoreGrows, Read, Goto, Unguarded, store, config, shared, tasks, history
<1>14. ASSUME NEW r \in Request, Finish(r)
      PROVE  StoreGrows
  BY <1>14, Facts
  DEF StoreGrows, Finish, Goto, Unguarded, store, config, shared, tasks, history
<1>15. ASSUME NEW t \in Worker, ReadData(t)
      PROVE  StoreGrows
  BY <1>15, Facts
  DEF StoreGrows, ReadData, Goto, Unguarded, store, config, shared, tasks, history
<1>16. ASSUME NEW t \in Worker, ReadRevision(t)
      PROVE  StoreGrows
  BY <1>16, Facts
  DEF StoreGrows, ReadRevision, Goto, Forget, Unguarded, store, config, shared, tasks,
      history
<1>17. ASSUME NEW t \in Worker, SetSeen(t)
      PROVE  StoreGrows
  BY <1>17, Facts
  DEF StoreGrows, SetSeen, Goto, Forget, Unguarded, store, config, shared, tasks,
      history
<1>18. ASSUME NEW t \in Worker, Lock(t)
      PROVE  StoreGrows
  BY <1>18, Facts
  DEF StoreGrows, Lock, Goto, Forget, Unguarded, store, config, shared, tasks, history
<1>19. ASSUME NEW t \in Worker, BuildAccounts(t)
      PROVE  StoreGrows
  BY <1>19, Facts
  DEF StoreGrows, BuildAccounts, Goto, Unguarded, store, config, shared, tasks, history
<1>20. ASSUME NEW t \in Worker, Rebuild(t)
      PROVE  StoreGrows
  BY <1>20, Facts
  DEF StoreGrows, Rebuild, Goto, Unguarded, store, config, shared, tasks, history
<1>21. ASSUME NEW t \in Worker, Discover(t)
      PROVE  StoreGrows
  BY <1>21, Facts
  DEF StoreGrows, Discover, Goto, Unguarded, store, config, shared, tasks, history
<1>22. ASSUME NEW t \in Worker, Install(t)
      PROVE  StoreGrows
  BY <1>22, Facts
  DEF StoreGrows, StateInv, TaskInv, Locked, Install, Goto, Forget, Unguarded, store,
      config, shared, tasks, history
<1>23. ASSUME NEW t \in Worker, Fail(t)
      PROVE  StoreGrows
  BY <1>23, Facts
  DEF StoreGrows, Fail, Goto, Forget, Unguarded, store, config, shared, tasks, history
<1>24. CASE TakeEvent
  BY <1>24, Facts
  DEF StoreGrows, TakeEvent, Enter, Goto, Unguarded, store, config, shared, tasks,
      history
<1>25. CASE ReloadConfig
  BY <1>25, Facts
  DEF StoreGrows, ReloadConfig, Goto, Unguarded, store, config, shared, tasks, history
<1>26. CASE ReloadAccounts
  BY <1>26, Facts
  DEF StoreGrows, ReloadAccounts, Goto, Unguarded, store, config, shared, tasks, history
<1>27. CASE ReloadSwap
  BY <1>27, Facts
  DEF StoreGrows, StateInv, TaskInv, Locked, ReloadSwap, Goto, Forget, Unguarded, store,
      config, shared, tasks, history
<1>28. CASE UNCHANGED vars
  BY <1>28, Facts
  DEF StoreGrows, vars, Goto, Unguarded, store, config, shared, tasks, history
<1>29. QED
  BY <1>1, <1>2, <1>3, <1>4, <1>5, <1>6, <1>7, <1>8, <1>9, <1>10, <1>11,
     <1>12, <1>13, <1>14, <1>15, <1>16, <1>17, <1>18, <1>19, <1>20, <1>21,
     <1>22, <1>23, <1>24, <1>25, <1>26, <1>27, <1>28
  DEF Next, Environment, StartUp, Serve, Snapshot, Reload, Worker

\* Every step is one of u's or leaves it untouched: only the holder of the write
\* lock installs, and a reload swaps its state in while nobody holds it.
LEMMA OneActor ==
    ASSUME TypeOK, TrackingInv, [Next]_vars, NEW u \in Worker
    PROVE  Untouched(u) \/ Acts(u)
<1>1. ASSUME NEW a \in Account, ForeignChange(a)
      PROVE  Untouched(u) \/ Acts(u)
  BY <1>1, Facts
  DEF Untouched, ForeignChange, Unguarded, TaskInv, StateInv, Locked, store, config,
      shared, tasks, history
<1>2. ASSUME NEW a \in Account, OwnDisconnect(a)
      PROVE  Untouched(u) \/ Acts(u)
  BY <1>2, Facts
  DEF Untouched, OwnDisconnect, Unguarded, TaskInv, StateInv, Locked, store, config,
      shared, tasks, history
<1>3. CASE ForeignTouch
  BY <1>3, Facts
  DEF Untouched, ForeignTouch, TaskInv, StateInv, Locked, store, config, shared, tasks,
      history
<1>4. CASE EditConfig
  BY <1>4, Facts
  DEF Untouched, EditConfig, TaskInv, StateInv, Locked, store, config, shared, tasks,
      history
<1>5. CASE Notify
  BY <1>5, Facts
  DEF Untouched, Notify, TaskInv, StateInv, Locked, store, config, shared, tasks,
      history
<1>6. CASE BootConfig
  BY <1>6, Facts
  DEF Untouched, BootConfig, Goto, TaskInv, StateInv, Locked, Polled, Polling, store,
      config, shared, tasks, history
<1>7. CASE BootAccounts
  BY <1>7, Facts
  DEF Untouched, BootAccounts, Goto, TaskInv, StateInv, Locked, Polled, Polling, store,
      config, shared, tasks, history
<1>8. CASE Watch
  BY <1>8, Facts
  DEF Untouched, Watch, Goto, TaskInv, StateInv, Locked, Polled, Polling, store, config,
      shared, tasks, history
<1>9. CASE TrackData
  BY <1>9, Facts
  DEF Untouched, TrackData, Goto, TaskInv, StateInv, Locked, Polled, Polling, store,
      config, shared, tasks, history
<1>10. CASE Track
  BY <1>10, Facts
  DEF Untouched, Track, Goto, Forget, TaskInv, StateInv, Locked, Polled, Polling, store,
      config, shared, tasks, history
<1>11. CASE TrackFails
  BY <1>11, Facts
  DEF Untouched, TrackFails, Goto, TaskInv, StateInv, Locked, Polled, Polling, store,
      config, shared, tasks, history
<1>12. ASSUME NEW r \in Request, Arrive(r)
      PROVE  Untouched(u) \/ Acts(u)
  <2>1. CASE r = u
    BY <1>12, <2>1 DEF Acts
  <2>2. CASE r # u
    BY <1>12, <2>2, Facts
    DEF TypeOK, Untouched, Arrive, Enter, Goto, store, config, shared, tasks, history
  <2>3. QED
    BY <2>1, <2>2
<1>13. ASSUME NEW r \in Request, Read(r)
      PROVE  Untouched(u) \/ Acts(u)
  <2>1. CASE r = u
    BY <1>13, <2>1 DEF Acts
  <2>2. CASE r # u
    BY <1>13, <2>2, Facts
    DEF TypeOK, Untouched, Read, Goto, store, config, shared, tasks, history
  <2>3. QED
    BY <2>1, <2>2
<1>14. ASSUME NEW r \in Request, Finish(r)
      PROVE  Untouched(u) \/ Acts(u)
  <2>1. CASE r = u
    BY <1>14, <2>1 DEF Acts
  <2>2. CASE r # u
    BY <1>14, <2>2, Facts
    DEF TypeOK, Untouched, Finish, Goto, store, config, shared, tasks, history
  <2>3. QED
    BY <2>1, <2>2
<1>15. ASSUME NEW t \in Worker, ReadData(t)
      PROVE  Untouched(u) \/ Acts(u)
  BY <1>15, Facts
  DEF Untouched, Acts, Snapshot, ReadData, Goto, TaskInv, StateInv, Locked, store,
      config, shared, tasks, history
<1>16. ASSUME NEW t \in Worker, ReadRevision(t)
      PROVE  Untouched(u) \/ Acts(u)
  BY <1>16, Facts
  DEF Untouched, Acts, Snapshot, ReadRevision, Goto, Forget, TaskInv, StateInv, Locked,
      store, config, shared, tasks, history
<1>17. ASSUME NEW t \in Worker, SetSeen(t)
      PROVE  Untouched(u) \/ Acts(u)
  BY <1>17, Facts
  DEF Untouched, Acts, Snapshot, SetSeen, Goto, Forget, TaskInv, StateInv, Locked,
      store, config, shared, tasks, history
<1>18. ASSUME NEW t \in Worker, Lock(t)
      PROVE  Untouched(u) \/ Acts(u)
  BY <1>18, Facts
  DEF Untouched, Acts, Snapshot, Lock, Goto, Forget, TaskInv, StateInv, Locked, store,
      config, shared, tasks, history
<1>19. ASSUME NEW t \in Worker, BuildAccounts(t)
      PROVE  Untouched(u) \/ Acts(u)
  BY <1>19, Facts
  DEF Untouched, Acts, Snapshot, BuildAccounts, Goto, TaskInv, StateInv, Locked, store,
      config, shared, tasks, history
<1>20. ASSUME NEW t \in Worker, Rebuild(t)
      PROVE  Untouched(u) \/ Acts(u)
  BY <1>20, Facts
  DEF Untouched, Acts, Snapshot, Rebuild, Goto, TaskInv, StateInv, Locked, store,
      config, shared, tasks, history
<1>21. ASSUME NEW t \in Worker, Discover(t)
      PROVE  Untouched(u) \/ Acts(u)
  BY <1>21, Facts
  DEF Untouched, Acts, Snapshot, Discover, Goto, TaskInv, StateInv, Locked, store,
      config, shared, tasks, history
<1>22. ASSUME NEW t \in Worker, Install(t)
      PROVE  Untouched(u) \/ Acts(u)
  BY <1>22, Facts
  DEF Untouched, Acts, Snapshot, Install, Goto, Forget, TaskInv, StateInv, Locked,
      store, config, shared, tasks, history
<1>23. ASSUME NEW t \in Worker, Fail(t)
      PROVE  Untouched(u) \/ Acts(u)
  BY <1>23, Facts
  DEF Untouched, Acts, Snapshot, Fail, Goto, Forget, TaskInv, StateInv, Locked, store,
      config, shared, tasks, history
<1>24. CASE TakeEvent
  BY <1>24, Facts
  DEF Untouched, Acts, Snapshot, TakeEvent, Enter, Goto, TaskInv, StateInv, Locked,
      store, config, shared, tasks, history
<1>25. CASE ReloadConfig
  BY <1>25, Facts
  DEF Untouched, Acts, Snapshot, ReloadConfig, Goto, TaskInv, StateInv, Locked, store,
      config, shared, tasks, history
<1>26. CASE ReloadAccounts
  BY <1>26, Facts
  DEF Untouched, Acts, Snapshot, ReloadAccounts, Goto, TaskInv, StateInv, Locked, store,
      config, shared, tasks, history
<1>27. CASE ReloadSwap
  BY <1>27, Facts
  DEF Untouched, Acts, Snapshot, ReloadSwap, Goto, Forget, TaskInv, StateInv, Locked,
      store, config, shared, tasks, history
<1>28. CASE UNCHANGED vars
  BY <1>28, Facts
  DEF Untouched, vars, Goto, TaskInv, StateInv, Locked, store, config, shared, tasks,
      history
<1>29. QED
  BY <1>1, <1>2, <1>3, <1>4, <1>5, <1>6, <1>7, <1>8, <1>9, <1>10, <1>11,
     <1>12, <1>13, <1>14, <1>15, <1>16, <1>17, <1>18, <1>19, <1>20, <1>21,
     <1>22, <1>23, <1>24, <1>25, <1>26, <1>27, <1>28
  DEF Next, Environment, StartUp, Serve, Snapshot, Reload, Worker

\* Every action keeps what holds of the installed accounts and of start-up.
LEMMA StateInvStep ==
    ASSUME TypeOK, TypeOK', TrackingInv, [Next]_vars
    PROVE  StateInv' /\ SeenNeverAhead'
<1>0. StoreGrows
  BY StoreOnlyGrows
<1>0a. seen # NoVersion => Known(seen) /\ seen \in Version
  BY Facts DEF StateInv, TypeOK
<1>1. ASSUME NEW a \in Account, ForeignChange(a)
      PROVE  StateInv' /\ SeenNeverAhead'
  <2>1. StateInv'
    BY <1>1, <1>0, <1>0a, Facts, VersionAssumption
    DEF ForeignChange, Unguarded, StateInv, Known, StoreGrows, store, config, shared,
        tasks, history
  <2>2. SeenNeverAhead'
    BY <1>1, <1>0, <1>0a, Facts, VersionAssumption
    DEF ForeignChange, Unguarded, StateInv, SeenNeverAhead, store, config, shared,
        tasks, history
  <2>3. QED
    BY <2>1, <2>2
<1>2. ASSUME NEW a \in Account, OwnDisconnect(a)
      PROVE  StateInv' /\ SeenNeverAhead'
  <2>1. StateInv'
    BY <1>2, <1>0, <1>0a, Facts, VersionAssumption
    DEF OwnDisconnect, Unguarded, StateInv, Known, StoreGrows, store, config, shared,
        tasks, history
  <2>2. SeenNeverAhead'
    BY <1>2, <1>0, <1>0a, Facts, VersionAssumption
    DEF OwnDisconnect, Unguarded, StateInv, SeenNeverAhead, store, config, shared,
        tasks, history
  <2>3. QED
    BY <2>1, <2>2
<1>3. CASE ForeignTouch
  <2>1. StateInv'
    BY <1>3, <1>0, <1>0a, Facts, VersionAssumption
    DEF ForeignTouch, StateInv, Known, StoreGrows, store, config, shared, tasks, history
  <2>2. SeenNeverAhead'
    BY <1>3, <1>0, <1>0a, Facts, VersionAssumption
    DEF ForeignTouch, StateInv, SeenNeverAhead, store, config, shared, tasks, history
  <2>3. QED
    BY <2>1, <2>2
<1>4. CASE EditConfig
  <2>1. StateInv'
    BY <1>4, <1>0, <1>0a, Facts, VersionAssumption
    DEF EditConfig, StateInv, Known, StoreGrows, store, config, shared, tasks, history
  <2>2. SeenNeverAhead'
    BY <1>4, <1>0, <1>0a, Facts, VersionAssumption
    DEF EditConfig, StateInv, SeenNeverAhead, store, config, shared, tasks, history
  <2>3. QED
    BY <2>1, <2>2
<1>5. CASE Notify
  <2>1. StateInv'
    BY <1>5, <1>0, <1>0a, Facts, VersionAssumption
    DEF Notify, StateInv, Known, StoreGrows, store, config, shared, tasks, history
  <2>2. SeenNeverAhead'
    BY <1>5, <1>0, <1>0a, Facts, VersionAssumption
    DEF Notify, StateInv, SeenNeverAhead, store, config, shared, tasks, history
  <2>3. QED
    BY <2>1, <2>2
<1>6. CASE BootConfig
  <2>1. StateInv'
    BY <1>6, <1>0, <1>0a, Facts, VersionAssumption
    DEF BootConfig, Goto, ConfigNow, AccountsNow, BlankState, StateInv, Known,
        StoreGrows, store, config, shared, tasks, history
  <2>2. SeenNeverAhead'
    BY <1>6, <1>0, <1>0a, Facts, VersionAssumption
    DEF BootConfig, Goto, ConfigNow, AccountsNow, BlankState, StateInv, SeenNeverAhead,
        store, config, shared, tasks, history
  <2>3. QED
    BY <2>1, <2>2
<1>7. CASE BootAccounts
  <2>1. StateInv'
    BY <1>7, <1>0, <1>0a, Facts, VersionAssumption
    DEF BootAccounts, Goto, ConfigNow, AccountsNow, BlankState, StateInv, Known,
        StoreGrows, store, config, shared, tasks, history
  <2>2. SeenNeverAhead'
    BY <1>7, <1>0, <1>0a, Facts, VersionAssumption
    DEF BootAccounts, Goto, ConfigNow, AccountsNow, BlankState, StateInv,
        SeenNeverAhead, store, config, shared, tasks, history
  <2>3. QED
    BY <2>1, <2>2
<1>8. CASE Watch
  <2>1. StateInv'
    BY <1>8, <1>0, <1>0a, Facts, VersionAssumption
    DEF Watch, Goto, StateInv, Known, StoreGrows, store, config, shared, tasks, history
  <2>2. SeenNeverAhead'
    BY <1>8, <1>0, <1>0a, Facts, VersionAssumption
    DEF Watch, Goto, StateInv, SeenNeverAhead, store, config, shared, tasks, history
  <2>3. QED
    BY <2>1, <2>2
<1>9. CASE TrackData
  <2>1. StateInv'
    BY <1>9, <1>0, <1>0a, Facts, VersionAssumption
    DEF TrackData, Goto, StateInv, Known, StoreGrows, store, config, shared, tasks,
        history
  <2>2. SeenNeverAhead'
    BY <1>9, <1>0, <1>0a, Facts, VersionAssumption
    DEF TrackData, Goto, StateInv, SeenNeverAhead, store, config, shared, tasks, history
  <2>3. QED
    BY <2>1, <2>2
<1>10. CASE Track
  <2>1. seen'.data = loc[Main].now.data /\ seen'.rev = revision /\ seen' # NoVersion
    BY <1>10, Facts, VersionAssumption DEF Track, Version
  <2>2. Known(seen)'
    BY <1>10, <2>1, Facts
    DEF Track, StateInv, Known, store, config, shared, tasks, history
  <2>3. StateInv'
    BY <1>10, <2>1, <2>2, Facts
    DEF Track, Goto, StateInv, store, config, shared, tasks, history
  <2>4. SeenNeverAhead'
    BY <1>10, <2>1, Facts
    DEF Track, Goto, StateInv, SeenNeverAhead, store, config, shared, tasks, history
  <2>5. QED
    BY <2>3, <2>4
<1>11. CASE TrackFails
  <2>1. StateInv'
    BY <1>11, <1>0, <1>0a, Facts, VersionAssumption
    DEF TrackFails, Goto, StateInv, Known, StoreGrows, store, config, shared, tasks,
        history
  <2>2. SeenNeverAhead'
    BY <1>11, <1>0, <1>0a, Facts, VersionAssumption
    DEF TrackFails, Goto, StateInv, SeenNeverAhead, store, config, shared, tasks,
        history
  <2>3. QED
    BY <2>1, <2>2
<1>12. ASSUME NEW r \in Request, Arrive(r)
      PROVE  StateInv' /\ SeenNeverAhead'
  <2>1. StateInv'
    BY <1>12, <1>0, <1>0a, Facts, VersionAssumption
    DEF Arrive, Enter, Goto, StateInv, Known, StoreGrows, store, config, shared, tasks,
        history
  <2>2. SeenNeverAhead'
    BY <1>12, <1>0, <1>0a, Facts, VersionAssumption
    DEF Arrive, Enter, Goto, StateInv, SeenNeverAhead, store, config, shared, tasks,
        history
  <2>3. QED
    BY <2>1, <2>2
<1>13. ASSUME NEW r \in Request, Read(r)
      PROVE  StateInv' /\ SeenNeverAhead'
  <2>1. StateInv'
    BY <1>13, <1>0, <1>0a, Facts, VersionAssumption
    DEF Read, Goto, StateInv, Known, StoreGrows, store, config, shared, tasks, history
  <2>2. SeenNeverAhead'
    BY <1>13, <1>0, <1>0a, Facts, VersionAssumption
    DEF Read, Goto, StateInv, SeenNeverAhead, store, config, shared, tasks, history
  <2>3. QED
    BY <2>1, <2>2
<1>14. ASSUME NEW r \in Request, Finish(r)
      PROVE  StateInv' /\ SeenNeverAhead'
  <2>1. StateInv'
    BY <1>14, <1>0, <1>0a, Facts, VersionAssumption
    DEF Finish, Goto, StateInv, Known, StoreGrows, store, config, shared, tasks, history
  <2>2. SeenNeverAhead'
    BY <1>14, <1>0, <1>0a, Facts, VersionAssumption
    DEF Finish, Goto, StateInv, SeenNeverAhead, store, config, shared, tasks, history
  <2>3. QED
    BY <2>1, <2>2
<1>15. ASSUME NEW t \in Worker, ReadData(t)
      PROVE  StateInv' /\ SeenNeverAhead'
  <2>1. StateInv'
    BY <1>15, <1>0, <1>0a, Facts, VersionAssumption
    DEF ReadData, Goto, TaskInv, Locked, Polled, Polling, StateInv, Known, StoreGrows,
        store, config, shared, tasks, history
  <2>2. SeenNeverAhead'
    BY <1>15, <1>0, <1>0a, Facts, VersionAssumption
    DEF ReadData, Goto, TaskInv, Locked, Polled, Polling, StateInv, SeenNeverAhead,
        store, config, shared, tasks, history
  <2>3. QED
    BY <2>1, <2>2
<1>16. ASSUME NEW t \in Worker, ReadRevision(t)
      PROVE  StateInv' /\ SeenNeverAhead'
  <2>1. StateInv'
    BY <1>16, <1>0, <1>0a, Facts, VersionAssumption
    DEF ReadRevision, Goto, Forget, TaskInv, Locked, Polled, Polling, StateInv, Known,
        StoreGrows, store, config, shared, tasks, history
  <2>2. SeenNeverAhead'
    BY <1>16, <1>0, <1>0a, Facts, VersionAssumption
    DEF ReadRevision, Goto, Forget, TaskInv, Locked, Polled, Polling, StateInv,
        SeenNeverAhead, store, config, shared, tasks, history
  <2>3. QED
    BY <2>1, <2>2
<1>17. ASSUME NEW t \in Worker, SetSeen(t)
      PROVE  StateInv' /\ SeenNeverAhead'
  <2>1. StateInv'
    BY <1>17, <1>0, <1>0a, Facts, VersionAssumption
    DEF SetSeen, Goto, Forget, TaskInv, Locked, Polled, Polling, StateInv, Known,
        StoreGrows, store, config, shared, tasks, history
  <2>2. SeenNeverAhead'
    BY <1>17, <1>0, <1>0a, Facts, VersionAssumption
    DEF SetSeen, Goto, Forget, TaskInv, Locked, Polled, Polling, StateInv,
        SeenNeverAhead, store, config, shared, tasks, history
  <2>3. QED
    BY <2>1, <2>2
<1>18. ASSUME NEW t \in Worker, Lock(t)
      PROVE  StateInv' /\ SeenNeverAhead'
  <2>1. StateInv'
    BY <1>18, <1>0, <1>0a, Facts, VersionAssumption
    DEF Lock, Goto, Forget, TaskInv, Locked, Polled, Polling, StateInv, Known,
        StoreGrows, store, config, shared, tasks, history
  <2>2. SeenNeverAhead'
    BY <1>18, <1>0, <1>0a, Facts, VersionAssumption
    DEF Lock, Goto, Forget, TaskInv, Locked, Polled, Polling, StateInv, SeenNeverAhead,
        store, config, shared, tasks, history
  <2>3. QED
    BY <2>1, <2>2
<1>19. ASSUME NEW t \in Worker, BuildAccounts(t)
      PROVE  StateInv' /\ SeenNeverAhead'
  <2>1. StateInv'
    BY <1>19, <1>0, <1>0a, Facts, VersionAssumption
    DEF BuildAccounts, Goto, TaskInv, Locked, Polled, Polling, StateInv, Known,
        StoreGrows, store, config, shared, tasks, history
  <2>2. SeenNeverAhead'
    BY <1>19, <1>0, <1>0a, Facts, VersionAssumption
    DEF BuildAccounts, Goto, TaskInv, Locked, Polled, Polling, StateInv, SeenNeverAhead,
        store, config, shared, tasks, history
  <2>3. QED
    BY <2>1, <2>2
<1>20. ASSUME NEW t \in Worker, Rebuild(t)
      PROVE  StateInv' /\ SeenNeverAhead'
  <2>1. StateInv'
    BY <1>20, <1>0, <1>0a, Facts, VersionAssumption
    DEF Rebuild, Goto, TaskInv, Locked, Polled, Polling, StateInv, Known, StoreGrows,
        store, config, shared, tasks, history
  <2>2. SeenNeverAhead'
    BY <1>20, <1>0, <1>0a, Facts, VersionAssumption
    DEF Rebuild, Goto, TaskInv, Locked, Polled, Polling, StateInv, SeenNeverAhead,
        store, config, shared, tasks, history
  <2>3. QED
    BY <2>1, <2>2
<1>21. ASSUME NEW t \in Worker, Discover(t)
      PROVE  StateInv' /\ SeenNeverAhead'
  <2>1. StateInv'
    BY <1>21, <1>0, <1>0a, Facts, VersionAssumption
    DEF Discover, Goto, TaskInv, Locked, Polled, Polling, StateInv, Known, StoreGrows,
        store, config, shared, tasks, history
  <2>2. SeenNeverAhead'
    BY <1>21, <1>0, <1>0a, Facts, VersionAssumption
    DEF Discover, Goto, TaskInv, Locked, Polled, Polling, StateInv, SeenNeverAhead,
        store, config, shared, tasks, history
  <2>3. QED
    BY <2>1, <2>2
<1>22. ASSUME NEW t \in Worker, Install(t)
      PROVE  StateInv' /\ SeenNeverAhead'
  <2>1. StateInv'
    BY <1>22, <1>0, <1>0a, Facts, VersionAssumption
    DEF Install, Goto, Forget, TaskInv, Locked, Polled, Polling, StateInv, Known,
        StoreGrows, store, config, shared, tasks, history
  <2>2. SeenNeverAhead'
    BY <1>22, <1>0, <1>0a, Facts, VersionAssumption
    DEF Install, Goto, Forget, TaskInv, Locked, Polled, Polling, StateInv,
        SeenNeverAhead, store, config, shared, tasks, history
  <2>3. QED
    BY <2>1, <2>2
<1>23. ASSUME NEW t \in Worker, Fail(t)
      PROVE  StateInv' /\ SeenNeverAhead'
  <2>1. StateInv'
    BY <1>23, <1>0, <1>0a, Facts, VersionAssumption
    DEF Fail, Goto, Forget, TaskInv, Locked, Polled, Polling, StateInv, Known,
        StoreGrows, store, config, shared, tasks, history
  <2>2. SeenNeverAhead'
    BY <1>23, <1>0, <1>0a, Facts, VersionAssumption
    DEF Fail, Goto, Forget, TaskInv, Locked, Polled, Polling, StateInv, SeenNeverAhead,
        store, config, shared, tasks, history
  <2>3. QED
    BY <2>1, <2>2
<1>24. CASE TakeEvent
  <2>1. StateInv'
    BY <1>24, <1>0, <1>0a, Facts, VersionAssumption
    DEF TakeEvent, Enter, Goto, TaskInv, Locked, Polled, Polling, StateInv, Known,
        StoreGrows, store, config, shared, tasks, history
  <2>2. SeenNeverAhead'
    BY <1>24, <1>0, <1>0a, Facts, VersionAssumption
    DEF TakeEvent, Enter, Goto, TaskInv, Locked, Polled, Polling, StateInv,
        SeenNeverAhead, store, config, shared, tasks, history
  <2>3. QED
    BY <2>1, <2>2
<1>25. CASE ReloadConfig
  <2>1. StateInv'
    BY <1>25, <1>0, <1>0a, Facts, VersionAssumption
    DEF ReloadConfig, Goto, TaskInv, Locked, Polled, Polling, StateInv, Known,
        StoreGrows, store, config, shared, tasks, history
  <2>2. SeenNeverAhead'
    BY <1>25, <1>0, <1>0a, Facts, VersionAssumption
    DEF ReloadConfig, Goto, TaskInv, Locked, Polled, Polling, StateInv, SeenNeverAhead,
        store, config, shared, tasks, history
  <2>3. QED
    BY <2>1, <2>2
<1>26. CASE ReloadAccounts
  <2>1. StateInv'
    BY <1>26, <1>0, <1>0a, Facts, VersionAssumption
    DEF ReloadAccounts, Goto, TaskInv, Locked, Polled, Polling, StateInv, Known,
        StoreGrows, store, config, shared, tasks, history
  <2>2. SeenNeverAhead'
    BY <1>26, <1>0, <1>0a, Facts, VersionAssumption
    DEF ReloadAccounts, Goto, TaskInv, Locked, Polled, Polling, StateInv,
        SeenNeverAhead, store, config, shared, tasks, history
  <2>3. QED
    BY <2>1, <2>2
<1>27. CASE ReloadSwap
  <2>1. StateInv'
    BY <1>27, <1>0, <1>0a, Facts, VersionAssumption
    DEF ReloadSwap, Goto, Forget, TaskInv, Locked, Polled, Polling, StateInv, Known,
        StoreGrows, store, config, shared, tasks, history
  <2>2. SeenNeverAhead'
    BY <1>27, <1>0, <1>0a, Facts, VersionAssumption
    DEF ReloadSwap, Goto, Forget, TaskInv, Locked, Polled, Polling, StateInv,
        SeenNeverAhead, store, config, shared, tasks, history
  <2>3. QED
    BY <2>1, <2>2
<1>28. CASE UNCHANGED vars
  <2>1. StateInv'
    BY <1>28, <1>0, <1>0a, Facts, VersionAssumption
    DEF vars, Goto, StateInv, Known, StoreGrows, store, config, shared, tasks, history
  <2>2. SeenNeverAhead'
    BY <1>28, <1>0, <1>0a, Facts, VersionAssumption
    DEF vars, Goto, StateInv, SeenNeverAhead, store, config, shared, tasks, history
  <2>3. QED
    BY <2>1, <2>2
<1>29. QED
  BY <1>1, <1>2, <1>3, <1>4, <1>5, <1>6, <1>7, <1>8, <1>9, <1>10, <1>11,
     <1>12, <1>13, <1>14, <1>15, <1>16, <1>17, <1>18, <1>19, <1>20, <1>21,
     <1>22, <1>23, <1>24, <1>25, <1>26, <1>27, <1>28
  DEF Next, Environment, StartUp, Serve, Snapshot, Reload, Worker

\* A task keeps what it knows, whoever takes the step.
LEMMA TaskInvStep ==
    ASSUME TypeOK, TypeOK', TrackingInv, [Next]_vars, NEW u \in Worker
    PROVE  TaskInv(u)'
<1>0. StoreGrows /\ u \in Task /\ u # Main /\ TaskInv(u)
  BY StoreOnlyGrows, Facts
<1>1. CASE Untouched(u)
  <2>1. pc'[u] = pc[u] /\ loc'[u] = loc[u] /\ loc[u].seen \in Version \cup {NoVersion}
    BY <1>0, <1>1, Facts DEF Untouched
  <2>2. pc[u] \in Polling => Known(loc[u].seen)'
    BY <1>0, <2>1, Facts DEF TaskInv, Known, StoreGrows, TypeOK
  <2>3. pc[u] \in Polled => Known(loc[u].now)'
    BY <1>0, <2>1, Facts DEF TaskInv, Known, StoreGrows, TypeOK
  <2>4. pc[u] \in {"data", "rev", "touch", "lock"} /\ ~overtaken' =>
          mem'.rev >= loc[u].seen.rev
    BY <1>0, <2>1, Facts DEF TaskInv, StateInv, StoreGrows, Polled, Polling, TypeOK, State
  <2>5. QED
    BY <1>0, <1>1, <2>1, <2>2, <2>3, <2>4, Facts
    DEF Untouched, TaskInv, StoreGrows, Locked, Polled, Polling, Unguarded, TypeOK, State
<1>2. CASE ReadData(u)
  BY <1>2, <1>0, Facts, VersionAssumption
  DEF ReadData, Goto, AccountsNow, TaskInv, StateInv, Known, Locked, Polled, Polling,
      store, config, shared, tasks, history
<1>3. CASE ReadRevision(u)
  <2>1. /\ UNCHANGED <<store, shared, got, failed, history>>
        /\ pc'[Main] = pc[Main] /\ pc[u] = "rev"
    BY <1>3, <1>0, Facts DEF ReadRevision, Goto
  <2>2. CASE loc[u].now.data = loc[u].seen.data
    <3>1. pc'[u] = "read"
      BY <1>3, <1>0, <2>2, Facts DEF ReadRevision, Goto
    <3>2. QED
      BY <3>1 DEF TaskInv, Polling, Polled, Locked
  <2>3. CASE loc[u].now.data # loc[u].seen.data
    <3>1. pc'[u] \in {"touch", "lock"} /\ (pc'[u] = "touch" => revision = loc[u].seen.rev)
      BY <1>3, <1>0, <2>3, Facts DEF ReadRevision, Goto
    <3>2. loc' = [loc EXCEPT ![u].now.rev = revision]
      BY <1>3, <2>3 DEF ReadRevision
    <3>3. /\ loc'[u].now.data = loc[u].now.data /\ loc'[u].now.rev = revision
          /\ loc'[u].seen = loc[u].seen
      BY <1>0, <3>2, Facts DEF Version
    <3>4. Known(loc[u].seen)' /\ Known(loc[u].now)'
      BY <1>0, <2>1, <3>3, Facts DEF TaskInv, StateInv, Known, Polling, store, history
    <3>5. QED
      BY <1>0, <2>1, <3>1, <3>3, <3>4, Facts
      DEF TaskInv, Polling, Polled, Locked, store, shared, history
  <2>4. QED
    BY <2>2, <2>3
<1>4. CASE SetSeen(u)
  BY <1>4, <1>0, Facts, VersionAssumption
  DEF SetSeen, Goto, Forget, AccountsNow, TaskInv, StateInv, Known, Locked, Polled,
      Polling, store, config, shared, tasks, history
<1>5. CASE Lock(u)
  BY <1>5, <1>0, Facts, VersionAssumption
  DEF Lock, Goto, Forget, AccountsNow, TaskInv, StateInv, Known, Locked, Polled,
      Polling, store, config, shared, tasks, history
<1>6. CASE BuildAccounts(u)
  BY <1>6, <1>0, Facts, VersionAssumption
  DEF BuildAccounts, Goto, AccountsNow, TaskInv, StateInv, Known, Locked, Polled,
      Polling, store, config, shared, tasks, history
<1>7. CASE Rebuild(u)
  BY <1>7, <1>0, Facts, VersionAssumption
  DEF Rebuild, Goto, AccountsNow, TaskInv, StateInv, Known, Locked, Polled, Polling,
      store, config, shared, tasks, history
<1>8. CASE Discover(u)
  BY <1>8, <1>0, Facts, VersionAssumption
  DEF Discover, Goto, AccountsNow, TaskInv, StateInv, Known, Locked, Polled, Polling,
      store, config, shared, tasks, history
<1>9. CASE Install(u)
  BY <1>9, <1>0, Facts, VersionAssumption
  DEF Install, Goto, Forget, AccountsNow, TaskInv, StateInv, Known, Locked, Polled,
      Polling, store, config, shared, tasks, history
<1>10. CASE Fail(u)
  BY <1>10, <1>0, Facts, VersionAssumption
  DEF Fail, Goto, Forget, AccountsNow, TaskInv, StateInv, Known, Locked, Polled,
      Polling, store, config, shared, tasks, history
<1>11. CASE u \in Request /\ Arrive(u)
  BY <1>11, <1>0, Facts
  DEF Arrive, Enter, Goto, TaskInv, StateInv, SeenNeverAhead, Known, Locked, Polled,
      Polling, store, config, shared, tasks, history
<1>12. CASE u \in Request /\ Read(u)
  BY <1>12, <1>0, Facts
  DEF Read, Goto, TaskInv, StateInv, SeenNeverAhead, Known, Locked, Polled, Polling,
      store, config, shared, tasks, history
<1>13. CASE u \in Request /\ Finish(u)
  BY <1>13, <1>0, Facts
  DEF Finish, Goto, TaskInv, StateInv, SeenNeverAhead, Known, Locked, Polled, Polling,
      store, config, shared, tasks, history
<1>14. CASE u = Watcher /\ TakeEvent
  BY <1>14, <1>0, Facts
  DEF TakeEvent, Enter, Goto, AccountsNow, TaskInv, StateInv, SeenNeverAhead, Known,
      Locked, Polled, Polling, store, config, shared, tasks, history
<1>15. CASE u = Watcher /\ ReloadConfig
  BY <1>15, <1>0, Facts
  DEF ReloadConfig, Goto, AccountsNow, TaskInv, StateInv, SeenNeverAhead, Known, Locked,
      Polled, Polling, store, config, shared, tasks, history
<1>16. CASE u = Watcher /\ ReloadAccounts
  BY <1>16, <1>0, Facts
  DEF ReloadAccounts, Goto, AccountsNow, TaskInv, StateInv, SeenNeverAhead, Known,
      Locked, Polled, Polling, store, config, shared, tasks, history
<1>17. CASE u = Watcher /\ ReloadSwap
  BY <1>17, <1>0, Facts
  DEF ReloadSwap, Goto, Forget, AccountsNow, TaskInv, StateInv, SeenNeverAhead, Known,
      Locked, Polled, Polling, store, config, shared, tasks, history
<1>18. QED
  BY OneActor, <1>1, <1>2, <1>3, <1>4, <1>5, <1>6, <1>7, <1>8, <1>9, <1>10, <1>11,
     <1>12, <1>13, <1>14, <1>15, <1>16, <1>17
  DEF Acts, Snapshot

\* A request keeps what it owes, whoever takes the step.
LEMMA RequestInvStep ==
    ASSUME TypeOK, TypeOK', TrackingInv, [Next]_vars, NEW r \in Request
    PROVE  RequestInv(r)'
<1>0. StoreGrows /\ r \in Worker /\ r \in Task /\ r # Main /\ r # Watcher
  BY StoreOnlyGrows, Facts
<1>0a. /\ TaskInv(r) /\ RequestInv(r) /\ start[r].foreign \in Nat /\ got[r].rev \in Nat
  BY <1>0, Facts DEF TypeOK, State
<1>1. CASE Untouched(r)
  <2>1. /\ pc'[r] = pc[r] /\ loc'[r] = loc[r] /\ failed'[r] = failed[r]
        /\ got'[r] = got[r] /\ start'[r] = start[r]
    BY <1>1 DEF Untouched
  <2>2. pc[r] # "idle" => pc'[Main] = "serving" /\ start[r].foreign <= lastForeign'
    BY <1>0, <1>0a, Facts DEF RequestInv, StoreGrows, TypeOK
  <2>3. ~failed[r] /\ ~failed'[Main] /\ ~overtaken' /\ pc[r] = "read" =>
          mem'.rev >= start[r].foreign
    BY <1>0, <1>0a, Facts DEF RequestInv, StoreGrows, TypeOK, State
  <2>4. QED
    BY <1>0, <1>0a, <2>1, <2>2, <2>3 DEF RequestInv, StoreGrows
<1>2. CASE ReadData(r)
  BY <1>2, <1>0, <1>0a, Facts, VersionAssumption
  DEF ReadData, Goto, AccountsNow, RequestInv, TaskInv, StateInv, Known, Locked, Polled,
      Polling, store, config, shared, tasks, history
<1>3. CASE ReadRevision(r)
  <2>1. /\ UNCHANGED <<store, shared, got, failed, history>>
        /\ pc'[Main] = pc[Main] /\ pc[r] = "rev"
    BY <1>3, <1>0, Facts DEF ReadRevision, Goto
  <2>2. CASE loc[r].now.data = loc[r].seen.data
    <3>1. pc'[r] = "read"
      BY <1>3, <1>0, <2>2, Facts DEF ReadRevision, Goto
    <3>2. QED
      BY <1>0a, <2>1, <2>2, <3>1, Facts
      DEF RequestInv, TaskInv, Polling, Polled, Locked, store, shared, history, TypeOK,
          State
  <2>3. CASE loc[r].now.data # loc[r].seen.data
    <3>1. pc'[r] \in {"touch", "lock"}
      BY <1>3, <1>0, <2>3, Facts DEF ReadRevision, Goto
    <3>2. loc'[r].now.rev = revision
      BY <1>3, <1>0, <2>3, Facts DEF ReadRevision, Version
    <3>3. QED
      BY <1>0a, <2>1, <3>1, <3>2, Facts DEF RequestInv, StateInv, Polled, Locked, history
  <2>4. QED
    BY <2>2, <2>3
<1>4. CASE SetSeen(r)
  BY <1>4, <1>0, <1>0a, Facts, VersionAssumption
  DEF SetSeen, Goto, Forget, AccountsNow, RequestInv, TaskInv, StateInv, Known, Locked,
      Polled, Polling, store, config, shared, tasks, history
<1>5. CASE Lock(r)
  BY <1>5, <1>0, <1>0a, Facts, VersionAssumption
  DEF Lock, Goto, Forget, AccountsNow, RequestInv, TaskInv, StateInv, Known, Locked,
      Polled, Polling, SeenNeverAhead, store, config, shared, tasks, history
<1>6. CASE BuildAccounts(r)
  BY <1>6, <1>0, <1>0a, Facts, VersionAssumption
  DEF BuildAccounts, Goto, AccountsNow, RequestInv, TaskInv, StateInv, Known, Locked,
      Polled, Polling, store, config, shared, tasks, history
<1>7. CASE Rebuild(r)
  BY <1>7, <1>0, <1>0a, Facts, VersionAssumption
  DEF Rebuild, Goto, AccountsNow, RequestInv, TaskInv, StateInv, Known, Locked, Polled,
      Polling, store, config, shared, tasks, history
<1>8. CASE Discover(r)
  BY <1>8, <1>0, <1>0a, Facts, VersionAssumption
  DEF Discover, Goto, AccountsNow, RequestInv, TaskInv, StateInv, Known, Locked, Polled,
      Polling, store, config, shared, tasks, history
<1>9. CASE Install(r)
  BY <1>9, <1>0, <1>0a, Facts, VersionAssumption
  DEF Install, Goto, Forget, AccountsNow, RequestInv, TaskInv, StateInv, Known, Locked,
      Polled, Polling, store, config, shared, tasks, history
<1>10. CASE Fail(r)
  BY <1>10, <1>0, <1>0a, Facts, VersionAssumption
  DEF Fail, Goto, Forget, AccountsNow, RequestInv, TaskInv, StateInv, Known, Locked,
      Polled, Polling, store, config, shared, tasks, history
<1>11. CASE Arrive(r)
  BY <1>11, <1>0, <1>0a, Facts, VersionAssumption
  DEF Arrive, Enter, Goto, AccountsNow, RequestInv, TaskInv, StateInv, Known, Locked,
      Polled, Polling, TypeOK, store, config, shared, tasks, history
<1>12. CASE Read(r)
  BY <1>12, <1>0, <1>0a, Facts, VersionAssumption
  DEF Read, Goto, AccountsNow, RequestInv, TaskInv, StateInv, Known, Locked, Polled,
      Polling, TypeOK, store, config, shared, tasks, history
<1>13. CASE Finish(r)
  BY <1>13, <1>0, <1>0a, Facts, VersionAssumption
  DEF Finish, Goto, AccountsNow, RequestInv, TaskInv, StateInv, Known, Locked, Polled,
      Polling, TypeOK, store, config, shared, tasks, history
<1>14. QED
  BY OneActor, <1>0, <1>1, <1>2, <1>3, <1>4, <1>5, <1>6, <1>7, <1>8, <1>9, <1>10,
     <1>11, <1>12, <1>13
  DEF Acts, Snapshot

\* Before start-up no task knows anything and nothing is owed.
LEMMA TrackingInvInit == Init => TrackingInv
<1> SUFFICES ASSUME Init PROVE TrackingInv
  OBVIOUS
<1>1. Main \in Task /\ pc[Main] = "down" /\ seen = NoVersion
  BY DEF Init, Task
<1>2. \A t \in Worker : pc[t] = "idle"
  BY TaskAssumption DEF Init, Worker, Task
<1>3. StateInv /\ SeenNeverAhead
  BY <1>1 DEF Init, StateInv, SeenNeverAhead, BlankState
<1>4. \A t \in Worker : TaskInv(t)
  BY <1>2 DEF TaskInv, Locked, Polled, Polling
<1>5. \A r \in Request : RequestInv(r)
  BY <1>2 DEF RequestInv, Polled, Locked, Worker
<1>6. QED
  BY <1>3, <1>4, <1>5 DEF TrackingInv

\* The invariant the two theorems below are read off.
LEMMA TrackingCorrect == Spec => []TrackingInv
<1>1. TypeOK /\ TypeOK' /\ TrackingInv /\ [Next]_vars => TrackingInv'
  <2> SUFFICES ASSUME TypeOK, TypeOK', TrackingInv, [Next]_vars PROVE TrackingInv'
    OBVIOUS
  <2>1. StateInv' /\ SeenNeverAhead'
    BY StateInvStep
  <2>2. \A u \in Worker : TaskInv(u)'
    BY TaskInvStep
  <2>3. \A r \in Request : RequestInv(r)'
    BY RequestInvStep
  <2>4. QED
    BY <2>1, <2>2, <2>3 DEF TrackingInv, Worker
<1>2. QED
  BY <1>1, TrackingInvInit, TypeCorrect, PTL DEF Spec

\* accounts_version is never ahead of the installed accounts, for any number of
\* requests, accounts and reloads: a poll that finds it current may serve them.
THEOREM VersionHonest == Spec => []SeenNeverAhead
<1>1. TrackingInv => SeenNeverAhead
  BY DEF TrackingInv
<1>2. QED
  BY <1>1, TrackingCorrect, PTL

\* The state `snapshot` returns holds every account change another process
\* committed before the request began.
THEOREM RequestsFresh == Spec => []FreshSnapshot
<1>1. TrackingInv => FreshSnapshot
  BY DEF TrackingInv, RequestInv, FreshSnapshot
<1>2. QED
  BY <1>1, TrackingCorrect, PTL

=============================================================================
