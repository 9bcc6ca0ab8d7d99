-------------------------- MODULE ApplicationProofs --------------------------
(***************************************************************************)
(* The resources of the process, for any requests, pool sizes and number   *)
(* of starts: types, no circular wait, one shared engine and pool, nothing *)
(* left open by a stop.                                                    *)
(*                                                                         *)
(* The argument.  Every open engine and pool is the one its global names   *)
(* (Owned), because the start builds both before any request runs, or,     *)
(* without a lifespan, because only one request runs at a time; and while  *)
(* requests run nobody resets the globals.  Whoever holds the row lock is  *)
(* past its last statement and has not closed its session (LockHeld), so   *)
(* it waits for nothing, and a full pool whose holders all wait would      *)
(* contain it.                                                             *)
(***************************************************************************)
EXTENDS Application, SequenceTheorems, FiniteSetTheorems, TLAPS

\* The globals against the engines and pools that are open.
SingletonsOwned ==
    /\ \A e \in 1 .. Len(engines) : engines[e] = "open" <=> e = engine
    /\ \A p \in 1 .. Len(pools) : pools[p] = "open" <=> p = pool
    /\ factory \in {None, engine}
    /\ ~lifespan => phase = "serving"
    /\ lifespan /\ phase \in {"serving", "draining"}
          => engine # None /\ pool # None
    /\ phase \in {"disposing", "down"} => engine = None
    /\ phase = "down" => pool = None

\* What a running request is bound to.
Bound(r) ==
    /\ phase \in {"serving", "draining"}
    /\ factory # None
    /\ task[r].session = factory
    /\ task[r].client \in {None, pool}
    /\ pc[r] = "buildpool" => pool = None

RequestsBound == \A r \in Requests : Running(r) => Bound(r)

OneAtATime ==
    ~lifespan => \A q, r \in Requests : Running(q) /\ Running(r) => q = r

Owned == SingletonsOwned /\ RequestsBound /\ OneAtATime

LockHeld ==
    lock # NULL => lock \in holds /\ pc[lock] \in {"write", "commit"}

\* The inductive invariant.
ApplicationInv == TypeOK /\ Owned /\ LockHeld

-----------------------------------------------------------------------------
(* Steps of one request that leave the globals alone. *)

Await == DbStep \cup RedisStep

Task == [op: Operation \cup {"none"},
         session: 0 .. Len(engines),
         client: 0 .. Len(pools)]

\* r alone moves; if it is still running, it was, and with the same bindings,
\* except for a client that it has just got.
Quiet(r) ==
    /\ UNCHANGED <<lifespan, phase, singletons>>
    /\ \E label \in Label \ {"idle"}, t \in Task :
           /\ pc' = [pc EXCEPT ![r] = label]
           /\ task' = [task EXCEPT ![r] = t]
           /\ label = "buildpool" => pool = None
           /\ label \notin {"failed", "done"} =>
                  /\ Running(r)
                  /\ t.session = task[r].session
                  /\ t.client \in {task[r].client, pool}

\* What r takes or gives back on the way.
HeldInv ==
    /\ holds \subseteq {r \in Requests : pc[r] \notin {"idle", "done"}}
    /\ redis \subseteq {r \in Requests : pc[r] \in RedisStep}
    /\ lock \in Requests \cup {NULL}
    /\ LockHeld

LEMMA QuietPreserves ==
    ASSUME ApplicationInv, NEW r \in Requests, Quiet(r), HeldInv'
    PROVE  ApplicationInv'
<1>1. PICK label \in Label \ {"idle"}, t \in Task :
          /\ pc' = [pc EXCEPT ![r] = label]
          /\ task' = [task EXCEPT ![r] = t]
          /\ label = "buildpool" => pool = None
          /\ label \notin {"failed", "done"} =>
                 /\ Running(r)
                 /\ t.session = task[r].session
                 /\ t.client \in {task[r].client, pool}
  BY DEF Quiet
<1>2. UNCHANGED <<lifespan, phase, engines, engine, factory, pools, pool>>
  BY DEF Quiet, singletons
<1>3. pc \in [Requests -> Label] /\ task \in [Requests -> Task]
  BY DEF ApplicationInv, TypeOK, Task
<1>4. TypeOK'
  BY <1>1, <1>2, <1>3 DEF ApplicationInv, TypeOK, HeldInv, Task
<1>5. \A q \in Requests : Running(q)' =>
          /\ Running(q)
          /\ task'[q].session = task[q].session
          /\ task'[q].client \in {task[q].client, pool}
          /\ pc'[q] = "buildpool" => pc[q] = "buildpool" \/ pool = None
  BY <1>1, <1>3 DEF Running
<1>6. SingletonsOwned'
  BY <1>2 DEF ApplicationInv, Owned, SingletonsOwned
<1>7. RequestsBound'
  BY <1>2, <1>5 DEF ApplicationInv, Owned, RequestsBound, Bound
<1>8. OneAtATime'
  BY <1>2, <1>5 DEF ApplicationInv, Owned, OneAtATime
<1> QED
  BY <1>4, <1>6, <1>7, <1>8 DEF ApplicationInv, Owned, HeldInv

\* An await goes on to a label of a started request, never to the pool accesses
\* except after SELECT 1, and after the write of the cache only to the commit.
LEMMA WhereAwaitsGo ==
    ASSUME NEW o, NEW label \in Await,
           NEW next \in Returned(o, label) \cup Raised(o, label)
    PROVE  /\ next \in Label \ {"idle", "buildpool", "bindpool", "done"}
           /\ label = "write" => next = "commit"
           /\ label = "flush" /\ next \in Returned(o, label) => next = "write"
<1>1. next \in Returned(o, label) \/ next = "failed"
  BY DEF Raised
<1>2. CASE label \in {"select1", "ping", "discard", "invalidate", "flush", "write"}
  BY <1>1, <1>2 DEF Returned, Raised, Label, DbStep, RedisStep
<1>3. CASE label = "getcache"
  BY <1>1, <1>3 DEF Returned, Raised, Loaded, Label, DbStep, RedisStep
<1>4. CASE label \in {"query", "check"}
  BY <1>1, <1>4 DEF Returned, Raised, Label, DbStep, RedisStep
<1>5. CASE label = "fill"
  BY <1>1, <1>5 DEF Returned, Raised, Loaded, Label, DbStep, RedisStep
<1> QED
  BY <1>2, <1>3, <1>4, <1>5 DEF Await, DbStep, RedisStep

LEMMA AwaitIsQuiet ==
    ASSUME ApplicationInv, NEW r \in Requests, pc[r] \in Await,
           Proceed(r) \/ Fail(r),
           UNCHANGED <<lifespan, phase, singletons>>
    PROVE  /\ Quiet(r)
           /\ \E next \in Label \ {"idle", "done"} :
                  /\ pc' = [pc EXCEPT ![r] = next]
                  /\ pc[r] = "write" => next = "commit"
                  /\ pc[r] = "flush" /\ Proceed(r) => next = "write"
<1>1. PICK next \in Returned(task[r].op, pc[r]) \cup Raised(task[r].op, pc[r]) :
          /\ Goto(r, next)
          /\ Proceed(r) => next \in Returned(task[r].op, pc[r])
  BY DEF Proceed, Fail
<1>2. /\ next \in Label \ {"idle", "buildpool", "bindpool", "done"}
      /\ pc[r] = "write" => next = "commit"
      /\ pc[r] = "flush" /\ Proceed(r) => next = "write"
  BY <1>1, WhereAwaitsGo
<1>3. task \in [Requests -> Task]
  BY DEF ApplicationInv, TypeOK, Task
<1>4. Running(r)
  BY DEF Await, DbStep, RedisStep, Running
<1> DEFINE t == IF next = "failed"
                THEN [op |-> "none", session |-> task[r].session,
                      client |-> None]
                ELSE task[r]
<1>5. pc' = [pc EXCEPT ![r] = next] /\ task' = [task EXCEPT ![r] = t]
  BY <1>1 DEF Goto
<1>6. t \in Task /\ (next # "failed" => t = task[r])
  BY <1>3 DEF Task, None
<1> HIDE DEF t
<1>7. Quiet(r)
  BY <1>2, <1>4, <1>5, <1>6 DEF Quiet
<1> QED
  BY <1>2, <1>5, <1>7

-----------------------------------------------------------------------------
(* The inductive step: the steps of a running request. *)

LEMMA TypesOfRequests ==
    ApplicationInv => /\ pc \in [Requests -> Label]
                      /\ task \in [Requests -> Task]
                      /\ HeldInv
  BY DEF ApplicationInv, TypeOK, Task, HeldInv

LEMMA AwaitStep ==
    ASSUME ApplicationInv, NEW r \in Requests,
           \/ SendCommand(r) \/ CommandEnds(r) \/ CheckOut(r) \/ CheckOutFails(r)
           \/ Select(r) \/ Flush(r) \/ FlushFails(r)
    PROVE  ApplicationInv'
<1>1. pc \in [Requests -> Label] /\ task \in [Requests -> Task] /\ HeldInv
  BY TypesOfRequests
<1>2. pc[r] \in Await /\ UNCHANGED <<lifespan, phase, singletons>>
  BY <1>1 DEF SendCommand, CommandEnds, CheckOut, CheckOutFails, Select, Flush,
              FlushFails, HeldInv, Await, DbStep
<1>3. pc[r] \notin {"idle", "failed", "done"} /\ (pc[r] \in DbStep => lock # r)
  BY <1>1, <1>2, ApplicationAssumption
  DEF Await, DbStep, RedisStep, HeldInv, LockHeld
<1>4. ASSUME UNCHANGED <<pc, task>>, HeldInv' PROVE ApplicationInv'
  <2>1. pc' = [pc EXCEPT ![r] = pc[r]] /\ task' = [task EXCEPT ![r] = task[r]]
    BY <1>1, <1>4
  <2>2. pc[r] # "buildpool" /\ Running(r)
    BY <1>2, <1>3 DEF Await, DbStep, RedisStep, Running
  <2>3. pc[r] \in Label \ {"idle"} /\ task[r] \in Task
    BY <1>1, <1>3
  <2>4. Quiet(r)
    BY <1>2, <2>1, <2>2, <2>3 DEF Quiet
  <2> QED
    BY <1>4, <2>4, QuietPreserves
<1>5. ASSUME Proceed(r) \/ Fail(r),
             redis' \subseteq redis \ {r}, holds' = holds, lock' = lock,
             r \in redis => redis' = redis \ {r}
      PROVE  ApplicationInv'
  <2>1. PICK next \in Label \ {"idle", "done"} :
            /\ pc' = [pc EXCEPT ![r] = next]
            /\ pc[r] = "write" => next = "commit"
    BY <1>2, <1>5, AwaitIsQuiet
  <2>2. LockHeld'
    BY <1>1, <1>2, <1>5, <2>1 DEF HeldInv, LockHeld, Await, DbStep, RedisStep
  <2>3. HeldInv'
    BY <1>1, <1>5, <2>1, <2>2 DEF HeldInv
  <2> QED
    BY <1>2, <1>5, <2>3, AwaitIsQuiet, QuietPreserves
<1>6. CASE SendCommand(r)
  <2>1. CASE redis' = redis \cup {r} /\ UNCHANGED <<pc, task>>
    <3>1. HeldInv'
      BY <1>1, <1>6, <2>1 DEF SendCommand, HeldInv, LockHeld
    <3> QED
      BY <1>4, <2>1, <3>1
  <2>2. CASE Fail(r) /\ UNCHANGED redis
    BY <1>5, <1>6, <2>2 DEF SendCommand
  <2> QED
    BY <1>6, <2>1, <2>2 DEF SendCommand
<1>7. CASE CommandEnds(r)
  BY <1>5, <1>7 DEF CommandEnds
<1>8. CASE CheckOut(r)
  <2>1. HeldInv' /\ UNCHANGED <<pc, task>>
    BY <1>1, <1>3, <1>8 DEF CheckOut, HeldInv, LockHeld
  <2> QED
    BY <1>4, <2>1
<1>9. CASE pc[r] \in DbStep /\ (Proceed(r) \/ Fail(r)) /\ UNCHANGED held
  <2>1. r \notin redis
    BY <1>1, <1>9 DEF HeldInv, DbStep, RedisStep
  <2> QED
    BY <1>5, <1>9, <2>1 DEF held
<1>10. CASE Flush(r)
  <2>1. PICK next \in Label \ {"idle", "done"} :
            pc' = [pc EXCEPT ![r] = next] /\ next = "write"
    BY <1>2, <1>10, AwaitIsQuiet DEF Flush
  <2>2. /\ holds' = holds /\ redis' = redis /\ r \in holds
        /\ lock' = r \/ lock' = lock
    BY <1>10 DEF Flush
  <2>3. LockHeld'
    BY <1>1, <2>1, <2>2 DEF HeldInv, LockHeld
  <2>4. r \notin redis
    BY <1>1, <1>10 DEF Flush, HeldInv, RedisStep
  <2>5. HeldInv'
    BY <1>1, <2>1, <2>2, <2>3, <2>4 DEF HeldInv
  <2> QED
    BY <1>2, <1>10, <2>5, AwaitIsQuiet, QuietPreserves DEF Flush
<1> QED
  BY <1>6, <1>7, <1>8, <1>9, <1>10
  DEF CheckOutFails, Select, FlushFails, DbStep, SendCommand

LEMMA EndStep ==
    ASSUME ApplicationInv, NEW r \in Requests, Commit(r) \/ Finalize(r)
    PROVE  ApplicationInv'
<1>1. pc \in [Requests -> Label] /\ task \in [Requests -> Task] /\ HeldInv
  BY TypesOfRequests
<1>2. GiveBack(r) /\ pc[r] \in {"commit", "failed"}
  BY DEF Commit, Finalize
<1>3. NoTask \in Task
  BY DEF NoTask, Task, None, ApplicationInv, TypeOK
<1>4. Quiet(r)
  BY <1>2, <1>3 DEF GiveBack, Quiet, Label
<1>5. r \notin redis
  BY <1>1, <1>2 DEF HeldInv, RedisStep
<1>6. HeldInv'
  BY <1>1, <1>2, <1>5 DEF GiveBack, HeldInv, LockHeld
<1> QED
  BY <1>4, <1>6, QuietPreserves

LEMMA PoolStep ==
    ASSUME ApplicationInv, NEW r \in Requests,
           CheckPool(r) \/ BuildPool(r) \/ ReturnPool(r)
    PROVE  ApplicationInv'
<1>1. pc \in [Requests -> Label] /\ task \in [Requests -> Task] /\ HeldInv
  BY TypesOfRequests
<1>2. pc[r] \in {"checkpool", "buildpool", "bindpool"} /\ UNCHANGED held
  BY DEF CheckPool, BuildPool, ReturnPool, BindClient
<1>3. Running(r) /\ r \notin redis /\ lock # r
  BY <1>1, <1>2, ApplicationAssumption DEF Running, HeldInv, RedisStep, LockHeld
<1>4. ASSUME NEW next \in Label \ {"idle", "done"},
             pc' = [pc EXCEPT ![r] = next]
      PROVE  HeldInv'
  BY <1>1, <1>2, <1>3, <1>4 DEF HeldInv, LockHeld, held
<1>5. CASE BindClient(r)
  <2>1. PICK next \in Label \ {"idle", "done", "failed", "buildpool"} :
            pc' = [pc EXCEPT ![r] = next]
    <3>1. PICK next \in {"ping", "flush", "getcache"} :
              pc' = [pc EXCEPT ![r] = next]
      BY <1>5 DEF BindClient
    <3> QED
      BY <3>1 DEF Label, DbStep, RedisStep
  <2> DEFINE t == [task[r] EXCEPT !.client = pool]
  <2>2. t \in Task /\ t.session = task[r].session /\ t.client = pool
    BY <1>1 DEF Task, ApplicationInv, TypeOK
  <2>3. task' = [task EXCEPT ![r] = t]
    BY <1>1, <1>5 DEF BindClient
  <2> HIDE DEF t
  <2>4. Quiet(r)
    BY <1>3, <1>5, <2>1, <2>2, <2>3 DEF Quiet, BindClient
  <2> QED
    BY <1>4, <2>1, <2>4, QuietPreserves
<1>6. CASE /\ pool = None /\ Goto(r, "buildpool")
           /\ UNCHANGED <<lifespan, phase, singletons>>
  <2>1. pc' = [pc EXCEPT ![r] = "buildpool"] /\ "buildpool" \in Label
    BY <1>6 DEF Goto, Label
  <2>2. task' = [task EXCEPT ![r] = task[r]] /\ task[r] \in Task
    BY <1>1, <1>6 DEF Goto
  <2>3. Quiet(r)
    BY <1>3, <1>6, <2>1, <2>2 DEF Quiet
  <2> QED
    BY <1>4, <2>1, <2>3, QuietPreserves
<1>7. CASE BuildPool(r)
  <2>1. /\ pc' = [pc EXCEPT ![r] = "bindpool"] /\ task' = task
        /\ UNCHANGED <<lifespan, phase, engines, engine, factory, holds, redis,
                       lock>>
        /\ pc[r] = "buildpool"
        /\ pools' = Append(pools, "open") /\ pool' = Len(pools) + 1
    BY <1>1, <1>7 DEF BuildPool, Goto, held
  <2>2. Bound(r) /\ pool = None /\ ~lifespan
    BY <1>3, <2>1
    DEF ApplicationInv, Owned, RequestsBound, Bound, SingletonsOwned
  <2>3. \A q \in Requests : Running(q) => q = r
    BY <1>3, <2>2 DEF ApplicationInv, Owned, OneAtATime
  <2>4. /\ pools \in Seq({"open", "closed"})
        /\ Len(pools) \in Nat
        /\ \A p \in 1 .. Len(pools) : pools[p] # "open"
    BY <2>2 DEF ApplicationInv, Owned, SingletonsOwned, TypeOK, None
  <2>5. /\ pools' \in Seq({"open", "closed"})
        /\ Len(pools') = Len(pools) + 1
        /\ \A p \in 1 .. Len(pools) : pools'[p] = pools[p]
        /\ pools'[Len(pools) + 1] = "open"
    BY <2>1, <2>4, AppendProperties
  <2>6. \A p \in 1 .. Len(pools') : pools'[p] = "open" <=> p = pool'
    BY <2>1, <2>4, <2>5
  <2>7. SingletonsOwned'
    BY <2>1, <2>2, <2>6 DEF ApplicationInv, Owned, SingletonsOwned
  <2>8. \A q \in Requests : Running(q)' => q = r
    BY <1>1, <2>1, <2>3 DEF Running
  <2>9. RequestsBound' /\ OneAtATime'
    BY <1>1, <2>1, <2>2, <2>8 DEF RequestsBound, OneAtATime, Bound, Running
  <2>10. HeldInv'
    BY <1>4, <2>1 DEF Label
  <2>11. TypeOK'
    <3>1. pc' \in [Requests -> Label]
      BY <1>1, <2>1 DEF Label
    <3>2. task' \in [Requests -> Task']
      BY <1>1, <2>1, <2>4, <2>5 DEF Task
    <3>3. pool' \in 0 .. Len(pools')
      BY <2>1, <2>4, <2>5
    <3> QED
      BY <2>1, <2>5, <2>10, <3>1, <3>2, <3>3
      DEF ApplicationInv, TypeOK, HeldInv, Task
  <2> QED
    BY <2>7, <2>9, <2>10, <2>11 DEF ApplicationInv, Owned, HeldInv
<1> QED
  BY <1>5, <1>6, <1>7 DEF CheckPool, ReturnPool

-----------------------------------------------------------------------------
(* The inductive step: the lifespan and the arrival of a request. *)

LEMMA GetEngineEffect ==
    ASSUME ApplicationInv, GetEngine
    PROVE  /\ engines' \in Seq({"open", "closed"})
           /\ engine' \in 1 .. Len(engines')
           /\ \A e \in 1 .. Len(engines') : engines'[e] = "open" <=> e = engine'
           /\ Len(engines) <= Len(engines')
           /\ engine # None => engine' = engine
<1>1. /\ engines \in Seq({"open", "closed"}) /\ Len(engines) \in Nat
      /\ engine \in 0 .. Len(engines)
      /\ \A e \in 1 .. Len(engines) : engines[e] = "open" <=> e = engine
  BY DEF ApplicationInv, TypeOK, Owned, SingletonsOwned
<1>2. CASE engine # None
  BY <1>1, <1>2 DEF GetEngine, None
<1>3. CASE engine = None
  <2>1. engines' = Append(engines, "open") /\ engine' = Len(engines) + 1
    BY <1>3 DEF GetEngine
  <2>2. /\ engines' \in Seq({"open", "closed"})
        /\ Len(engines') = Len(engines) + 1
        /\ \A e \in 1 .. Len(engines) : engines'[e] = engines[e]
        /\ engines'[Len(engines) + 1] = "open"
    BY <1>1, <2>1, AppendProperties
  <2> QED
    BY <1>1, <1>3, <2>1, <2>2 DEF None
<1> QED
  BY <1>2, <1>3

LEMMA GetPoolEffect ==
    ASSUME ApplicationInv, GetPool
    PROVE  /\ pools' \in Seq({"open", "closed"})
           /\ pool' \in 1 .. Len(pools')
           /\ \A p \in 1 .. Len(pools') : pools'[p] = "open" <=> p = pool'
           /\ Len(pools) <= Len(pools')
<1>1. /\ pools \in Seq({"open", "closed"}) /\ Len(pools) \in Nat
      /\ pool \in 0 .. Len(pools)
      /\ \A p \in 1 .. Len(pools) : pools[p] = "open" <=> p = pool
  BY DEF ApplicationInv, TypeOK, Owned, SingletonsOwned
<1>2. CASE pool # None
  BY <1>1, <1>2 DEF GetPool, None
<1>3. CASE pool = None
  <2>1. pools' = Append(pools, "open") /\ pool' = Len(pools) + 1
    BY <1>3 DEF GetPool
  <2>2. /\ pools' \in Seq({"open", "closed"})
        /\ Len(pools') = Len(pools) + 1
        /\ \A p \in 1 .. Len(pools) : pools'[p] = pools[p]
        /\ pools'[Len(pools) + 1] = "open"
    BY <1>1, <2>1, AppendProperties
  <2> QED
    BY <1>1, <1>3, <2>1, <2>2 DEF None
<1> QED
  BY <1>2, <1>3

\* Tasks stay typed when engines and pools are added or closed.
LEMMA TaskMonotone ==
    ASSUME ApplicationInv, UNCHANGED task,
           Len(engines') \in Nat, Len(engines) <= Len(engines'),
           Len(pools') \in Nat, Len(pools) <= Len(pools')
    PROVE  task' \in [Requests -> Task']
<1>1. task \in [Requests -> Task]
  BY TypesOfRequests
<1>2. Len(engines) \in Nat /\ Len(pools) \in Nat
  BY DEF ApplicationInv, TypeOK
<1> QED
  BY <1>1, <1>2 DEF Task

LEMMA StartupStep == ASSUME ApplicationInv, Startup PROVE ApplicationInv'
<1>1. /\ phase = "down" /\ lifespan /\ phase' = "serving"
      /\ UNCHANGED <<lifespan, factory, pc, task, holds, redis, lock>>
  BY DEF Startup, held
<1>2. engine = None /\ factory = None
  BY <1>1 DEF ApplicationInv, Owned, SingletonsOwned
<1>3. \A r \in Requests : ~Running(r)
  BY <1>1 DEF ApplicationInv, Owned, RequestsBound, Bound
<1>4. /\ engines' \in Seq({"open", "closed"}) /\ engine' \in 1 .. Len(engines')
      /\ \A e \in 1 .. Len(engines') : engines'[e] = "open" <=> e = engine'
      /\ Len(engines) <= Len(engines')
  BY GetEngineEffect DEF Startup
<1>5. /\ pools' \in Seq({"open", "closed"}) /\ pool' \in 1 .. Len(pools')
      /\ \A p \in 1 .. Len(pools') : pools'[p] = "open" <=> p = pool'
      /\ Len(pools) <= Len(pools')
  BY GetPoolEffect DEF Startup
<1>6. task' \in [Requests -> Task']
  BY <1>1, <1>4, <1>5, TaskMonotone
<1>7. TypeOK'
  BY <1>1, <1>2, <1>4, <1>5, <1>6 DEF ApplicationInv, TypeOK, Task, None
<1>8. SingletonsOwned'
  BY <1>1, <1>2, <1>4, <1>5 DEF SingletonsOwned, None
<1>9. RequestsBound' /\ OneAtATime' /\ LockHeld'
  BY <1>1, <1>3
  DEF RequestsBound, OneAtATime, Running, ApplicationInv, LockHeld
<1> QED
  BY <1>7, <1>8, <1>9 DEF ApplicationInv, Owned

LEMMA BeginShutdownStep ==
    ASSUME ApplicationInv, BeginShutdown PROVE ApplicationInv'
<1>1. /\ lifespan /\ phase = "serving" /\ phase' = "draining"
      /\ UNCHANGED <<lifespan, engines, engine, factory, pools, pool, pc, task,
                     holds, redis, lock>>
  BY DEF BeginShutdown, singletons, held
<1>2. TypeOK' /\ LockHeld'
  BY <1>1 DEF ApplicationInv, TypeOK, LockHeld
<1>3. SingletonsOwned'
  BY <1>1 DEF ApplicationInv, Owned, SingletonsOwned
<1>4. RequestsBound' /\ OneAtATime'
  BY <1>1 DEF ApplicationInv, Owned, RequestsBound, Bound, OneAtATime, Running
<1> QED
  BY <1>2, <1>3, <1>4 DEF ApplicationInv, Owned

LEMMA DisposeEngineStep ==
    ASSUME ApplicationInv, DisposeEngine PROVE ApplicationInv'
<1>1. /\ phase = "draining" /\ phase' = "disposing"
      /\ \A r \in Requests : ~Running(r)
      /\ UNCHANGED <<lifespan, pools, pool, pc, task, holds, redis, lock>>
  BY DEF DisposeEngine, held
<1>2. lifespan /\ engine # None /\ pool # None
  BY <1>1 DEF ApplicationInv, Owned, SingletonsOwned
<1>3. /\ engines \in Seq({"open", "closed"}) /\ engine \in 1 .. Len(engines)
      /\ \A e \in 1 .. Len(engines) : engines[e] = "open" <=> e = engine
  BY <1>2 DEF ApplicationInv, TypeOK, Owned, SingletonsOwned, None
<1>4. /\ engines' = [engines EXCEPT ![engine] = "closed"]
      /\ engine' = None /\ factory' = None
  BY <1>2 DEF DisposeEngine
<1>5. /\ engines' \in Seq({"open", "closed"}) /\ Len(engines') = Len(engines)
      /\ \A e \in 1 .. Len(engines) :
             engines'[e] = IF e = engine THEN "closed" ELSE engines[e]
  BY <1>3, <1>4, ExceptSeq
<1>6. task' \in [Requests -> Task']
  BY <1>1, <1>5, TaskMonotone DEF ApplicationInv, TypeOK
<1>7. TypeOK' /\ LockHeld'
  BY <1>1, <1>4, <1>5, <1>6 DEF ApplicationInv, TypeOK, LockHeld, Task, None
<1>8. SingletonsOwned'
  BY <1>1, <1>2, <1>3, <1>4, <1>5
  DEF ApplicationInv, Owned, SingletonsOwned, None
<1>9. RequestsBound' /\ OneAtATime'
  BY <1>1 DEF RequestsBound, OneAtATime, Running
<1> QED
  BY <1>7, <1>8, <1>9 DEF ApplicationInv, Owned

LEMMA DisposeRedisStep ==
    ASSUME ApplicationInv, DisposeRedis PROVE ApplicationInv'
<1>1. /\ phase = "disposing" /\ phase' = "down"
      /\ UNCHANGED <<lifespan, engines, engine, factory, pc, task, holds, redis,
                     lock>>
  BY DEF DisposeRedis, held
<1>2. lifespan /\ engine = None
  BY <1>1 DEF ApplicationInv, Owned, SingletonsOwned
<1>3. /\ pools \in Seq({"open", "closed"}) /\ pool \in 0 .. Len(pools)
      /\ \A p \in 1 .. Len(pools) : pools[p] = "open" <=> p = pool
  BY DEF ApplicationInv, TypeOK, Owned, SingletonsOwned
<1>4. /\ pools' \in Seq({"open", "closed"}) /\ Len(pools') = Len(pools)
      /\ pool' = None /\ \A p \in 1 .. Len(pools) : pools'[p] # "open"
  <2>1. CASE pool = None
    BY <1>3, <2>1 DEF DisposeRedis, None
  <2>2. CASE pool # None
    <3>1. /\ pools' = [pools EXCEPT ![pool] = "closed"] /\ pool' = None
          /\ pool \in 1 .. Len(pools)
      BY <1>3, <2>2 DEF DisposeRedis, None
    <3>2. /\ pools' \in Seq({"open", "closed"}) /\ Len(pools') = Len(pools)
          /\ \A p \in 1 .. Len(pools) :
                 pools'[p] = IF p = pool THEN "closed" ELSE pools[p]
      BY <1>3, <3>1, ExceptSeq
    <3> QED
      BY <1>3, <3>1, <3>2
  <2> QED
    BY <2>1, <2>2
<1>5. task' \in [Requests -> Task']
  BY <1>1, <1>4, TaskMonotone DEF ApplicationInv, TypeOK
<1>6. TypeOK' /\ LockHeld'
  BY <1>1, <1>4, <1>5 DEF ApplicationInv, TypeOK, LockHeld, Task, None
<1>7. SingletonsOwned'
  BY <1>1, <1>2, <1>4 DEF ApplicationInv, Owned, SingletonsOwned, None
<1>8. \A r \in Requests : ~Running(r)
  BY <1>1 DEF ApplicationInv, Owned, RequestsBound, Bound
<1>9. RequestsBound' /\ OneAtATime'
  BY <1>1, <1>8 DEF RequestsBound, OneAtATime, Running
<1> QED
  BY <1>6, <1>7, <1>9 DEF ApplicationInv, Owned

LEMMA ArriveStep ==
    ASSUME ApplicationInv, NEW r \in Requests, Arrive(r)
    PROVE  ApplicationInv'
<1>1. pc \in [Requests -> Label] /\ task \in [Requests -> Task] /\ HeldInv
  BY TypesOfRequests
<1>2. /\ phase = "serving" /\ pc[r] = "idle"
      /\ lifespan \/ \A q \in Requests : ~Running(q)
      /\ UNCHANGED <<lifespan, phase, pools, pool, holds, redis, lock>>
  BY DEF Arrive, held
<1>3. PICK o \in Operation, next \in {"select1", "checkpool"} :
          /\ task' = [task EXCEPT ![r] = [op |-> o, session |-> factory',
                                         client |-> None]]
          /\ pc' = [pc EXCEPT ![r] = next]
  BY DEF Arrive
<1>4. /\ engines \in Seq({"open", "closed"}) /\ Len(engines) \in Nat
      /\ engine \in 0 .. Len(engines) /\ factory \in {None, engine}
      /\ \A e \in 1 .. Len(engines) : engines[e] = "open" <=> e = engine
  BY DEF ApplicationInv, TypeOK, Owned, SingletonsOwned
<1>5. /\ engines' \in Seq({"open", "closed"}) /\ Len(engines) <= Len(engines')
      /\ engine' \in 1 .. Len(engines') /\ factory' = engine'
      /\ \A e \in 1 .. Len(engines') : engines'[e] = "open" <=> e = engine'
      /\ engine # None => engine' = engine
      /\ factory # None => factory' = factory
  <2>1. CASE factory # None
    BY <1>4, <2>1 DEF Arrive, GetSessionFactory, None
  <2>2. CASE factory = None
    <3>1. GetEngine /\ factory' = engine'
      BY <2>2 DEF Arrive, GetSessionFactory
    <3> QED
      BY <2>2, <3>1, GetEngineEffect
  <2> QED
    BY <2>1, <2>2
<1>6. \A q \in Requests \ {r} : pc'[q] = pc[q] /\ task'[q] = task[q]
  BY <1>1, <1>3
<1>7. /\ pc'[r] = next /\ task'[r].session = factory' /\ task'[r].client = None
      /\ task'[r].op = o
  BY <1>1, <1>3
<1>8. HeldInv'
  <2>1. r \notin holds /\ r \notin redis
    BY <1>1, <1>2 DEF HeldInv, RedisStep
  <2> QED
    BY <1>1, <1>2, <1>6, <2>1 DEF HeldInv, LockHeld
<1>9. TypeOK'
  <2>1. pc' \in [Requests -> Label]
    BY <1>1, <1>3 DEF Label, DbStep
  <2>2. task' \in [Requests -> Task']
    <3>1. pools' = pools /\ Len(pools) \in Nat /\ Len(engines') \in Nat
      BY <1>2, <1>5 DEF ApplicationInv, TypeOK
    <3>2. \A t \in Task : t \in Task'
      BY <1>4, <1>5, <3>1 DEF Task
    <3>3. [op |-> o, session |-> factory', client |-> None] \in Task'
      BY <1>5, <3>1 DEF Task, None
    <3> QED
      BY <1>1, <1>3, <3>2, <3>3
  <2> QED
    BY <1>2, <1>5, <1>8, <2>1, <2>2 DEF ApplicationInv, TypeOK, HeldInv, Task
<1>10. SingletonsOwned'
  BY <1>2, <1>4, <1>5 DEF ApplicationInv, Owned, SingletonsOwned, None
<1>11. RequestsBound'
  <2>1. Bound(r)'
    BY <1>2, <1>5, <1>7 DEF Bound, None
  <2>2. ASSUME NEW q \in Requests \ {r}, Running(q)' PROVE Bound(q)'
    <3>1. Running(q) /\ Bound(q)
      BY <1>6, <2>2 DEF Running, ApplicationInv, Owned, RequestsBound
    <3> QED
      BY <1>2, <1>5, <1>6, <3>1 DEF Bound
  <2> QED
    BY <2>1, <2>2 DEF RequestsBound
<1>12. OneAtATime'
  BY <1>2, <1>6 DEF ApplicationInv, Owned, OneAtATime, Running
<1> QED
  BY <1>8, <1>9, <1>10, <1>11, <1>12 DEF ApplicationInv, Owned, HeldInv

-----------------------------------------------------------------------------
(* The invariant and the theorems. *)

LEMMA InitHolds == Init => ApplicationInv
<1> SUFFICES ASSUME Init PROVE ApplicationInv
  OBVIOUS
<1>1. \A r \in Requests : ~Running(r)
  BY DEF Init, Running
<1>2. engines = <<>> /\ pools = <<>> /\ Len(engines) = 0 /\ Len(pools) = 0
  BY DEF Init
<1>3. TypeOK
  BY <1>2 DEF Init, TypeOK, Label, NoTask, None
<1>4. Owned
  BY <1>1, <1>2
  DEF Init, Owned, SingletonsOwned, RequestsBound, OneAtATime, None
<1> QED
  BY <1>3, <1>4 DEF Init, ApplicationInv, LockHeld

LEMMA NextPreserves == ApplicationInv /\ [Next]_vars => ApplicationInv'
<1> SUFFICES ASSUME ApplicationInv, [Next]_vars PROVE ApplicationInv'
  OBVIOUS
<1>1. CASE Startup \/ BeginShutdown \/ Dispose
  BY <1>1, StartupStep, BeginShutdownStep, DisposeEngineStep, DisposeRedisStep
  DEF Dispose
<1>2. ASSUME NEW r \in Requests,
             Arrive(r) \/ Serve(r) \/ CheckOutFails(r) \/ FlushFails(r)
      PROVE  ApplicationInv'
  BY <1>2, ArriveStep, PoolStep, AwaitStep, EndStep DEF Serve
<1>3. CASE UNCHANGED vars
  BY <1>3
  DEF vars, singletons, held, ApplicationInv, TypeOK, Owned, SingletonsOwned,
      RequestsBound, Bound, OneAtATime, Running, LockHeld
<1> QED
  BY <1>1, <1>2, <1>3 DEF Next, AtRest

LEMMA AlwaysOwned == Spec => []ApplicationInv
<1>1. ApplicationInv /\ [Next]_vars => ApplicationInv'
  BY NextPreserves
<1> QED
  BY <1>1, InitHolds, PTL DEF Spec

\* The globals, the requests and what they hold keep their types; in particular a
\* request that is over holds no connection.
THEOREM ApplicationTypeCorrect == Spec => []TypeOK
<1>1. ApplicationInv => TypeOK
  BY DEF ApplicationInv
<1> QED
  BY <1>1, AlwaysOwned, PTL

\* For any pool sizes, nobody waits in a circle for connections and the row lock.
THEOREM WaitsAreNotCircular == Spec => []NoCircularWait
<1>1. ApplicationInv => NoCircularWait
  <2> SUFFICES ASSUME ApplicationInv PROVE NoCircularWait
    OBVIOUS
  <2>1. lock # NULL => lock \in holds /\ ~Waits(lock) /\ Running(lock)
    BY DEF ApplicationInv, LockHeld, Waits, WaitsForConnection, WaitsForRow,
           DbStep, Running
  <2>2. ASSUME NEW r \in Requests, WaitsForConnection(r)
        PROVE  \E q \in holds : task[q].session = task[r].session /\ ~Waits(q)
    <3> DEFINE H == {q \in holds : task[q].session = task[r].session}
    <3>1. PICK q \in H : TRUE
      <4>1. ~(Cardinality(H) < DbLimit)
        BY <2>2 DEF WaitsForConnection, ConnectionFree
      <4>2. H # {}
        BY <4>1, FS_EmptySet, ApplicationAssumption
      <4> QED
        BY <4>2
    <3>2. CASE ~Waits(q)
      BY <3>1, <3>2
    <3>3. CASE Waits(q)
      <4>1. lock # NULL
        BY <3>1, <3>3 DEF Waits, WaitsForConnection, WaitsForRow
      <4>2. lock \in Requests /\ Running(r)
        BY <2>2, <4>1
        DEF WaitsForConnection, DbStep, Running, ApplicationInv, TypeOK
      <4>3. task[lock].session = task[r].session
        BY <2>1, <4>1, <4>2 DEF ApplicationInv, Owned, RequestsBound, Bound
      <4> QED
        BY <2>1, <4>1, <4>3
    <3> QED
      BY <3>2, <3>3
  <2> QED
    BY <2>1, <2>2 DEF NoCircularWait
<1> QED
  BY <1>1, AlwaysOwned, PTL

\* Every running request works on the one open engine and pool.
THEOREM PoolsAreShared == Spec => []SharedPools
<1>1. ApplicationInv => SharedPools
  <2> SUFFICES ASSUME ApplicationInv, NEW r \in Requests, Running(r)
               PROVE  /\ task[r].session = engine
                      /\ engines[engine] = "open"
                      /\ task[r].client # None =>
                             task[r].client = pool /\ pools[pool] = "open"
    BY DEF SharedPools
  <2>1. Bound(r) /\ SingletonsOwned /\ TypeOK
    BY DEF ApplicationInv, Owned, RequestsBound
  <2>2. task[r].session = engine /\ engine \in 1 .. Len(engines)
    BY <2>1 DEF Bound, SingletonsOwned, TypeOK, None
  <2>3. task[r].client # None => task[r].client = pool /\ pool \in 1 .. Len(pools)
    BY <2>1 DEF Bound, TypeOK, None
  <2> QED
    BY <2>1, <2>2, <2>3 DEF SingletonsOwned
<1> QED
  BY <1>1, AlwaysOwned, PTL

\* A stopped application has closed every engine and pool it ever built.
THEOREM StopClosesEverything == Spec => []NothingLeftOpen
<1>1. ApplicationInv => NothingLeftOpen
  <2> SUFFICES ASSUME ApplicationInv, phase = "down" PROVE NothingLeftOpen
    BY DEF NothingLeftOpen
  <2>1. engine = None /\ pool = None /\ SingletonsOwned /\ TypeOK
    BY DEF ApplicationInv, Owned, SingletonsOwned
  <2>2. /\ \A e \in 1 .. Len(engines) : engines[e] \in {"open", "closed"}
        /\ \A p \in 1 .. Len(pools) : pools[p] \in {"open", "closed"}
    BY <2>1 DEF TypeOK
  <2> QED
    BY <2>1, <2>2 DEF SingletonsOwned, NothingLeftOpen, None
<1> QED
  BY <1>1, AlwaysOwned, PTL
=============================================================================
