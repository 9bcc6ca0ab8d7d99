----------------------------- MODULE Application -----------------------------
(***************************************************************************)
(* The process around the sessions: the start and stop of the application, *)
(* the engine, session factory and Redis pool it builds lazily and shares, *)
(* and the connections each request takes from the two pools.              *)
(*                                                                         *)
(* A request runs the same awaits as in SessionStore (the transition is    *)
(* not exposed over HTTP), but what they return is left open: here only    *)
(* the resources a request holds while it awaits matter.  All the requests *)
(* that write to a session write to the same one, the contended case.      *)
(***************************************************************************)
EXTENDS Integers, FiniteSets, Sequences

CONSTANTS
    NULL,        \* nobody
    Requests,
    DbLimit,     \* db_pool_size + db_max_overflow
    RedisLimit,  \* redis_max_connections
    MaxStarts    \* bound on the starts of the application in one process

ASSUME ApplicationAssumption ==
    /\ NULL \notin Requests
    /\ DbLimit \in Nat \ {0}
    /\ RedisLimit \in Nat \ {0}
    /\ MaxStarts \in Nat

VARIABLES
    lifespan,  \* whether the server runs the lifespan: uvicorn does, the
               \* ASGITransport of the API tests does not
    phase,     \* "down", "serving", "draining" or "disposing"
    engines,   \* every engine built so far, "open" or "closed"
    engine,    \* _engine, as an index into engines
    factory,   \* the engine _session_factory is bound to
    pools,     \* every Redis pool built so far, "open" or "closed"
    pool,      \* _pool
    pc,        \* where each request is
    task,      \* what it asks for, the engine its AsyncSession is bound to and
               \* the pool its Redis client is bound to
    holds,     \* the requests with a database connection checked out
    redis,     \* the requests with a Redis command in progress
    lock       \* the request whose transaction holds the row lock, or NULL

singletons == <<engines, engine, factory, pools, pool>>
held == <<holds, redis, lock>>
vars == <<lifespan, phase, singletons, pc, task, held>>

None == 0    \* a singleton that is None

Operation == {"start", "get", "message", "ready"}

DbStep == {"select1", "query", "check", "flush"}
RedisStep == {"getcache", "discard", "fill", "invalidate", "write", "ping"}
NoTask == [op |-> "none", session |-> None, client |-> None]

Label == DbStep \cup RedisStep \cup
         {"idle", "checkpool", "buildpool", "bindpool", "commit", "failed",
          "done"}

\* "failed": answered with an error, the generator of get_db_session not yet
\* closed.  The server waits for the requests, not for the generators.
Running(r) == pc[r] \notin {"idle", "failed", "done"}

TypeOK ==
    /\ lifespan \in BOOLEAN
    /\ phase \in {"down", "serving", "draining", "disposing"}
    /\ engines \in Seq({"open", "closed"})
    /\ pools \in Seq({"open", "closed"})
    /\ {engine, factory} \subseteq 0 .. Len(engines)
    /\ pool \in 0 .. Len(pools)
    /\ pc \in [Requests -> Label]
    /\ task \in [Requests -> [op: Operation \cup {"none"},
                               session: 0 .. Len(engines),
                               client: 0 .. Len(pools)]]
    /\ holds \subseteq {r \in Requests : pc[r] \notin {"idle", "done"}}
    /\ redis \subseteq {r \in Requests : pc[r] \in RedisStep}
    /\ lock \in Requests \cup {NULL}

Init ==
    /\ lifespan \in BOOLEAN
    /\ phase = IF lifespan THEN "down" ELSE "serving"
    /\ engines = <<>> /\ engine = None /\ factory = None
    /\ pools = <<>> /\ pool = None
    /\ pc = [r \in Requests |-> "idle"]
    /\ task = [r \in Requests |-> NoTask]
    /\ holds = {} /\ redis = {} /\ lock = NULL

\* The Redis client of a failed request is garbage, its AsyncSession not yet.
Goto(r, label) ==
    /\ pc' = [pc EXCEPT ![r] = label]
    /\ task' = [task EXCEPT ![r] =
                   IF label = "failed"
                   THEN [op |-> "none", session |-> @.session, client |-> None]
                   ELSE @]

-----------------------------------------------------------------------------
(* The lazily built singletons. *)

GetEngine ==
    IF engine # None
    THEN UNCHANGED <<engines, engine>>
    ELSE /\ engines' = Append(engines, "open")
         /\ engine' = Len(engines) + 1

GetSessionFactory ==
    IF factory # None
    THEN UNCHANGED <<engines, engine, factory>>
    ELSE GetEngine /\ factory' = engine'

\* get_redis_pool at startup, when nothing else runs.
GetPool ==
    IF pool # None
    THEN UNCHANGED <<pools, pool>>
    ELSE /\ pools' = Append(pools, "open")
         /\ pool' = Len(pools) + 1

-----------------------------------------------------------------------------
(* The lifespan.  A definition marked "mutant" is the one below it with a  *)
(* plausible slip.                                                         *)

StartupLazily ==               \* mutant: the pools are left to the requests
    /\ lifespan /\ phase = "down"
    /\ Len(engines) < MaxStarts
    /\ phase' = "serving"
    /\ UNCHANGED <<lifespan, singletons, pc, task, held>>

Startup ==
    /\ lifespan /\ phase = "down"
    /\ Len(engines) < MaxStarts
    /\ phase' = "serving"
    /\ GetEngine
    /\ GetPool
    /\ UNCHANGED <<lifespan, factory, pc, task, held>>

\* SIGTERM: the server takes no more requests and waits for the running ones.
BeginShutdown ==
    /\ lifespan /\ phase = "serving"
    /\ phase' = "draining"
    /\ UNCHANGED <<lifespan, singletons, pc, task, held>>

DisposeEngineOnly ==           \* mutant: the session factory is not reset
    /\ phase = "draining"
    /\ \A r \in Requests : ~Running(r)
    /\ phase' = "disposing"
    /\ IF engine = None
       THEN UNCHANGED <<engines, engine>>
       ELSE /\ engines' = [engines EXCEPT ![engine] = "closed"]
            /\ engine' = None
    /\ UNCHANGED <<lifespan, factory, pools, pool, pc, task, held>>

DisposeEngine ==
    /\ phase = "draining"
    /\ \A r \in Requests : ~Running(r)
    /\ phase' = "disposing"
    /\ IF engine = None
       THEN UNCHANGED <<engines, engine, factory>>
       ELSE /\ engines' = [engines EXCEPT ![engine] = "closed"]
            /\ engine' = None
            /\ factory' = None
    /\ UNCHANGED <<lifespan, pools, pool, pc, task, held>>

DisposeRedis ==
    /\ phase = "disposing"
    /\ phase' = "down"
    /\ IF pool = None
       THEN UNCHANGED <<pools, pool>>
       ELSE /\ pools' = [pools EXCEPT ![pool] = "closed"]
            /\ pool' = None
    /\ UNCHANGED <<lifespan, engines, engine, factory, pc, task, held>>

-----------------------------------------------------------------------------
(* The dependencies of a request. *)

\* db_session_dep opens an AsyncSession, which takes no connection yet.  The
\* tests, which have no lifespan, wait for each answer before the next request.
Arrive(r) ==
    /\ phase = "serving"
    /\ lifespan \/ \A q \in Requests : ~Running(q)
    /\ pc[r] = "idle"
    /\ GetSessionFactory
    /\ \E o \in Operation :
           /\ task' = [task EXCEPT ![r] = [op |-> o, session |-> factory',
                                           client |-> None]]
           /\ pc' = [pc EXCEPT ![r] = IF o = "ready" THEN "select1"
                                      ELSE "checkpool"]
    /\ UNCHANGED <<lifespan, phase, pools, pool, held>>

BindClient(r) ==
    /\ task' = [task EXCEPT ![r].client = pool]
    /\ pc' = [pc EXCEPT ![r] = CASE task[r].op = "ready" -> "ping"
                                 [] task[r].op = "start" -> "flush"
                                 [] OTHER -> "getcache"]
    /\ UNCHANGED <<lifespan, phase, singletons, held>>

\* redis_dep is a plain function, which FastAPI runs in a worker thread: other
\* threads and the event loop run between any two of its accesses to _pool.  A
\* check that finds a pool can be put at the moment of the `return', which reads
\* _pool again: nobody sets it to None while a request runs.
CheckPool(r) ==
    /\ pc[r] = "checkpool"
    /\ IF pool # None
       THEN BindClient(r)
       ELSE /\ Goto(r, "buildpool")
            /\ UNCHANGED <<lifespan, phase, singletons, held>>

BuildPool(r) ==
    /\ pc[r] = "buildpool"
    /\ pools' = Append(pools, "open")
    /\ pool' = Len(pools) + 1
    /\ Goto(r, "bindpool")
    /\ UNCHANGED <<lifespan, phase, engines, engine, factory, held>>

ReturnPool(r) ==
    /\ pc[r] = "bindpool"
    /\ BindClient(r)

-----------------------------------------------------------------------------
(* The awaits of the endpoints, the service and the repository. *)

\* What comes after the session is loaded; handle_user_message may refuse.
Loaded(o) == IF o = "get" THEN {"commit"} ELSE {"check", "failed"}

\* Where a request may go on when the await at `label' returns ...
Returned(o, label) ==
    CASE label = "select1"    -> {"checkpool"}
      [] label = "ping"       -> {"commit"}
      [] label = "getcache"   -> Loaded(o) \cup {"query", "discard"}
      [] label = "discard"    -> {"query"}
      [] label = "query"      -> {"fill", "failed"}
      [] label = "fill"       -> Loaded(o)
      [] label = "check"      -> {"flush", "invalidate", "failed"}
      [] label = "invalidate" -> {"failed"}
      [] label = "flush"      -> {"write"}
      [] label = "write"      -> {"commit"}

\* ... and when it raises: the probes and the cache writes swallow exceptions.
Raised(o, label) ==
    IF label \in {"getcache", "query", "check", "flush"}
    THEN {"failed"}
    ELSE Returned(o, label)

Proceed(r) == \E label \in Returned(task[r].op, pc[r]) : Goto(r, label)

Fail(r) == \E label \in Raised(task[r].op, pc[r]) : Goto(r, label)

\* The Redis pool does not wait: with every connection in use it raises.
SendCommand(r) ==
    /\ pc[r] \in RedisStep
    /\ r \notin redis
    /\ IF Cardinality({q \in redis : task[q].client = task[r].client})
          < RedisLimit
       THEN redis' = redis \cup {r} /\ UNCHANGED <<pc, task>>
       ELSE Fail(r) /\ UNCHANGED redis
    /\ UNCHANGED <<lifespan, phase, singletons, holds, lock>>

CommandEndsLeaking(r) ==       \* mutant: no connection given back on an error
    /\ r \in redis
    /\ \/ Proceed(r) /\ redis' = redis \ {r}
       \/ Fail(r) /\ UNCHANGED redis
    /\ UNCHANGED <<lifespan, phase, singletons, holds, lock>>

CommandEnds(r) ==
    /\ r \in redis
    /\ redis' = redis \ {r}
    /\ Proceed(r) \/ Fail(r)
    /\ UNCHANGED <<lifespan, phase, singletons, holds, lock>>

ConnectionFree(r) ==
    Cardinality({q \in holds : task[q].session = task[r].session}) < DbLimit

\* The first statement of an AsyncSession checks a connection out, waiting for
\* one if the pool is empty; the session keeps it until it commits or closes.
CheckOut(r) ==
    /\ pc[r] \in DbStep
    /\ r \notin holds
    /\ ConnectionFree(r)
    /\ holds' = holds \cup {r}
    /\ UNCHANGED <<lifespan, phase, singletons, pc, task, redis, lock>>

\* db_pool_timeout is over, or Postgres cannot be reached.
CheckOutFails(r) ==
    /\ pc[r] \in DbStep
    /\ r \notin holds
    /\ Fail(r)
    /\ UNCHANGED <<lifespan, phase, singletons, held>>

\* The SELECTs: SELECT 1; the session; its revision and max(sequence).
Select(r) ==
    /\ pc[r] \in DbStep \ {"flush"}
    /\ r \in holds
    /\ Proceed(r) \/ Fail(r)
    /\ UNCHANGED <<lifespan, phase, singletons, held>>

FlushReleasing(r) ==           \* mutant: the connection goes back between the
    /\ pc[r] = "flush"         \* UPDATE and the INSERTs, the row stays locked
    /\ r \in holds
    /\ \/ /\ task[r].op # "start" /\ lock = NULL
          /\ lock' = r /\ holds' = holds \ {r}
          /\ Goto(r, "flush")
       \/ /\ task[r].op = "start" \/ lock = r
          /\ Proceed(r)
          /\ UNCHANGED <<lock, holds>>
    /\ UNCHANGED <<lifespan, phase, singletons, redis>>

\* The INSERT of a new session waits for nobody, an UPDATE waits for the row lock.
Flush(r) ==
    /\ pc[r] = "flush"
    /\ r \in holds
    /\ \/ task[r].op = "start" /\ UNCHANGED lock
       \/ task[r].op # "start" /\ lock = NULL /\ lock' = r
    /\ Proceed(r)
    /\ UNCHANGED <<lifespan, phase, singletons, holds, redis>>

\* A statement of the flush raises, which rolls the transaction back at once.
FlushFails(r) ==
    /\ pc[r] = "flush"
    /\ r \in holds
    /\ Fail(r)
    /\ UNCHANGED <<lifespan, phase, singletons, held>>

-----------------------------------------------------------------------------
(* The end of get_db_session. *)

\* The AsyncSession is closed and the objects of the request are garbage.
GiveBack(r) ==
    /\ holds' = holds \ {r}
    /\ lock' = IF lock = r THEN NULL ELSE lock
    /\ pc' = [pc EXCEPT ![r] = "done"]
    /\ task' = [task EXCEPT ![r] = NoTask]
    /\ UNCHANGED <<lifespan, phase, singletons, redis>>

\* Clean exit, or a COMMIT that raises: `rollback' and the closing follow at once.
Commit(r) ==
    /\ pc[r] = "commit"
    /\ GiveBack(r)

FinalizeNothing(r) ==          \* mutant: the generator is never closed
    /\ pc[r] = "failed"
    /\ Goto(r, "done")
    /\ UNCHANGED <<lifespan, phase, singletons, held>>

\* An exception of the endpoint leaves db_session_dep but does not enter the inner
\* generator, whose `async with' the event loop closes in a task of its own.
Finalize(r) ==
    /\ pc[r] = "failed"
    /\ GiveBack(r)

\* Nothing to do until a request, a start or a stop comes.
AtRest ==
    /\ \A r \in Requests : pc[r] \in {"idle", "done"}
    /\ phase \in {"down", "serving"}
    /\ UNCHANGED vars

-----------------------------------------------------------------------------
Serve(r) ==
    \/ CheckPool(r) \/ BuildPool(r) \/ ReturnPool(r)
    \/ SendCommand(r) \/ CommandEnds(r)
    \/ CheckOut(r) \/ Select(r) \/ Flush(r)
    \/ Commit(r) \/ Finalize(r)

Dispose == DisposeEngine \/ DisposeRedis

Next ==
    \/ Startup \/ BeginShutdown \/ Dispose
    \/ \E r \in Requests :
           Arrive(r) \/ Serve(r) \/ CheckOutFails(r) \/ FlushFails(r)
    \/ AtRest

Spec == Init /\ [][Next]_vars

\* Every await ends, one way or the other, except the wait for a resource that
\* somebody holds; timeouts, failures, requests and signals need not come.
FairSpec ==
    /\ Spec
    /\ \A r \in Requests : WF_vars(Serve(r))
    /\ WF_vars(Dispose)

-----------------------------------------------------------------------------
(* Properties. *)

WaitsForConnection(r) ==
    pc[r] \in DbStep /\ r \notin holds /\ ~ConnectionFree(r)

WaitsForRow(r) ==
    /\ pc[r] = "flush" /\ r \in holds /\ task[r].op # "start"
    /\ lock \notin {NULL, r}

Waits(r) == WaitsForConnection(r) \/ WaitsForRow(r)

\* Nobody waits in a circle for a connection and a row lock: whoever holds the
\* row lock waits for neither any more, and among those who hold the connections
\* that others wait for somebody is not waiting.
NoCircularWait ==
    /\ lock # NULL => ~Waits(lock)
    /\ \A r \in Requests :
           WaitsForConnection(r) =>
               \E q \in holds : task[q].session = task[r].session /\ ~Waits(q)

\* "Return a Redis client bound to the shared pool": every running request works
\* on the one open engine and on the one pool that a shutdown will dispose of,
\* also after a restart in the same process, although worker threads race on _pool
\* and nothing but dispose_engine keeps the factory from outliving its engine.
SharedPools ==
    \A r \in Requests :
        Running(r) =>
            /\ task[r].session = engine
            /\ engines[engine] = "open"
            /\ task[r].client # None =>
                   task[r].client = pool /\ pools[pool] = "open"

\* A stopped application leaves no engine and no pool open behind, whatever
\* requests came and failed before.
NothingLeftOpen ==
    phase = "down" =>
        /\ \A e \in 1 .. Len(engines) : engines[e] = "closed"
        /\ \A p \in 1 .. Len(pools) : pools[p] = "closed"

\* Every request ends and gives back what it took, also when it failed and its
\* database connection depends on the closing of an abandoned generator.
RequestsGiveBack ==
    \A r \in Requests :
        pc[r] \notin {"idle", "done"} ~>
            pc[r] = "done" /\ r \notin holds \cup redis /\ lock # r

\* A shutdown comes to its end: no running request waits for ever for connections
\* of requests that are already answered.
ShutdownEnds == phase = "draining" ~> phase = "down"
=============================================================================
