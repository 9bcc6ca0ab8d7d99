# Cognaris onboarding: TLA+ models and proofs

The repository is the backend of an onboarding chatbot (FastAPI, SQLAlchemy
async over Postgres, Redis). A client opens an *onboarding session*, sends
messages, gets a reply to each (today an echo), and the session moves through a
small life cycle. The code has little volume and one hard part: several requests
of one session run concurrently over a database and a cache that is written
**before** the database commits, with an optimistic lock that is checked in
Python. That part is what most of these modules are about; one more follows the
connections and pools that the requests share while they do it.

Paths below are relative to the repository root.

## 1. Inventory

| Component | State it keeps | Operations | Interacts with | Hard behaviour |
|---|---|---|---|---|
| Session aggregate (`app/domain/onboarding/entities.py`, `enums.py`) | one `OnboardingSession`: state, revision, step, timestamps, messages | `create`, `transition_to`, `append_message`, `update_current_step`, `extend_ttl` | called by the service, rebuilt by the repository and the cache | long command sequences, the clock, half-done commands |
| Onboarding service (`service.py`, `events.py`) | none between requests; the entity and `expected_revision` during one | `start_session`, `get_session`, `handle_user_message`, `transition` | repository | works on a copy that may be stale |
| Session repository (`infrastructure/db/repositories/session_repository.py`, models, migration) | tables `onboarding_sessions`, `conversation_messages`, `domain_events` | `add`, `get`, `save` | `AsyncSession`, cache | check-then-act over several SQL statements, row locks, unique constraint |
| Session cache (`infrastructure/cache/session_cache.py`) | one Redis key per session, with a TTL | `get`, `set`, `invalidate` | Redis | failures (swallowed or not), stale, phantom and torn copies |
| Unit of work (`infrastructure/db/session.py`, `api/deps.py`) | one transaction per request; lazy engine and session factory | commit, rollback, close; `get_engine`, `dispose_engine` | FastAPI dependency life cycle, connection pool | order of commit and response; lost commit; late closing after an error |
| HTTP API (`api/v1/endpoints/sessions.py`, `schemas.py`, `api/errors.py`) | none | `POST /sessions`, `GET /sessions/{id}`, `POST /sessions/{id}/messages` | service | which error a client sees |
| Redis client (`infrastructure/cache/redis_client.py`) | lazy pool of 20 connections | `get_redis_client`, `check_redis_health`, `dispose_redis` | cache, health | exhausted pool raises; `_pool` is read and written by worker threads |
| Health (`api/v1/endpoints/health.py`), life cycle (`main.py`) | pools created and disposed | `/live`, `/ready`, lifespan | pools | a probe keeps a database connection while it pings Redis; restart in one process |
| Configuration, logging, migrations, tests, deployment | nothing that changes while the program runs | | | |

What makes each component correct:

* **Aggregate.** Messages are numbered 0, 1, 2, ...; every mutation raises the
  revision (the optimistic lock rests on it); terminal sessions never change;
  submission cannot be undone; timestamps tell the order of the milestones; the
  deadline slides with activity.
* **Service and repository.** A request takes effect once, completely, and on the
  current session; a refused request leaves no trace; a message a client was told
  is stored is stored; outbox events match the conversation.
* **Cache.** A copy may be stale but never *looks* current: equal revision means
  equal content.
* **Unit of work.** Every request ends and gives back its row lock and connections; a
  client alone is never told that someone else changed its session.
* **Pools and life cycle.** Waits for connections and locks are not circular; every
  running request uses the one pool that a stop disposes of; a stop ends and leaves
  no engine and no pool open (a failed request may still hold a connection of the
  disposed engine, which it then gives back).

The hazards, each at its line and with the properties aimed at it, are listed in
`PROJECT.json`.

## 2. Modules

| Module | What it is |
|---|---|
| `OnboardingSession` | the aggregate as pure operators: the session record, queries, and what each command makes of it. No variables. |
| `SessionAggregate` (+ `MCSessionAggregate`) | state machine of one aggregate: any command at any time, a clock. |
| `SessionHistory` | abstract specification of the store: a single document on which requests take effect atomically. |
| `SessionStore` (+ `MCSessionStore`) | requests running endpoint, service, repository, cache and unit of work, interleaved at every `await`, with failures. |
| `Application` (+ `MCApplication`) | start, stop and restart of the application, its lazily built pools, and the connections requests take from them. |
| `OnboardingSessionProofs` | lemmas on the operators: what each command returns, its `Effect` on state, milestones and deadline, and that a history of effects keeps a session `Legal`. |
| `SessionAggregateProofs`, `ApplicationProofs` | the theorems about one aggregate and about the pools. |
| `SessionStoreProofs`, `ConversationProofs` | the theorems about the store, any clients: types and numbering; who wrote what. The second extends the first and adds its invariant. |
| `OutboxProofs` | extends `ConversationProofs`: events and messages, any clients, commit before the response. |
| `SingleWriterProofs`, `LoneClientProofs` | extend `ConversationProofs`, the second the first: one writer, the refinement, the history of the row; a client alone. |

`SessionAggregate`, `SessionHistory` and `SessionStore` extend the same
`OnboardingSession`, so what is shown of the commands alone and what is shown of
the whole store speak about one definition. No module declares a RECURSIVE
operator. Definitions whose comment says *mutant* are slips of the definition
below them; they are in no specification and serve to show that the runs notice
them.

### 2.1 OnboardingSession and SessionAggregate

A session is a record with the fields that some code reads back. Left out: `id`,
`user_id`, `locale`, `client_platform`, `started_at`. The message list is a set of
`[sequence, role, by]`; `by` is the command or request that wrote the message and,
with the role, stands for its UUID and content. Content is only a length, because
length is all the code looks at. `None` timestamps are `NoTime`.

`AutoAdvance` is the first user message moving a `new` session to `in_progress`
inside `append_message`, which bumps the revision a second time. `AppendError`
keeps the order of the checks in the code; a content error is raised *after* the
advance (the message is validated when it is constructed), so
`CommandAppendMessage` then leaves the session moved and raises all the same, as
the code does.

The commands are synchronous, so one command reads one clock value. `ClockSetBack` is
the wall clock jumping back: `utcnow` is not monotonic. The history variable `setBack`
remembers that it happened. Two properties speak of the time until then
(`MilestonesInOrder` and the last part of `DeadlineFollowsActivity`); afterwards they are
false. `ActivityMovesForward` makes no such exception, because the docstring of the class
makes none: `_bump_activity` takes whatever `utcnow` returns, and `ClockSetBack` (the run)
refutes it.

### 2.2 SessionStore

Every `await` ends a step. The program of a request is

    getcache -> [discard] -> selectrow -> selectmessages -> fill -> handle      get()
    handle -> check -> [invalidate] -> maxseq -> flush -> writecache            save()
    (start)  flush -> writecache                                                add()
    writecache -> commit -> respond      or      writecache -> respond -> commit

| Variable | Code |
|---|---|
| `stored` | committed row of `onboarding_sessions` with its `conversation_messages` |
| `outbox` | committed rows of `domain_events` |
| `cache` | the Redis value `session:{id}` and when it expires |
| `lock` | which transaction holds the row lock (taken by the flush) |
| `pc`, `input` | where a request is, what it asks |
| `entity`, `loaded`, `expected`, `maxSeq` | local variables of one request: `session`, `model`/`existing`, `expected_revision`, `max_seq` |
| `outcome` | what the client was told |

Points where the model follows the libraries rather than the text of the code:

* Postgres runs at READ COMMITTED, so each statement sees what was committed when
  it starts. `get` reads the row and its messages by two statements
  (`selectinload`): a copy can be torn. The `SELECT` in `save` has no `FOR UPDATE`.
* The flush of `save` issues the `UPDATE` before the `INSERT`s, waits for the row
  lock, and sets only the attributes that differ from the row as `save` loaded it
  (`Column`, `UpdatedRow`). The `WHERE` clause is the primary key only; the revision
  is not in it.
* Of the unique constraints, the one on session and sequence is modelled. The primary key of
  a message cannot be what fails: `TurnsAreStoredOnce` holds without it.
* An `IntegrityError` in `add` is mapped to `SESSION_ALREADY_EXISTS`; in `save` it is
  not mapped and becomes a 500. SQLAlchemy's identity map is weak, so the object
  loaded by `get` is gone when `save` selects again and `existing` is fresh.
* `get_db_session` commits in the exit code of a dependency. FastAPI ran that code
  before sending the response up to 0.117 and after it from 0.118; `pyproject.toml`
  (`fastapi>=0.115.0`) admits both, hence the constant `CommitFirst`. A fresh image
  (`Dockerfile` runs `pip install` without a lock file) gets a version that commits after
  the response; section 3 says which results that leaves.
* An exception of the endpoint does not reach the `except` of `get_db_session`
  (`db_session_dep` iterates it with `async for`); the transaction is rolled back
  when the `AsyncSession` is closed. The effect on the data is the same rollback.
* `OnboardingService.transition` has no endpoint yet. It is modelled as an operation
  like the others because it shares `save` with them.

Failures (`Faults`): a Redis command raises, an entry does not deserialize, Redis
loses the entry, a statement raises, COMMIT raises (applied or not), the process
dies. An entry that does not deserialize either raises one of the three exceptions that
`SessionCache.get` catches and is then discarded (`CacheIsCorrupt`, `DiscardCorrupt`), or
another one, and then stays while the request is answered 500 or 422 (`DeserializeFails`). Sessions share neither rows nor keys, so one session is enough. `FreshIds =
FALSE` lets `new_id()` give out an id twice, which is the only way to the
`SESSION_ALREADY_EXISTS` path.

`MaxWriters` bounds how many *unanswered* writing requests clients keep: 1 is a chat
window that waits for its reply (readers are free), larger values are unrestrained
clients. Nothing in the code enforces it; it separates what the code guarantees to
everybody from what it guarantees to a well-behaved client.

### 2.3 SessionHistory and the refinement

`SessionHistory` has two variables: the document and the set of requests that took
effect. A step is one aggregate command on the current document, at a time that is not
before its last activity (`Present`). `SessionStore`
implements it with `document <- stored` and `applied <- {e.by : e \in outbox}`:
every commit must be one atomic command, never two, half, or one on old content.
The property is `ImplementsHistory`. Three more say of `stored` what a client of the
document would rely on: `TerminalSessionsStay`, `CommitsMoveForward`, `StoredSessionIsLegal`.
The clock of `SessionStore` only moves forward (a clock set back is `SessionAggregate`'s
subject); with one set back `Present`, `CommitsMoveForward` and `StoredSessionIsLegal` would
not hold.

### 2.4 Application

The same requests, seen from the resources they hold. What the awaits return is left
open (`Returned`, `Raised`), so every path that `SessionStore` can take is a path here;
what is kept is the order of the awaits, and what is checked out during each.

| Variable | Code |
|---|---|
| `engine`, `factory`, `pool` | the module variables `_engine`, `_session_factory`, `_pool`; 0 is `None` |
| `engines`, `pools` | every engine and Redis pool built so far, open or closed |
| `lifespan`, `phase` | whether the server runs the lifespan of `main.py`, and how far it is |
| `pc`, `task` | where a request is, and the engine and pool its `AsyncSession` and Redis client are bound to |
| `holds`, `redis`, `lock` | database connections checked out, Redis commands in progress, the row lock |

* An `AsyncSession` takes its connection with the first statement (`CheckOut`), waiting
  for one up to `db_pool_timeout`, and keeps it to its end, also across Redis awaits. A
  Redis command takes a connection for itself and raises when there is none
  (`SendCommand`).
* `redis_dep` is a plain function, so FastAPI runs it in a worker thread: the test, the
  construction and the assignment in `get_redis_pool` are separate steps (`CheckPool`,
  `BuildPool`, `ReturnPool`). `get_engine` and the session factory are only ever used in the
  event loop and are one step with what surrounds them.
* When an endpoint raises, FastAPI closes `db_session_dep`, and nothing closes the
  generator it iterates but the garbage collector: `failed` is the request that is
  answered and still has its connection, `Finalize` the task the event loop makes of the
  closing. A shutdown does not wait for it.
* The server starts and stops the application up to `MaxStarts` times in one process.
  Without a lifespan (the `ASGITransport` of the API tests) nothing is built ahead and
  nothing is disposed of, and requests come one after the other.

`NoCircularWait`, `SharedPools`, `NothingLeftOpen` are its invariants, `RequestsGiveBack` and
`ShutdownEnds` its liveness properties.

## 3. Runs

Symmetry over requests is used in every run without liveness; requests are
interchangeable in `Init`, `Next` and all properties.

| Run | Question | Bounds |
|---|---|---|
| `Aggregate` | Do numbering, finality and revision counting survive any commands, with a clock that may be set back, and milestones and deadline until it is? | 3 writers, time 0..3, revision 6, lengths 0, 1, 8000, 8001 |
| `ManyClients` | Four unrestrained requests, all failures, commit after response, colliding ids: is the conversation ever torn, does a refused request leave a trace? | 4 requests, 4 writers |
| `StoreFails` | One writer at a time, any readers, everything failing but Redis commands: does the store implement the single document, does the outbox tell exactly of its messages (also after a commit of unknown result), does a client alone meet no conflict? | 4 requests |
| `CacheFails` | The same while Redis commands fail and time passes, with no lost commit; does each commit build on the one before, is the row legal, and final when it is terminal? | 4 requests, time 0..1, contents of 1 and 8000 characters, transitions as far as `submitted` and `failed` |
| `Liveness` | Three unrestrained requests, all failures, commit before response: does every request end, is a message ever stored twice, and does the outbox tell of each answered turn and of each stored message whose client was not told of a failure? | 3 requests, 3 writers |
| `Serving` | While the application starts, stops and restarts: does anybody wait in a circle, is a connection or pool ever lost, does a stop end? | 3 requests, 2 database connections, 1 Redis connection, 2 starts |
| `LostMessages`, `CacheDown`, `PhantomSession`, `LongContent`, `StaleExpiry`, `ClockSetBack` | violations, see section 5 | 4 requests; `StaleExpiry` with time 0..2; `ClockSetBack` as `Aggregate` |

Why the bounds are enough:

* **Four requests.** The longest interesting story is: one starts the session, two
  race on it, a fourth works with what they left. With three, no request ever
  continues from the outcome of a race.
* **Revision 6** reaches `completed` by the shortest path (user message,
  confirmation, submission, completion) with commands left over for detours.
* **8000 characters** in `CacheFails` is the content whose reply is refused after the
  entity has already been moved and extended in memory.
* **Two database connections, one Redis connection, three requests.** The smallest
  numbers with which one request holds the row lock, another waits for it and so keeps
  the last connection, and a third waits for a connection; and with which a Redis
  command finds the pool empty at each of its places. `WaitsAreNotCircular` is proved for
  every number.
* **Time.** With a window of 2 a session reaches its deadline at time 2 (`StaleExpiry`);
  `Aggregate` goes one further, past it. Every other run of the store has MaxTime 0 or 1,
  so that its states go to interleavings instead. With time at 0 no deadline
  passes and no entry expires; an entry that goes away is then an eviction
  (`LoseCacheEntry`), which is stronger, as it happens at any moment.
* **`RedisTtl`.** Both windows are 24 h by default, and equal in every run; the theorems
  hold for any two.
* **`Targets`** of the transition are `abandoned` and `awaiting_confirmation` (`Detour`): one
  that closes the conversation's ways and one that keeps them open. `CacheFails` takes
  `awaiting_confirmation`, `submitted` and `failed` (`ToTheEnd`): with four requests these
  reach a terminal state with a request left to disturb it, and the first two milestones.
  The whole table is explored by `Aggregate`, and the theorems are about all of it.
* `AllServed` is the only way to stop: deadlock checking stays on in every run, and
  a request waiting for ever for a lock would be reported.

### Fairness

`FairSpec` has weak fairness on `Serve(r)` for each request and none on arrivals,
failures, the clock or crashes. asyncio resumes a coroutine whose await is over,
and Postgres grants a row lock that is free. Weak fairness is enough for the lock
because requests are finitely many: a lock cannot be taken from a waiting request
for ever. With an endless stream of writers or requests, fairness between waiters would rest on
Postgres's lock queue, which is first come, first served, and on the first-in-first-out
waiting list of the connection pool; neither is modelled.

`Application`'s `FairSpec` has weak fairness on `Serve(r)`, which contains the end of every
Redis command and the closing of an abandoned generator, and on `Dispose`. That a
command ends is an assumption on Redis and the network: the client is built without
`socket_timeout`, so a Redis that accepts commands and never answers would keep a request,
its database connection and a shutdown for ever. No fairness is given to timeouts,
failures, arrivals or signals: nothing is only true because somebody times out.

### Commit and response

With `CommitFirst = FALSE`, which is what a fresh image runs, a client that has its answer
can send its next message before the previous commit, and the two requests then race like
those of two clients. What holds for both orders: `TypeOK`, `MessagesNumbered`,
`TurnsStayTogether`, `TurnsAreStoredOnce`, `RefusedRequestsLeaveNoTrace` (theorems all;
`ManyClients` runs with this order), everything about one aggregate and
everything about `Application`. What is shown for the commit before the response only:
`CacheAgreesAtSameRevision`, `AnsweredMessagesAreStored`, `OutboxMatchesConversation`,
`ImplementsHistory`, the three properties of the stored row, `LoneClientMeetsNoConflict`,
`AnsweredTurnsAreTold`, `StoredMessagesAreTold` and `EveryRequestEnds`; for an answer that
precedes its commit several of them say too much, since the commit may still fail.

### When both Redis writes and commits get lost

`CacheAgreesAtSameRevision` holds when any failure but a Redis command happens, and
when any failure but a lost commit or crash happens. It does not hold under both.
`save` writes the cache before the commit. If the commit is then lost, the cache
holds a copy with revision *n* that was never committed. The next write starts from
that copy, fails the revision check and drops it. But if the next writer does not get
to see the copy (its entry does not parse, and Redis loses the order to discard it),
goes on from the row, commits another revision *n*, and its own cache writes are lost
too, two contents of revision *n* exist and the check cannot tell them apart: later
saves go on from messages that were never stored. No comment or test of the repository claims
otherwise, so it is recorded as a hazard and not as a finding.

## 4. Proofs

Everything listed in `PROJECT.json` under `theorems` is proved for **every** value of the
constants, without bounds on the sets.

**Aggregate** (`SessionAggregateProofs`). One lemma per command shows `Effect`: a
session that changes was not terminal, has a larger revision, and either moved along
the transition table or kept its state and milestones. `SoundInv` (types, finiteness
of the message set, numbering) is inductive; numbering alone is not, since the next
sequence number is the cardinality, which says something only of finite sets. From
`Effect` follow `TypeCorrect`, `MessagesStayNumbered`, `TerminalStatesRejectMutations`,
`RevisionCountsMutations` and `SubmissionIsFinal`. `MilestonesKeepOrder` and
`DeadlineSlides` use a stronger invariant: until the clock is set back,
every timestamp is at most `now`.

**Store** (`SessionStoreProofs`). `StoreTypeCorrect` and `ConversationStaysNumbered`
hold for any number of requests and writers, every combination of failures and both
orders of commit and response. `MessagesNumbered` is far from inductive, as a save
filters messages of a copy by a `max_seq` read earlier. `StoreInv` adds:

1. every session in memory, in the cache and in the database is itself numbered,
   because it is a copy of another, possibly with the messages of a newer read, or
   longer by whole messages;
2. `maxSeq[r]` is smaller than the number of stored messages from the query on,
   because messages are never deleted;
3. at most one request is between flush and commit, the one that holds the lock, and
   for it no kept message collides with a stored one (`Fresh`).

If a save keeps any message it keeps number `max_seq + 1`, since its own copy has no
gap; the unique constraint lets that pass only when `max_seq` is still the last
number in the table (`MergeIsNumbered`). Thus the numbering survives even the races
in which the optimistic lock fails.

**Conversation** (`ConversationProofs`). `TurnsAreStoredWhole`, `TurnsAreWrittenOnce` and
`RefusalsLeaveNoTrace` hold under the same circumstances. `ConversationInv` follows messages
as they are copied between database, cache and requests:

1. in each copy client and assistant take turns: odd numbers are the client's, and a
   message has its counterpart next to it (`Paired`). A save keeps this although it
   filters, because the messages it leaves out are numbered below those it keeps and the
   merge is numbered without gap. Parity is the strengthening: a filter that started at a
   reply would leave one half of a turn in the table before it, and the table, having both
   halves of its last turn, ends with an even number (or is empty, but every session has
   been greeted: `AllGreeted`);
2. no two messages *anywhere* (database, cache, every copy of every request) have the same
   author and role under two numbers (`Once(Everywhere)`). Of the database alone this is not
   inductive, since the next save may come from any of the copies;
3. as long as a request has flushed nothing, or once it is refused, none of its messages
   is anywhere but in its own entity, and there only between handling and flush
   (`Traceless`, `NoTrace`). From the flush on no path refuses a request: a colliding id
   is refused by the failing flush itself.

**Outbox** (`OutboxProofs`). `AnswersAreTold` and `StoredIsTold` assume `CommitFirst` and
nothing else: any clients, any failures. A turn can be stored by the save of *another*
request that read it in the cache, so events and messages are not simply written together.
`OutboxInv` says that a message without its event belongs to a request that failed, or to
one that has not committed (`Open`); that an open request still has its whole turn in its
entity (so its commit brings the events of every message of its own that may be around);
and that the stored messages are only of the first kind. The last conjunct needs that a save
cannot store another's open message: that one is between flush and commit or has not left its
request, and in the first case it holds the row lock the save would need.

**One writer** (`SingleWriterProofs`). The assumption `SingleWriter` is that the commit
comes before the response, that clients wait for their answers (readers are free), and that
Redis commands do not fail, or no commit is lost and no process dies. Everything else may
fail, and the sets of requests, times and contents are arbitrary. `SingleInv` says how far
each copy can be trusted:

1. while the writer runs nobody else changes the row, so a copy it got from the cache or
   from the database and whose revision is the stored one *is* the stored session
   (`Agrees`, `FromDb`). From the revision check to the commit its entity is its command
   applied to the stored session (`Commanded`), and it is in neither table (`Absent`);
2. the cached copy was read from the database, or belongs to the request that is about to
   commit, or was never committed and then has a newer revision than the row (`CacheOk`).
   The last case is why a lost commit does no harm: a save that meets the copy fails the
   revision check, and a save that does not meet it overwrites it before it commits the
   same revision. That overwriting is what a failing Redis takes away;
3. a request past its commit has its messages in the tables.

`CachedRevisionsAgree`, `AnswersAreDurable` and `OutboxIsExact` are consequences. For `StoreImplementsHistory` each step is mapped: a commit
(also one that reports failure, or that the dying process had sent) is `Start`, `Converse`
or `Move` of its request on the current document, every other step leaves `stored` and
`outbox` alone. That is where 1 is needed: `Commanded` is the abstract step. That the step's
time is not before the last activity comes from `PastInv`, which holds for any clients and
failures: no copy has been active later than now.

Because a commit is a command given to the stored session, the lemmas on `Effect` apply to the
row too. `LegalInv` (the milestones are those of the state and in order, the deadline that of
the last activity, no milestone is later than it) is kept by one effect, hence by a turn, which
is two (`EffectIsLegal`, `CommandedIsLegal`). `StoredSessionsAreLegal`, `TerminalSessionsAreFinal`
and `CommitsAreNewer` follow. They do not hold for racing writers: a save writes the columns that
differ from the row it read over whatever is there by then.

These theorems and the runs `StoreFails` and `CacheFails` are about that one client; with racing
writers most of them are false, and `LostMessages` shows how.

**A client alone** (`LoneClientProofs`). `Lone` is the commit before the response, one
unanswered writing request, and Redis commands that take effect; statements, commits and
conversions may fail, the process may die, and the cache may lose entries. Both results speak of
the time until another client reads or somebody is told of a failure (`CleanSoFar`): a lost
commit leaves a copy the next request trips over, and it is reported in the same step. Until then
the cache holds what is stored or what the one request under way is about to commit, so every copy
is current (`LoneInv`); no save finds a newer revision or a message at a number it assigns.
`LoneClientNeverConflicts` and `LoneClientExpiresInTime` follow. Neither survives a reader that
fills the cache late (`StaleExpiry` shows the second), nor a commit after the response.

**Application** (`ApplicationProofs`). `ApplicationInv` is inductive for any number of
requests, connections and restarts: the types; who owns what (`Owned`: the sessions of
running requests are bound to the engine that is open, their clients to the pool that is,
and every other engine and pool is closed; without a lifespan at most one request can be
building a pool); and that the holder of the row lock is past its flush and keeps its
connection (`LockHeld`). `SharedPools` and `NothingLeftOpen` are consequences. For
`WaitsAreNotCircular` the pool limit is counted: if all the connections of an engine are
taken and their holders all wait, they wait for the row lock, whose holder has one of
these very connections and is not waiting; or nobody holds the lock and none of them
waits.

Assumptions: `TtlAssumption`, `AggregateAssumption`, `StoreAssumption`, `ApplicationAssumption`,
all evaluated by TLC in the runs.

**Only model-checked:** liveness (`EveryRequestEnds`, `RequestsGiveBack`, `ShutdownEnds`),
which is outside the prover's reach, as is ENABLED. Every other property of a passing run is
a theorem, and so is `LoneClientExpiresInTime`, of which `StaleExpiry` shows the other side. The runs were there first, and stay: they say that the assumptions of the theorems
can be met and that the interesting states are reached.

## 5. Findings

| Run | What it shows |
|---|---|
| `LostMessages` | Two writers pass the revision check of `save`; the second queries `max(sequence)` after the first has committed, its filter `sequence > max_seq` drops its whole turn, and the client is answered 200. The revision row is written all the same, so the events of the turn are stored without its messages. |
| `CacheDown` | `SessionCache.get` awaits Redis outside its `try`, so Redis being down makes every GET and message a 500; `set` and `invalidate` swallow it. |
| `PhantomSession` | A session whose creation was rolled back stays in the cache, since `add` caches before the commit; each message to it is answered 409, and the branch for "no row" does not invalidate. |
| `LongContent` | The echo is 21 characters longer than the content and subject to the same limit, so a content of 7980 to 8000 characters passes the schema and is refused. |
| `ClockSetBack` | `_bump_activity` assigns `utcnow()` to `last_active_at` whatever was there, so a command after the wall clock was set back moves it, and the deadline, backwards; the docstring lists "last_active_at moves forward only" among the invariants the class enforces. |
| `StaleExpiry` | A reader selects the row, a writer commits and moves the deadline, the reader fills the cache with what it had read. The next message after the old deadline is answered `SESSION_EXPIRED` although the session lives in the database, and so is each one after it, as this path never goes to the database, until the Redis entry goes. |

Seen while modelling and part of the models, without a line of the repository that
says otherwise, or without a run of their own: an entry of another shape raises an exception that
`SessionCache.get` does not catch (its comment says "Corrupt cache entry — log and force a
Postgres fetch."), so the entry stays and each request fails like those of `CacheDown`;
`append_message` accepts user messages in states outside
`INTERACTIVE_STATES` (nothing calls `is_interactive`); an invalid first message leaves
the entity `in_progress` (the service then discards it); `transition` does not look at
the deadline and so revives an expired session; the terminal state of a session can
be overwritten by a racing save, which is `LostMessages`' race again.

## 6. Not modelled, and why

* Rendering, logging, configuration parsing, `/live`: no state that changes. Migrations are
  run once, offline; the unique constraint they create is part of `SessionStore`.
* Concurrent requests in a server without a lifespan: two worker threads could then
  both find `_pool` empty and build a pool each. Neither the deployment (uvicorn) nor the
  tests (one request at a time) can do that, so `Application` excludes it.
* The number of worker threads (anyio lets 40 run): they only hold a thread for a few
  instructions. The two phases of the Redis pool's `aclose`, and a dispose that raises.
* JSON and ORM conversions act as the identity on the modelled fields
  (`_serialize`/`_deserialize`, `_entity_to_model`/`_model_to_entity` copy each of them);
  an entry that fails to parse is the fault `corrupt`. One simplification: the SELECT of
  messages that `lazy="selectin"` adds to the one in `save` is left out, as nothing uses its
  result.
* A client that disconnects in the middle of a request is not cancelled by the
  framework for these endpoints; it is a client that does not read its answer.

## 7. Plan

Done, in this order: `OnboardingSession`, `SessionAggregate`, `SessionStore`,
`SessionHistory`, their runs, then the aggregate's theorems and the store's types and
numbering; then the late cache fill and its expiry (`StaleExpiry`), `Application` with its
run, and all its invariants as theorems; then the theorems about turns, about one writer with
the refinement, and about a client alone; then the outbox under any clients and the history of the
stored row.

Next among the proofs: the safety half of `EveryRequestEnds`, a measure that every step of a
request lowers, of which the liveness under weak fairness is then a short argument outside the
prover.

Further models need the code to grow first: the model-driven reply that replaces the echo
(an await between loading and saving that may take seconds), an endpoint for `transition`,
and a publisher that reads the outbox. Each would be a new action of `SessionStore`; the
invariants speak of copies and revisions and not of what a command does, so the argument
of the proofs should carry over.

## 8. Running

    tlc -config StoreFails.cfg MCSessionStore.tla
    tlc -config Aggregate.cfg MCSessionAggregate.tla
    tlc -config Serving.cfg MCApplication.tla
    tlapm LoneClientProofs.tla
