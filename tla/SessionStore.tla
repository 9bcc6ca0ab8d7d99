---------------------------- MODULE SessionStore ----------------------------
(***************************************************************************)
(* One onboarding session behind the HTTP API: concurrent requests run the *)
(* OnboardingService and PgSessionRepository over Postgres (READ COMMITTED)*)
(* and the Redis cache.                                                    *)
(*                                                                         *)
(* Every await of the code is the end of a step, so a request is a small   *)
(* program with a program counter, and any other request may run between   *)
(* two of its steps.  Every SQL statement sees the rows committed when it  *)
(* starts; flush takes the row lock, which commit or rollback releases.    *)
(* Sessions share neither rows nor cache keys, so one session is enough.   *)
(***************************************************************************)
EXTENDS OnboardingSession

CONSTANTS
    NULL,            \* no row, no cache entry, no object
    Operations,      \* which of "start", "get", "message", "transition" are sent
    ContentLengths,  \* lengths of the contents clients send
    Targets,         \* states the transition operation is asked for
    RedisTtl,        \* settings.session_ttl_seconds
    CommitFirst,     \* whether FastAPI runs the exit code of a dependency (the
                     \* commit) before it sends the response: TRUE for 0.115 to
                     \* 0.117, FALSE from 0.118 (pyproject asks for >= 0.115)
    FreshIds,        \* whether new_id() never returns an id already in use
    MaxWriters,      \* how many writing requests clients keep unanswered at once
    Faults,          \* which failures happen: see FaultKind
    MaxTime          \* bound on the clock

FaultKind ==
    {"redis",    \* a Redis command raises
     "corrupt",  \* a cache entry does not deserialize: the exception is one that
                 \* SessionCache.get catches, or one that it does not
     "evict",    \* Redis loses the entry (eviction, restart)
     "db",       \* a SQL statement raises
     "commit",   \* COMMIT raises, applied or not
     "crash"}    \* the application process dies

Operation == {"start", "get", "message", "transition"}

ASSUME StoreAssumption ==
    /\ NULL \notin Session
    /\ NULL \notin Requests
    /\ Operations \subseteq Operation
    /\ ContentLengths \subseteq 1 .. MaxContentLength    \* SendMessageRequest
    /\ Targets \subseteq SessionState
    /\ RedisTtl \in Nat \ {0}
    /\ CommitFirst \in BOOLEAN
    /\ FreshIds \in BOOLEAN
    /\ MaxWriters \in Nat
    /\ Faults \subseteq FaultKind
    /\ MaxTime \in Nat

VARIABLES
    now,       \* utcnow()
    stored,    \* committed row of onboarding_sessions with its messages, or NULL
    outbox,    \* committed rows of domain_events
    cache,     \* the Redis entry session:{id}, or NULL
    lock,      \* the request whose transaction holds the row lock, or NULL
    pc,        \* where each request is
    input,     \* what each request asks for
    entity,    \* the OnboardingSession object of each request, or NULL
    loaded,    \* the row of its last SELECT (`model', `existing'), or NULL
    expected,  \* expected_revision
    maxSeq,    \* max_seq
    outcome    \* what the client was answered, "none" before

database == <<stored, outbox, lock>>
memory == <<input, entity, loaded, expected, maxSeq>>
vars == <<now, stored, outbox, cache, lock, pc, input, entity, loaded,
          expected, maxSeq, outcome>>

Label == {"idle", "getcache", "discard", "selectrow", "selectmessages", "fill",
          "handle", "check", "invalidate", "maxseq", "flush", "writecache",
          "commit", "respond", "done"}

ErrorCode == {"SESSION_NOT_FOUND", "SESSION_ALREADY_EXISTS", "STALE_REVISION",
              "INVALID_SESSION_STATE", "SESSION_EXPIRED", "INVALID_MESSAGE",
              "INTERNAL_ERROR", "DISCONNECTED"}

Input == [op: Operation \cup {"none"}, length: Nat,
          target: SessionState \cup {"none"}]
NoInput == [op |-> "none", length |-> 0, target |-> "none"]

Event == [by: Requests,
          type: {"session.started", "session.message_appended",
                 "session.state_changed"},
          sequence: Nat \cup {-1}]

CacheEntry == [session: Session, until: Nat]

TypeOK ==
    /\ now \in Time
    /\ stored \in Session \cup {NULL}
    /\ outbox \in SUBSET Event
    /\ cache \in CacheEntry \cup {NULL}
    /\ lock \in Requests \cup {NULL}
    /\ pc \in [Requests -> Label]
    /\ input \in [Requests -> Input]
    /\ entity \in [Requests -> Session \cup {NULL}]
    /\ loaded \in [Requests -> Session \cup {NULL}]
    /\ expected \in [Requests -> Nat]
    /\ maxSeq \in [Requests -> Nat \cup {-1}]
    /\ outcome \in [Requests -> ErrorCode \cup {"none", "ok"}]

Init ==
    /\ now = 0
    /\ stored = NULL
    /\ outbox = {}
    /\ cache = NULL
    /\ lock = NULL
    /\ pc = [r \in Requests |-> "idle"]
    /\ input = [r \in Requests |-> NoInput]
    /\ entity = [r \in Requests |-> NULL]
    /\ loaded = [r \in Requests |-> NULL]
    /\ expected = [r \in Requests |-> 0]
    /\ maxSeq = [r \in Requests |-> -1]
    /\ outcome = [r \in Requests |-> "none"]

-----------------------------------------------------------------------------
(* Parts of steps.  As in OnboardingSession, a definition marked "mutant" is *)
(* a plausible slip in the one below it.                                     *)

Goto(r, label) == pc' = [pc EXCEPT ![r] = label]

\* The request is over and its objects are garbage.  An error raised before the
\* flush leaves nothing behind: closing the AsyncSession rolls back.
Finish(r, code) ==
    /\ Goto(r, "done")
    /\ outcome' = [outcome EXCEPT ![r] = IF @ = "none" THEN code ELSE @]
    /\ entity' = [entity EXCEPT ![r] = NULL]
    /\ loaded' = [loaded EXCEPT ![r] = NULL]
    /\ UNCHANGED <<input, expected, maxSeq>>

InFlight(r) == pc[r] \notin {"idle", "done"}

\* http_status of the exception classes, as _handle_domain_error and
\* _handle_unexpected answer it; a request cut off by a crash has no answer.
HttpStatus(code) ==
    CASE code = "ok" -> 200
      [] code = "SESSION_NOT_FOUND" -> 404
      [] code \in {"SESSION_ALREADY_EXISTS", "STALE_REVISION",
                   "INVALID_SESSION_STATE", "SESSION_EXPIRED"} -> 409
      [] code = "INVALID_MESSAGE" -> 422
      [] code = "INTERNAL_ERROR" -> 500
      [] OTHER -> 0

Refused(r) == HttpStatus(outcome[r]) \in 400 .. 499

Unanswered == {r \in Requests : InFlight(r) /\ outcome[r] = "none"}

\* Clients send a writing request only while fewer than MaxWriters of theirs are
\* unanswered: 1 is a chat window that waits for each reply.
Admitted(op) ==
    op = "get" \/ Cardinality({r \in Unanswered : input[r].op # "get"}) < MaxWriters

CacheIsLive == cache # NULL /\ now < cache.until

\* SessionCache.set swallows every exception.
CacheSet(session) ==
    \/ cache' = [session |-> session, until |-> now + RedisTtl]
    \/ "redis" \in Faults /\ UNCHANGED cache

\* SessionCache.invalidate swallows every exception too.
CacheInvalidate ==
    \/ cache' = NULL
    \/ "redis" \in Faults /\ UNCHANGED cache

\* func.coalesce(func.max(sequence), -1)
MaxSequence(messages) ==
    IF messages = {} THEN -1
    ELSE CHOOSE k \in {m.sequence : m \in messages} :
             \A m \in messages : m.sequence <= k

NewMessagesOffByOne(r) ==      \* mutant: sequence > max_seq + 1
    {m \in entity[r].messages : m.sequence > maxSeq[r] + 1}

NewMessagesFirstOnly(r) ==     \* mutant: only the next message is persisted
    {m \in entity[r].messages : m.sequence = maxSeq[r] + 1}

\* The messages save() or add() hands to the AsyncSession.
NewMessages(r) ==
    {m \in entity[r].messages : m.sequence > maxSeq[r]}

NoUniqueConstraint(new) == FALSE    \* mutant: the constraint is missing

\* uq_conversation_messages_session_sequence
ViolatesUnique(new) ==
    \E m \in new, old \in stored.messages : m.sequence = old.sequence

Column(new, old, current) == IF new # old THEN new ELSE current

\* UPDATE sets the columns whose attribute differs from the row as loaded; the
\* others keep the value the row has when the UPDATE gets the lock.
UpdatedRow(r) ==
    LET e == entity[r]
        o == loaded[r]
    IN  [state          |-> Column(e.state, o.state, stored.state),
         revision       |-> Column(e.revision, o.revision, stored.revision),
         current_step   |-> Column(e.current_step, o.current_step,
                                   stored.current_step),
         last_active_at |-> Column(e.last_active_at, o.last_active_at,
                                   stored.last_active_at),
         expires_at     |-> Column(e.expires_at, o.expires_at,
                                   stored.expires_at),
         confirmed_at   |-> Column(e.confirmed_at, o.confirmed_at,
                                   stored.confirmed_at),
         submitted_at   |-> Column(e.submitted_at, o.submitted_at,
                                   stored.submitted_at),
         completed_at   |-> Column(e.completed_at, o.completed_at,
                                   stored.completed_at),
         messages       |-> stored.messages \cup NewMessages(r)]

EventsOfUserOnly(r) ==         \* mutant: the reply has no event
    CASE input[r].op = "start" ->
            {[by |-> r, type |-> "session.started", sequence |-> -1]}
      [] input[r].op = "message" ->
            {[by |-> r, type |-> "session.message_appended",
              sequence |-> m.sequence] :
                m \in {m \in entity[r].messages : m.by = r /\ m.role = "user"}}
      [] input[r].op = "transition" ->
            {[by |-> r, type |-> "session.state_changed", sequence |-> -1]}

\* The domain events the service passes to save() or add().
EventsOf(r) ==
    CASE input[r].op = "start" ->
            {[by |-> r, type |-> "session.started", sequence |-> -1]}
      [] input[r].op = "message" ->
            {[by |-> r, type |-> "session.message_appended",
              sequence |-> m.sequence] :
                m \in {m \in entity[r].messages : m.by = r}}
      [] input[r].op = "transition" ->
            {[by |-> r, type |-> "session.state_changed", sequence |-> -1]}

-----------------------------------------------------------------------------
(* A request arrives. *)

\* POST /sessions: the entity is created and greeted in memory, then added.  A
\* second start of this session is a UUID that new_id() gave out twice.
StartSession(r) ==
    /\ pc[r] = "idle"
    /\ FreshIds => \A q \in Requests : input[q].op # "start"
    /\ "start" \in Operations
    /\ Admitted("start")
    /\ Goto(r, "flush")
    /\ input' = [input EXCEPT ![r] = [NoInput EXCEPT !.op = "start"]]
    /\ entity' = [entity EXCEPT ![r] =
                     AppendMessage(NewSession(now), "assistant", r, now)]
    /\ UNCHANGED <<now, database, cache, loaded, expected, maxSeq, outcome>>

\* GET /sessions/{id}, POST /sessions/{id}/messages, OnboardingService.transition
Receive(r, op, length, target) ==
    /\ pc[r] = "idle"
    /\ op \in Operations
    /\ Admitted(op)
    /\ Goto(r, "getcache")
    /\ input' = [input EXCEPT ![r] =
                    [op |-> op, length |-> length, target |-> target]]
    /\ UNCHANGED <<now, database, cache, entity, loaded, expected, maxSeq,
                   outcome>>

Arrive(r) ==
    \/ StartSession(r)
    \/ Receive(r, "get", 0, "none")
    \/ \E length \in ContentLengths : Receive(r, "message", length, "none")
    \/ \E target \in Targets : Receive(r, "transition", 0, target)

-----------------------------------------------------------------------------
(* PgSessionRepository.get, on SessionCache.get. *)

CacheHit(r) ==
    /\ pc[r] = "getcache"
    /\ CacheIsLive
    /\ entity' = [entity EXCEPT ![r] = cache.session]
    /\ Goto(r, "handle")
    /\ UNCHANGED <<now, database, cache, input, loaded, expected, maxSeq,
                   outcome>>

CacheMiss(r) ==
    /\ pc[r] = "getcache"
    /\ ~CacheIsLive
    /\ Goto(r, "selectrow")
    /\ UNCHANGED <<now, database, cache, memory, outcome>>

\* Redis raises outside the try block of SessionCache.get.
CacheGetFails(r) ==
    /\ pc[r] = "getcache"
    /\ "redis" \in Faults
    /\ Finish(r, "INTERNAL_ERROR")
    /\ UNCHANGED <<now, database, cache>>

\* JSONDecodeError, KeyError or ValueError: a logged miss, the entry is discarded.
CacheIsCorrupt(r) ==
    /\ pc[r] = "getcache"
    /\ "corrupt" \in Faults
    /\ CacheIsLive
    /\ Goto(r, "discard")
    /\ UNCHANGED <<now, database, cache, memory, outcome>>

\* Every other exception goes to the error handlers and the entry stays: an entry
\* of another shape raises TypeError or AttributeError, a message out of its
\* limits InvalidMessageError.
DeserializeFails(r) ==
    /\ pc[r] = "getcache"
    /\ "corrupt" \in Faults
    /\ CacheIsLive
    /\ \E code \in {"INTERNAL_ERROR", "INVALID_MESSAGE"} : Finish(r, code)
    /\ UNCHANGED <<now, database, cache>>

DiscardCorrupt(r) ==
    /\ pc[r] = "discard"
    /\ CacheInvalidate
    /\ Goto(r, "selectrow")
    /\ UNCHANGED <<now, database, memory, outcome>>

\* The row and, by selectinload, its messages are read by two statements.
SelectRow(r) ==
    /\ pc[r] = "selectrow"
    /\ \/ /\ stored = NULL
          /\ Finish(r, "SESSION_NOT_FOUND")
       \/ /\ stored # NULL
          /\ loaded' = [loaded EXCEPT ![r] = stored]
          /\ Goto(r, "selectmessages")
          /\ UNCHANGED <<input, entity, expected, maxSeq, outcome>>
    /\ UNCHANGED <<now, database, cache>>

SelectMessages(r) ==
    /\ pc[r] = "selectmessages"
    /\ entity' = [entity EXCEPT ![r] =
                     [loaded[r] EXCEPT !.messages = stored.messages]]
    /\ Goto(r, "fill")
    /\ UNCHANGED <<now, database, cache, input, loaded, expected, maxSeq,
                   outcome>>

FillCache(r) ==
    /\ pc[r] = "fill"
    /\ CacheSet(entity[r])
    /\ Goto(r, "handle")
    /\ UNCHANGED <<now, database, memory, outcome>>

-----------------------------------------------------------------------------
(* OnboardingService, once it has the session. *)

EchoPrefixLength == 21    \* len("Recebi sua mensagem: ")

\* Which exception handle_user_message raises between get and save, if any.
MessageError(r) ==
    LET s == entity[r]
        length == input[r].length
    IN  IF IsExpired(s, now) THEN "SESSION_EXPIRED"
        ELSE IF AppendError(s, now, length, FALSE) # "none"
             THEN AppendError(s, now, length, FALSE)
        ELSE AppendError(AppendMessage(s, "user", r, now), now,
                         EchoPrefixLength + length, FALSE)

\* Its transaction, begun only if the cache missed, has nothing to commit, but
\* its COMMIT may raise.
AnswerGet(r) ==
    /\ pc[r] = "handle"
    /\ input[r].op = "get"
    /\ \/ Finish(r, "ok")
       \/ /\ CommitFirst
          /\ loaded[r] # NULL
          /\ "commit" \in Faults
          /\ Finish(r, "INTERNAL_ERROR")
    /\ UNCHANGED <<now, database, cache>>

HandleUserMessage(r) ==
    /\ pc[r] = "handle"
    /\ input[r].op = "message"
    /\ \/ /\ MessageError(r) # "none"
          /\ Finish(r, MessageError(r))
       \/ /\ MessageError(r) = "none"
          /\ expected' = [expected EXCEPT ![r] = entity[r].revision]
          /\ entity' = [entity EXCEPT ![r] =
                 AppendMessage(AppendMessage(@, "user", r, now),
                               "assistant", r, now)]
          /\ Goto(r, "check")
          /\ UNCHANGED <<input, loaded, maxSeq, outcome>>
    /\ UNCHANGED <<now, database, cache>>

HandleTransition(r) ==
    /\ pc[r] = "handle"
    /\ input[r].op = "transition"
    /\ \/ /\ ~CanTransition(entity[r], input[r].target)
          /\ Finish(r, "INVALID_SESSION_STATE")
       \/ /\ CanTransition(entity[r], input[r].target)
          /\ expected' = [expected EXCEPT ![r] = entity[r].revision]
          /\ entity' = [entity EXCEPT ![r] =
                 TransitionTo(@, input[r].target, now)]
          /\ Goto(r, "check")
          /\ UNCHANGED <<input, loaded, maxSeq, outcome>>
    /\ UNCHANGED <<now, database, cache>>

-----------------------------------------------------------------------------
(* PgSessionRepository.save and add. *)

CheckOnlyExistence(r) ==       \* mutant: the revisions are not compared
    /\ pc[r] = "check"
    /\ \/ /\ stored = NULL
          /\ Finish(r, "STALE_REVISION")
       \/ /\ stored # NULL
          /\ loaded' = [loaded EXCEPT ![r] = stored]
          /\ Goto(r, "maxseq")
          /\ UNCHANGED <<input, entity, expected, maxSeq, outcome>>
    /\ UNCHANGED <<now, database, cache>>

\* SELECT the row, without FOR UPDATE, and compare its revision.  The cache is
\* invalidated when the revision differs, not when there is no row.
CheckRevision(r) ==
    /\ pc[r] = "check"
    /\ \/ /\ stored = NULL
          /\ Finish(r, "STALE_REVISION")
       \/ /\ stored # NULL
          /\ stored.revision # expected[r]
          /\ Goto(r, "invalidate")
          /\ UNCHANGED <<memory, outcome>>
       \/ /\ stored # NULL
          /\ stored.revision = expected[r]
          /\ loaded' = [loaded EXCEPT ![r] = stored]
          /\ Goto(r, "maxseq")
          /\ UNCHANGED <<input, entity, expected, maxSeq, outcome>>
    /\ UNCHANGED <<now, database, cache>>

RefreshStale(r) ==             \* mutant: the entity in hand is cached instead
    /\ pc[r] = "invalidate"
    /\ CacheSet(entity[r])
    /\ Finish(r, "STALE_REVISION")
    /\ UNCHANGED <<now, database>>

InvalidateStale(r) ==
    /\ pc[r] = "invalidate"
    /\ CacheInvalidate
    /\ Finish(r, "STALE_REVISION")
    /\ UNCHANGED <<now, database>>

SelectMaxSequence(r) ==
    /\ pc[r] = "maxseq"
    /\ maxSeq' = [maxSeq EXCEPT ![r] = MaxSequence(stored.messages)]
    /\ Goto(r, "flush")
    /\ UNCHANGED <<now, database, cache, input, entity, loaded, expected,
                   outcome>>

\* INSERT or UPDATE of the session row, which waits for the transaction holding
\* its lock, then the INSERTs.  Only add() maps an IntegrityError.
Flush(r) ==
    /\ pc[r] = "flush"
    /\ lock = NULL
    /\ \/ /\ input[r].op = "start"
          /\ stored # NULL
          /\ Finish(r, "SESSION_ALREADY_EXISTS")
          /\ UNCHANGED lock
       \/ /\ input[r].op # "start"
          /\ ViolatesUnique(NewMessages(r))
          /\ Finish(r, "INTERNAL_ERROR")
          /\ UNCHANGED lock
       \/ /\ IF input[r].op = "start" THEN stored = NULL
             ELSE ~ViolatesUnique(NewMessages(r))
          /\ lock' = r
          /\ Goto(r, "writecache")
          /\ UNCHANGED <<memory, outcome>>
    /\ UNCHANGED <<now, stored, outbox, cache>>

WriteNoCache(r) ==             \* mutant: save() leaves the cache alone
    /\ pc[r] = "writecache"
    /\ Goto(r, IF CommitFirst THEN "commit" ELSE "respond")
    /\ UNCHANGED <<now, database, cache, memory, outcome>>

\* The cache is written before the transaction commits.
WriteCache(r) ==
    /\ pc[r] = "writecache"
    /\ CacheSet(entity[r])
    /\ Goto(r, IF CommitFirst THEN "commit" ELSE "respond")
    /\ UNCHANGED <<now, database, memory, outcome>>

-----------------------------------------------------------------------------
(* get_db_session around the endpoint: commit, and the response. *)

ApplyTransaction(r) ==
    /\ stored' = IF input[r].op = "start" THEN entity[r] ELSE UpdatedRow(r)
    /\ outbox' = outbox \cup EventsOf(r)

Commit(r) ==
    /\ pc[r] = "commit"
    /\ ApplyTransaction(r)
    /\ lock' = NULL
    /\ IF CommitFirst
       THEN Goto(r, "respond") /\ UNCHANGED <<memory, outcome>>
       ELSE Finish(r, "ok")
    /\ UNCHANGED <<now, cache>>

CommitFailsUnclosed(r) ==      \* mutant: the AsyncSession is not closed
    /\ pc[r] = "commit"
    /\ "commit" \in Faults
    /\ ApplyTransaction(r) \/ UNCHANGED <<stored, outbox>>
    /\ UNCHANGED lock
    /\ Finish(r, "INTERNAL_ERROR")
    /\ UNCHANGED <<now, cache>>

CommitFailsRetried(r) ==       \* mutant: the endpoint is run once more
    /\ pc[r] = "commit"
    /\ "commit" \in Faults
    /\ ApplyTransaction(r) \/ UNCHANGED <<stored, outbox>>
    /\ lock' = NULL
    /\ Goto(r, "getcache")
    /\ UNCHANGED <<now, cache, memory, outcome>>

\* COMMIT raises: the transaction is rolled back, or it was applied and only the
\* confirmation is lost.  A response already sent cannot be taken back.
CommitFails(r) ==
    /\ pc[r] = "commit"
    /\ "commit" \in Faults
    /\ ApplyTransaction(r) \/ UNCHANGED <<stored, outbox>>
    /\ lock' = NULL
    /\ Finish(r, "INTERNAL_ERROR")
    /\ UNCHANGED <<now, cache>>

Respond(r) ==
    /\ pc[r] = "respond"
    /\ IF CommitFirst
       THEN Finish(r, "ok")
       ELSE /\ Goto(r, "commit")
            /\ outcome' = [outcome EXCEPT ![r] = "ok"]
            /\ UNCHANGED memory
    /\ UNCHANGED <<now, database, cache>>

-----------------------------------------------------------------------------
(* The environment. *)

QueryFails(r) ==
    /\ pc[r] \in {"selectrow", "selectmessages", "check", "maxseq", "flush"}
    /\ "db" \in Faults
    /\ Finish(r, "INTERNAL_ERROR")
    /\ UNCHANGED <<now, database, cache>>

\* Every request in flight loses its connection, Postgres rolls back, Redis
\* keeps what it was told.
Crash ==
    /\ "crash" \in Faults
    /\ \E r \in Requests : InFlight(r)
    /\ pc' = [r \in Requests |-> IF InFlight(r) THEN "done" ELSE pc[r]]
    /\ outcome' = [r \in Requests |->
                      IF r \in Unanswered THEN "DISCONNECTED" ELSE outcome[r]]
    /\ entity' = [r \in Requests |-> NULL]
    /\ loaded' = [r \in Requests |-> NULL]
    /\ lock' = NULL
    /\ UNCHANGED <<now, stored, outbox, cache, input, expected, maxSeq>>

LoseCacheEntry ==
    /\ "evict" \in Faults
    /\ cache # NULL
    /\ cache' = NULL
    /\ UNCHANGED <<now, database, pc, memory, outcome>>

Tick ==
    /\ now < MaxTime
    /\ now' = now + 1
    /\ UNCHANGED <<database, cache, pc, memory, outcome>>

\* Every client has its answer: the end of a finite run, not a deadlock.
AllServed ==
    /\ \A r \in Requests : pc[r] = "done"
    /\ UNCHANGED vars

-----------------------------------------------------------------------------
\* The steps the event loop takes on its own for request r.
Serve(r) ==
    \/ CacheHit(r) \/ CacheMiss(r) \/ DiscardCorrupt(r)
    \/ SelectRow(r) \/ SelectMessages(r) \/ FillCache(r)
    \/ AnswerGet(r) \/ HandleUserMessage(r) \/ HandleTransition(r)
    \/ CheckRevision(r) \/ InvalidateStale(r) \/ SelectMaxSequence(r)
    \/ Flush(r) \/ WriteCache(r) \/ Commit(r) \/ Respond(r)

Disturb(r) ==
    \/ CacheGetFails(r) \/ CacheIsCorrupt(r) \/ DeserializeFails(r)
    \/ QueryFails(r) \/ CommitFails(r)

Next ==
    \/ \E r \in Requests : Arrive(r) \/ Serve(r) \/ Disturb(r)
    \/ Crash
    \/ LoseCacheEntry
    \/ Tick
    \/ AllServed

Spec == Init /\ [][Next]_vars

\* asyncio resumes every coroutine whose await is over, Postgres grants a row
\* lock that is free: a request that can take a step takes one.
FairSpec == Spec /\ \A r \in Requests : WF_vars(Serve(r))

-----------------------------------------------------------------------------
(* Safety whatever clients do and whatever fails. *)

\* The committed conversation is numbered 0, 1, 2, ... without gap or repetition
\* although every request numbers its messages in memory, from a copy that may be
\* stale, torn or never committed, and save() keeps only "sequence > max_seq".
MessagesNumbered == stored # NULL => IsNumbered(stored.messages)

\* A user message is committed together with the assistant's reply to it, next to
\* it and by the same request, and after the greeting no reply without its user
\* message: no interleaving stores half a turn, or two turns interleaved.
TurnsStayTogether ==
    stored # NULL =>
        \A m \in stored.messages :
            /\ m.role = "user" =>
                   [sequence |-> m.sequence + 1, role |-> "assistant",
                    by |-> m.by] \in stored.messages
            /\ m.role # "user" /\ m.sequence > 0 =>
                   [sequence |-> m.sequence - 1, role |-> "user",
                    by |-> m.by] \in stored.messages

\* A request writes each of its messages once, under one number, although its copy
\* travels through the cache into the saves of other requests, and although a COMMIT
\* that raised may have been applied.
TurnsAreStoredOnce ==
    stored # NULL =>
        \A m, n \in stored.messages : m.by = n.by /\ m.role = n.role => m = n

\* A request refused with a status below 500 has left nothing behind, neither in the
\* tables nor in the cache from which other requests go on.
RefusedRequestsLeaveNoTrace ==
    \A r \in Requests :
        Refused(r) =>
            /\ \A e \in outbox : e.by # r
            /\ stored # NULL => \A m \in stored.messages : m.by # r
            /\ cache # NULL => \A m \in cache.session.messages : m.by # r

-----------------------------------------------------------------------------
(* Safety whatever clients do and whatever fails, when the commit comes     *)
(* before the response.                                                     *)

AppendedEvent(r, n) ==
    [by |-> r, type |-> "session.message_appended", sequence |-> n]

\* Events "are persisted in the same DB transaction as state changes": the outbox has
\* both events of every turn that was answered 200, under consecutive numbers, also
\* when its client saved a copy that others wrote to.
AnsweredTurnsAreTold ==
    \A r \in Requests :
        outcome[r] = "ok" /\ input[r].op = "message" =>
            \E e \in outbox : {AppendedEvent(r, e.sequence),
                               AppendedEvent(r, e.sequence + 1)} \subseteq outbox

\* No message is stored behind the back of the outbox, unless its client was told
\* that its request failed: a copy of a rolled back turn may be in the cache, and go
\* into the database with the save of another request.
StoredMessagesAreTold ==
    stored # NULL =>
        \A m \in stored.messages :
            \/ m.sequence = 0
            \/ AppendedEvent(m.by, m.sequence) \in outbox
            \/ outcome[m.by] \in {"INTERNAL_ERROR", "DISCONNECTED"}

-----------------------------------------------------------------------------
(* Safety for one client that waits for its answers (MaxWriters = 1), with *)
(* the commit before the response, whoever reads.  These hold when commits *)
(* get lost (or the process dies) or when Redis fails; when both happen, a *)
(* copy that was never committed can survive in the cache next to another  *)
(* content of the same revision.                                           *)

\* A revision names one content: a cached copy that carries the committed
\* revision is the committed session.  The revision check of save() can therefore
\* tell every stale or rolled back copy.
CacheAgreesAtSameRevision ==
    CacheIsLive /\ stored # NULL /\ cache.session.revision = stored.revision
        => cache.session = stored

Writes(r) ==
    CASE input[r].op = "start" -> {"assistant"}
      [] input[r].op = "message" -> {"user", "assistant"}
      [] OTHER -> {}

\* A client that was answered 200 or 201 finds its messages in the database.
AnsweredMessagesAreStored ==
    \A r \in Requests :
        outcome[r] = "ok" =>
            \A role \in Writes(r) :
                stored # NULL /\ \E m \in stored.messages :
                                     m.by = r /\ m.role = role

\* The outbox tells the conversation exactly: one message_appended event for each
\* committed message after the greeting, with its number and author, and no
\* event of a request that was rolled back.
OutboxMatchesConversation ==
    {<<e.by, e.sequence>> :
        e \in {e \in outbox : e.type = "session.message_appended"}}
      = IF stored = NULL THEN {}
        ELSE {<<m.by, m.sequence>> :
                 m \in {m \in stored.messages : m.sequence > 0}}

\* A terminal session is never touched again, whichever old copy of it a later
\* request works on.
TerminalSessionsStay ==
    [][stored # NULL /\ IsTerminal(stored) => stored' = stored]_vars

\* "update only if DB revision matches expected": what a commit makes visible is
\* newer than what it replaces, in revision and in activity.
CommitsMoveForward ==
    [][stored # NULL /\ stored' # stored =>
          /\ stored'.revision > stored.revision
          /\ stored'.last_active_at >= stored.last_active_at]_vars

\* The columns of the row belong to one history of the session: the milestones are
\* those of its state, in order, and the deadline that of its last activity,
\* although every save writes only the columns it changed.
StoredSessionIsLegal ==
    stored # NULL =>
        /\ stored.state = "completed" <=> stored.completed_at # NoTime
        /\ stored.completed_at # NoTime =>
               /\ stored.submitted_at # NoTime
               /\ stored.submitted_at <= stored.completed_at
        /\ stored.submitted_at # NoTime =>
               /\ stored.state \in {"submitted", "completed", "failed"}
               /\ stored.confirmed_at # NoTime
               /\ stored.confirmed_at <= stored.submitted_at
        /\ ~IsTerminal(stored) =>
               stored.expires_at = stored.last_active_at + Ttl

History ==
    INSTANCE SessionHistory WITH
        document <- stored,
        applied <- {e.by : e \in outbox},
        Moments <- 0 .. MaxTime

\* The store implements the single document of SessionHistory: crashes, failed
\* commits, a failing, evicting or stale cache and concurrent readers never make
\* a request take effect twice, in part, or on anything but the current session.
ImplementsHistory == History!Spec

\* Nobody has read the session, and no client has been told of a failure.
CleanSoFar ==
    \A r \in Requests :
        input[r].op # "get" /\ outcome[r] \notin {"INTERNAL_ERROR", "DISCONNECTED"}

\* A client alone never meets a conflict with itself, when every Redis command takes
\* effect: until another client reads or a failure is reported, no save finds a
\* newer revision than its own, or a message where it puts its own, although every
\* request goes on from a copy that was cached before its commit, and that may
\* expire, get lost or be discarded at any step.
LoneClientMeetsNoConflict ==
    CleanSoFar =>
        \A r \in Requests :
            /\ outcome[r] # "STALE_REVISION"
            /\ pc[r] = "flush" /\ input[r].op # "start"
                   => ~ViolatesUnique(NewMessages(r))

\* "Sliding TTL bumps the deadline this far on every interaction": nobody is told
\* that the session has expired while, in the database, the deadline has not
\* passed.  Expiry is judged on the copy in the cache, which the expired path
\* never refreshes: it holds for a client alone, not next to another reader.
ExpiredAnswerIsTrue ==
    [][\A r \in Requests :
          outcome[r] = "none" /\ outcome'[r] = "SESSION_EXPIRED"
              => stored # NULL /\ IsExpired(stored, now)]_vars

-----------------------------------------------------------------------------
(* Claims of the code's comments and tests that single runs refute. *)

\* "Cache failures must not break the request path": with Redis as the only
\* failure, nobody is answered 500.
CacheFailuresAreHarmless ==
    \A r \in Requests : outcome[r] # "INTERNAL_ERROR"

\* SendMessageRequest accepts contents of 1 to 8000 characters, the limit of a
\* message: none of them is refused as an invalid message.
ValidContentIsAccepted ==
    \A r \in Requests : outcome[r] # "INVALID_MESSAGE"

\* "Cache may have been stale; invalidate so the next read goes to DB": the entry
\* behind a STALE_REVISION answer is gone when the answer is given.
StaleAnswerDropsEntry ==
    [][\A r \in Requests :
          outcome[r] = "none" /\ outcome'[r] = "STALE_REVISION"
              => cache' = NULL]_vars

-----------------------------------------------------------------------------
(* Liveness. *)

\* Every request comes to an end, whatever fails around it: nobody waits for a
\* row lock whose holder waits for somebody else.
EveryRequestEnds ==
    \A r \in Requests : InFlight(r) ~> pc[r] = "done"
=============================================================================
