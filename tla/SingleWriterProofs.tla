------------------------- MODULE SingleWriterProofs --------------------------
(***************************************************************************)
(* One client that waits for its answers, any number of readers: the store *)
(* implements the single document of SessionHistory, its cache, answers    *)
(* and outbox are right, and the stored session is legal, moves forward    *)
(* and stays when it is over, for any requests, times and contents, when   *)
(* not both Redis writes and commits get lost.                             *)
(*                                                                         *)
(* The argument.  While the writer runs nobody else changes the database.  *)
(* Its copy of the session comes from the cache or from the database, and  *)
(* if its revision is the stored one it is the stored session.  So a save  *)
(* that passes the revision check holds the command's effect on the stored *)
(* session, and that is what the commit makes visible.  A copy that was    *)
(* never committed can be in the cache, but only with a newer revision:    *)
(* the next save to commit a newer revision overwrites it first.           *)
(***************************************************************************)
EXTENDS ConversationProofs

\* The client waits for its answers; no commit is lost, or no Redis command.
SingleWriter ==
    /\ CommitFirst
    /\ MaxWriters = 1
    /\ "redis" \notin Faults \/ Faults \cap {"commit", "crash"} = {}

\* A writing request that is under way, and where it may no longer be refused as
\* stale.
Writer(r) == InFlight(r) /\ input[r].op # "get"
Saving == {"maxseq", "flush", "writecache", "commit"}

\* A copy that was read from the database: an older revision, or the stored row.
FromDb(c) ==
    /\ stored # NULL
    /\ c.revision <= stored.revision
    /\ c.revision = stored.revision => c = stored

\* A copy that the revision check can tell from the stored row.
Agrees(c) == stored # NULL /\ c.revision = stored.revision => c = stored

\* What the command of r makes of the session s, which was not active any later.
Commanded(r, s, e) ==
    \E t \in 0 .. MaxTime :
      /\ s.last_active_at <= t
      /\ \/ /\ input[r].op = "message"
            /\ ~IsTerminal(s) /\ ~IsExpired(s, t)
            /\ e = AppendMessage(AppendMessage(s, "user", r, t), "assistant", r, t)
         \/ /\ input[r].op = "transition"
            /\ CanTransition(s, input[r].target)
            /\ e = TransitionTo(s, input[r].target, t)

Greeted(r, e) ==
    \E t \in 0 .. MaxTime : e = AppendMessage(NewSession(t), "assistant", r, t)

\* r is in neither of the tables.
Absent(r) ==
    /\ \A e \in outbox : e.by # r
    /\ stored # NULL => \A m \in stored.messages : m.by # r

WritesAreStored(r) ==
    \A role \in Writes(r) :
        stored # NULL /\ \E m \in stored.messages : m.by = r /\ m.role = role

RequestOk(r) ==
    /\ outcome[r] # "none" => pc[r] = "done"
    /\ pc[r] = "selectmessages" => FromDb(loaded[r])
    /\ pc[r] = "fill" => FromDb(entity[r])
    /\ pc[r] = "handle" /\ Writer(r) => Agrees(entity[r])
    /\ pc[r] = "check" /\ stored # NULL /\ stored.revision = expected[r]
           => Commanded(r, stored, entity[r])
    /\ pc[r] \in Saving /\ input[r].op # "start" =>
           /\ stored.revision = expected[r]
           /\ loaded[r] = stored
           /\ Commanded(r, stored, entity[r])
    /\ pc[r] \in Saving /\ input[r].op = "start" => Greeted(r, entity[r])
    /\ pc[r] \in Saving => Absent(r)
    /\ pc[r] = "respond" \/ outcome[r] = "ok" => WritesAreStored(r)

\* The cached copy was read from the database, or is about to be committed, or was
\* never committed and is newer than what is.
CacheOk ==
    cache # NULL =>
        \/ FromDb(cache.session)
        \/ \E r \in Requests : pc[r] = "commit" /\ cache.session = entity[r]
        \/ /\ "redis" \notin Faults
           /\ \A r \in Requests : pc[r] # "commit"
           /\ stored = NULL \/ cache.session.revision > stored.revision

\* The inductive invariant, next to StoreInv and ConversationInv.
SingleInv ==
    /\ now \in 0 .. MaxTime
    /\ \A q, r \in Requests : Writer(q) /\ Writer(r) => q = r
    /\ stored # NULL => stored.messages # {}
    /\ \A r \in Requests : RequestOk(r)
    /\ CacheOk
    /\ OutboxMatchesConversation

-----------------------------------------------------------------------------
(* No copy has been active in the future, whatever clients do and whatever *)
(* fails.                                                                  *)

Past(s) == s # NULL => s.last_active_at <= now

PastInv ==
    /\ Past(stored)
    /\ cache # NULL => Past(cache.session)
    /\ \A q \in Requests : Past(entity[q]) /\ Past(loaded[q])

\* What a step of r copies is there already, and what it makes it makes now.
LEMMA StepStaysPast ==
    ASSUME PastInv, NEW r \in Requests, UNCHANGED now,
           \A q \in Requests \ {r} : entity'[q] = entity[q] /\ loaded'[q] = loaded[q],
           cache' \in {cache, NULL} \/ cache'.session = entity[r],
           Past(stored'), Past(entity'[r]), Past(loaded'[r])
    PROVE  PastInv'
  BY DEF PastInv, Past

LEMMA FinishStaysPast ==
    ASSUME StoreInv, PastInv, NEW r \in Requests, NEW code, Finish(r, code),
           UNCHANGED now, Past(stored'), cache' \in {cache, NULL}
    PROVE  PastInv'
<1>1. /\ entity' = [entity EXCEPT ![r] = NULL]
      /\ loaded' = [loaded EXCEPT ![r] = NULL]
      /\ entity \in [Requests -> Session \cup {NULL}]
      /\ loaded \in [Requests -> Session \cup {NULL}]
  BY DEF StoreInv, TypeOK, Finish
<1>2. Past(entity'[r]) /\ Past(loaded'[r])
  BY <1>1 DEF Past
<1>3. \A q \in Requests \ {r} : entity'[q] = entity[q] /\ loaded'[q] = loaded[q]
  BY <1>1
<1> QED
  BY <1>2, <1>3, StepStaysPast

\* A step of r that gives it the entity e.
LEMMA EntityStaysPast ==
    ASSUME StoreInv, PastInv, NEW r \in Requests, NEW e, Past(e),
           entity' = [entity EXCEPT ![r] = e],
           UNCHANGED <<now, stored, loaded>>,
           cache' \in {cache, NULL} \/ cache'.session = entity[r]
    PROVE  PastInv'
<1>1. entity \in [Requests -> Session \cup {NULL}]
  BY DEF StoreInv, TypeOK
<1>2. entity'[r] = e /\ \A q \in Requests \ {r} : entity'[q] = entity[q]
  BY <1>1
<1> QED
  BY <1>2, StepStaysPast DEF PastInv

LEMMA ArriveStaysPast ==
    ASSUME StoreInv, PastInv, NEW r \in Requests, Arrive(r)
    PROVE  PastInv'
<1>1. CASE StartSession(r)
  <2>1. PICK e : e = AppendMessage(NewSession(now), "assistant", r, now)
    OBVIOUS
  <2>2. PICK new : new = NewSession(now)
    OBVIOUS
  <2>3. now \in Time /\ "assistant" \in MessageRole
    BY DEF StoreInv, TypeOK, MessageRole
  <2>4. Sound(new) /\ ~IsTerminal(new)
    BY <2>2, <2>3, NewSessionIsSound DEF NewSession, IsTerminal, TerminalStates
  <2>5. e.last_active_at = now
    BY <2>1, <2>2, <2>3, <2>4, AppendMessageEffect DEF Effect
  <2>6. Past(e)
    BY <2>3, <2>5 DEF Past, Time
  <2>7. entity' = [entity EXCEPT ![r] = e] /\ UNCHANGED <<now, stored, loaded, cache>>
    BY <1>1, <2>1 DEF StartSession, database
  <2> QED
    BY <2>6, <2>7, EntityStaysPast
<1>2. ASSUME NEW op, NEW length, NEW target, Receive(r, op, length, target)
      PROVE  PastInv'
  BY <1>2 DEF Receive, database, PastInv, Past
<1> QED
  BY <1>1, <1>2 DEF Arrive

LEMMA HandleStaysPast ==
    ASSUME StoreInv, PastInv, NEW r \in Requests,
           HandleUserMessage(r) \/ HandleTransition(r)
    PROVE  PastInv'
<1>1. /\ now \in Time /\ pc[r] = "handle" /\ Past(stored')
      /\ UNCHANGED <<now, stored, cache>>
  BY DEF StoreInv, TypeOK, HandleUserMessage, HandleTransition, database,
         PastInv, Past
<1>2. Sound(entity[r])
  BY <1>1 DEF StoreInv, RequestInv, Consistent
<1>3. ASSUME NEW code, Finish(r, code) PROVE PastInv'
  BY <1>1, <1>3, FinishStaysPast
<1>4. ASSUME NEW e, e.last_active_at = now, entity' = [entity EXCEPT ![r] = e],
             UNCHANGED loaded
      PROVE  PastInv'
  <2>1. Past(e)
    BY <1>1, <1>4 DEF Past, Time
  <2> QED
    BY <1>1, <1>4, <2>1, EntityStaysPast
<1>5. CASE HandleUserMessage(r) /\ MessageError(r) = "none"
  <2>1. PICK asked : asked = AppendMessage(entity[r], "user", r, now)
    OBVIOUS
  <2>2. PICK answered : answered = AppendMessage(asked, "assistant", r, now)
    OBVIOUS
  <2>3. ~IsTerminal(entity[r]) /\ "user" \in MessageRole /\ "assistant" \in MessageRole
    BY <1>5 DEF MessageError, AppendError, MessageRole
  <2>4. Sound(asked) /\ ~IsTerminal(asked)
    BY <1>1, <1>2, <2>1, <2>3, AppendMessageEffect DEF Effect
  <2>5. answered.last_active_at = now
    BY <1>1, <2>2, <2>3, <2>4, AppendMessageEffect DEF Effect
  <2>6. entity' = [entity EXCEPT ![r] = answered] /\ UNCHANGED loaded
    BY <1>5, <2>1, <2>2 DEF HandleUserMessage
  <2> QED
    BY <1>4, <2>5, <2>6
<1>6. CASE HandleTransition(r) /\ CanTransition(entity[r], input[r].target)
  <2>1. PICK moved : moved = TransitionTo(entity[r], input[r].target, now)
    OBVIOUS
  <2>2. input[r].target \in SessionState
    <3>1. entity[r].state \in SessionState
      BY <1>2 DEF Sound, Session
    <3> QED
      BY <1>6, <3>1, TransitionsType DEF CanTransition
  <2>3. moved.last_active_at = now
    BY <1>1, <1>2, <1>6, <2>1, <2>2, TransitionToEffect DEF Effect
  <2>4. entity' = [entity EXCEPT ![r] = moved] /\ UNCHANGED loaded
    BY <1>6, <2>1 DEF HandleTransition
  <2> QED
    BY <1>4, <2>3, <2>4
<1> QED
  BY <1>3, <1>5, <1>6 DEF HandleUserMessage, HandleTransition

LEMMA GetStaysPast ==
    ASSUME StoreInv, PastInv, NEW r \in Requests,
           \/ CacheHit(r) \/ SelectRow(r) \/ SelectMessages(r) \/ CheckRevision(r)
    PROVE  PastInv'
<1>1. /\ loaded \in [Requests -> Session \cup {NULL}]
      /\ UNCHANGED <<now, stored, cache>> /\ Past(stored')
  BY DEF StoreInv, TypeOK, CacheHit, SelectRow, SelectMessages, CheckRevision,
         database, PastInv, Past
<1>2. CASE CacheHit(r)
  <2>1. entity' = [entity EXCEPT ![r] = cache.session] /\ UNCHANGED loaded
        /\ Past(cache.session)
    BY <1>2 DEF CacheHit, CacheIsLive, PastInv
  <2> QED
    BY <1>1, <2>1, EntityStaysPast
<1>3. CASE SelectMessages(r)
  <2>1. PICK e : e = [loaded[r] EXCEPT !.messages = stored.messages]
    OBVIOUS
  <2>2. loaded[r] \in Session /\ loaded[r] # NULL
    BY <1>1, <1>3 DEF SelectMessages, StoreInv, RequestInv, Consistent
  <2>3. e.last_active_at = loaded[r].last_active_at
    BY <2>1, <2>2 DEF Session
  <2>4. Past(e)
    BY <2>2, <2>3 DEF PastInv, Past
  <2>5. entity' = [entity EXCEPT ![r] = e] /\ UNCHANGED loaded
    BY <1>3, <2>1 DEF SelectMessages
  <2> QED
    BY <1>1, <2>4, <2>5, EntityStaysPast
<1>4. ASSUME NEW code, Finish(r, code) PROVE PastInv'
  BY <1>1, <1>4, FinishStaysPast
<1>5. ASSUME loaded' = [loaded EXCEPT ![r] = stored], UNCHANGED entity
      PROVE  PastInv'
  BY <1>1, <1>5 DEF PastInv, Past
<1>6. ASSUME UNCHANGED <<loaded, entity>> PROVE PastInv'
  BY <1>1, <1>6 DEF PastInv, Past
<1> QED
  BY <1>2, <1>3, <1>4, <1>5, <1>6 DEF SelectRow, CheckRevision, memory

\* The row of an UPDATE is as old as the entity or as the row it overwrites.
LEMMA CommitStaysPast ==
    ASSUME StoreInv, PastInv, NEW r \in Requests, Commit(r) \/ CommitFails(r)
    PROVE  PastInv'
<1>1. /\ pc[r] = "commit" /\ Holds(pc[r]) /\ RequestInv(r)
      /\ UNCHANGED <<now, cache>>
  BY DEF Commit, CommitFails, Holds, StoreInv
<1>2. entity[r] # NULL /\ (input[r].op # "start" => stored # NULL)
  BY <1>1 DEF RequestInv, Consistent
<1>3. ApplyTransaction(r) => Past(stored')
  <2>1. CASE input[r].op = "start"
    BY <2>1 DEF ApplyTransaction, PastInv, Past
  <2>2. CASE input[r].op # "start"
    <3>1. UpdatedRow(r).last_active_at
              \in {entity[r].last_active_at, stored.last_active_at}
      BY DEF UpdatedRow, Column
    <3> QED
      BY <1>2, <2>2, <3>1 DEF ApplyTransaction, PastInv, Past
  <2> QED
    BY <2>1, <2>2
<1>4. Past(stored')
  BY <1>3 DEF Commit, CommitFails, PastInv, Past
<1>5. ASSUME NEW code, Finish(r, code) PROVE PastInv'
  BY <1>1, <1>4, <1>5, FinishStaysPast
<1>6. ASSUME UNCHANGED <<entity, loaded>> PROVE PastInv'
  BY <1>1, <1>4, <1>6 DEF PastInv, Past
<1> QED
  BY <1>5, <1>6 DEF Commit, CommitFails, memory

\* The other steps of a request copy at most its entity into the cache.
LEMMA OtherStepStaysPast ==
    ASSUME StoreInv, PastInv, NEW r \in Requests,
           \/ CacheMiss(r) \/ DiscardCorrupt(r) \/ FillCache(r) \/ AnswerGet(r)
           \/ InvalidateStale(r) \/ SelectMaxSequence(r) \/ Flush(r)
           \/ WriteCache(r) \/ Respond(r)
           \/ CacheGetFails(r) \/ CacheIsCorrupt(r) \/ DeserializeFails(r)
           \/ QueryFails(r)
    PROVE  PastInv'
<1>1. CASE /\ AnswerGet(r) \/ InvalidateStale(r) \/ Flush(r) \/ Respond(r)
                 \/ CacheGetFails(r) \/ DeserializeFails(r) \/ QueryFails(r)
           /\ \E code : Finish(r, code)
  <2>1. UNCHANGED <<now, stored>> /\ cache' \in {cache, NULL} /\ Past(stored')
    BY <1>1 DEF AnswerGet, InvalidateStale, Flush, Respond, CacheGetFails,
                DeserializeFails, QueryFails, CacheInvalidate, database, PastInv,
                Past
  <2> QED
    BY <1>1, <2>1, FinishStaysPast
<1>2. CASE UNCHANGED <<now, stored, entity, loaded>>
           /\ (cache' \in {cache, NULL} \/ cache'.session = entity[r])
  BY <1>2 DEF PastInv, Past
<1>3. CASE FillCache(r) \/ WriteCache(r)
  <2>1. UNCHANGED <<now, stored, entity, loaded>>
        /\ (cache' = cache \/ cache'.session = entity[r])
    BY <1>3 DEF FillCache, WriteCache, CacheSet, database, memory
  <2> QED
    BY <1>2, <2>1
<1>4. CASE CacheMiss(r) \/ DiscardCorrupt(r) \/ CacheIsCorrupt(r)
           \/ SelectMaxSequence(r)
  <2>1. UNCHANGED <<now, stored, entity, loaded>> /\ cache' \in {cache, NULL}
    BY <1>4 DEF CacheMiss, DiscardCorrupt, CacheIsCorrupt, SelectMaxSequence,
                CacheInvalidate, database, memory
  <2> QED
    BY <1>2, <2>1
<1>5. CASE AnswerGet(r) \/ InvalidateStale(r) \/ CacheGetFails(r)
           \/ DeserializeFails(r) \/ QueryFails(r)
  BY <1>1, <1>5 DEF AnswerGet, InvalidateStale, CacheGetFails, DeserializeFails,
                    QueryFails
<1>6. CASE Flush(r) \/ Respond(r)
  <2>1. \/ \E code : Finish(r, code)
        \/ UNCHANGED <<now, stored, entity, loaded, cache>>
    BY <1>6 DEF Flush, Respond, database, memory
  <2> QED
    BY <1>1, <1>2, <1>6, <2>1
<1> QED
  BY <1>3, <1>4, <1>5, <1>6

LEMMA EnvironmentStaysPast ==
    ASSUME StoreInv, PastInv,
           Crash \/ LoseCacheEntry \/ Tick \/ AllServed \/ UNCHANGED vars
    PROVE  PastInv'
<1>1. now \in Nat /\ now' \in {now, now + 1} /\ stored' = stored
      /\ cache' \in {cache, NULL}
  BY DEF StoreInv, TypeOK, Time, Crash, LoseCacheEntry, Tick, AllServed, vars,
         database
<1>2. \A q \in Requests : /\ entity'[q] \in {entity[q], NULL}
                          /\ loaded'[q] \in {loaded[q], NULL}
  BY DEF Crash, LoseCacheEntry, Tick, AllServed, vars, memory
<1>3. ASSUME NEW s, s = NULL \/ Sound(s), Past(s) PROVE Past(s)'
  <2>1. s # NULL => s.last_active_at \in Nat
    BY <1>3 DEF Sound, Session, Time
  <2> QED
    BY <1>1, <1>3, <2>1 DEF Past
<1>4. Past(NULL)'
  BY DEF Past
<1>5. /\ stored = NULL \/ Sound(stored)
      /\ cache # NULL => Sound(cache.session)
      /\ \A q \in Requests : /\ entity[q] = NULL \/ Sound(entity[q])
                             /\ loaded[q] = NULL \/ Sound(loaded[q])
  BY DEF StoreInv, RequestInv, Consistent
<1>6. \A q \in Requests : (Past(entity[q]) /\ Past(loaded[q]))'
  BY <1>2, <1>3, <1>4, <1>5 DEF PastInv
<1>7. (cache # NULL => Past(cache.session))'
  BY <1>1, <1>3, <1>5 DEF PastInv
<1> QED
  BY <1>1, <1>3, <1>5, <1>6, <1>7 DEF PastInv

LEMMA AlwaysPast == Spec => []PastInv
<1>1. Init => PastInv
  BY DEF Init, PastInv, Past
<1>2. StoreInv /\ PastInv /\ [Next]_vars => PastInv'
  BY ArriveStaysPast, HandleStaysPast, GetStaysPast, CommitStaysPast,
     OtherStepStaysPast, EnvironmentStaysPast DEF Next, Serve, Disturb
<1> QED
  BY <1>1, <1>2, AlwaysStore, PTL DEF Spec

-----------------------------------------------------------------------------
(* What the commands make of a session. *)

\* A turn adds two messages, numbered behind those that are there.
LEMMA TurnEffect ==
    ASSUME NEW s, Sound(s), NEW t \in Time, NEW r \in Requests
    PROVE  LET n == Cardinality(s.messages)
               asked == AppendMessage(s, "user", r, t)
               answered == AppendMessage(asked, "assistant", r, t)
           IN  /\ Sound(answered)
               /\ answered.revision > s.revision
               /\ answered.messages = s.messages \cup
                    {[sequence |-> n, role |-> "user", by |-> r],
                     [sequence |-> n + 1, role |-> "assistant", by |-> r]}
<1>1. "user" \in MessageRole /\ "assistant" \in MessageRole
  BY DEF MessageRole
<1>2. PICK asked : asked = AppendMessage(s, "user", r, t)
  OBVIOUS
<1>3. PICK answered : answered = AppendMessage(asked, "assistant", r, t)
  OBVIOUS
<1> DEFINE n == Cardinality(s.messages)
           question == [sequence |-> n, role |-> "user", by |-> r]
           reply == [sequence |-> n + 1, role |-> "assistant", by |-> r]
<1>4. Sound(asked)
  BY <1>1, <1>2, AppendMessageIsSound
<1>5. /\ Sound(answered)
      /\ answered.messages = asked.messages \cup
           {[sequence |-> Cardinality(asked.messages),
             role |-> "assistant", by |-> r]}
      /\ answered.revision > asked.revision
  BY <1>1, <1>3, <1>4, AppendMessageIsSound
<1>6. /\ asked.messages = s.messages \cup {question}
      /\ Cardinality(asked.messages) = n + 1
      /\ asked.revision > s.revision
  BY <1>1, <1>2, AppendMessageIsSound
<1> HIDE DEF n, question, reply
<1>7. answered.messages = s.messages \cup {question, reply}
  BY <1>5, <1>6 DEF question, reply
<1>8. answered.revision > s.revision
  BY <1>4, <1>5, <1>6 DEF Sound, Session
<1> QED
  BY <1>2, <1>3, <1>5, <1>7, <1>8 DEF n, question, reply

\* A command raises the revision and adds nothing but r's own messages, behind
\* those that were there.
LEMMA CommandedEffect ==
    ASSUME NEW r \in Requests, NEW s, Sound(s), NEW e, Commanded(r, s, e),
           \A m \in s.messages : m.by # r
    PROVE  /\ Sound(e)
           /\ e.revision > s.revision
           /\ s.messages \subseteq e.messages
           /\ \A m \in e.messages \ s.messages :
                  m.by = r /\ m.sequence >= Cardinality(s.messages)
           /\ input[r].op = "transition" => e.messages = s.messages
           /\ input[r].op = "message" =>
                  \A role \in {"user", "assistant"} :
                      \E m \in e.messages : m.by = r /\ m.role = role
<1> DEFINE n == Cardinality(s.messages)
<1>1. PICK t \in 0 .. MaxTime :
        \/ /\ input[r].op = "message"
           /\ e = AppendMessage(AppendMessage(s, "user", r, t), "assistant", r, t)
        \/ /\ input[r].op = "transition"
           /\ CanTransition(s, input[r].target)
           /\ e = TransitionTo(s, input[r].target, t)
  BY DEF Commanded
<1>2. t \in Time /\ n \in Nat /\ s.revision \in Nat
  BY FS_CardinalityType DEF Time, Sound, Session
<1>3. CASE input[r].op = "message"
  <2> DEFINE question == [sequence |-> n, role |-> "user", by |-> r]
             reply == [sequence |-> n + 1, role |-> "assistant", by |-> r]
  <2>1. /\ Sound(e)
        /\ e.messages = s.messages \cup {question, reply}
        /\ e.revision > s.revision
    BY <1>1, <1>2, <1>3, TurnEffect
  <2>2. question.by = r /\ reply.by = r /\ question.role = "user"
        /\ reply.role = "assistant" /\ question.sequence >= n
        /\ reply.sequence >= n
    BY <1>2
  <2> HIDE DEF question, reply
  <2> QED
    BY <1>3, <2>1, <2>2
<1>4. CASE input[r].op # "message"
  <2>1. /\ input[r].op = "transition"
        /\ e = TransitionTo(s, input[r].target, t)
        /\ input[r].target \in SessionState
    <3>1. s.state \in SessionState
      BY DEF Sound, Session
    <3> QED
      BY <1>1, <1>4, <3>1, TransitionsType DEF CanTransition
  <2>2. /\ Sound(e)
        /\ e.messages = s.messages
        /\ e.revision = s.revision + 1
    BY <1>2, <2>1, TransitionToIsSound
  <2> QED
    BY <1>2, <1>4, <2>2
<1> QED
  BY <1>3, <1>4

\* A new session carries the greeting, number 0, and nothing else.
LEMMA GreetedEffect ==
    ASSUME NEW r \in Requests, NEW e, Greeted(r, e)
    PROVE  /\ Sound(e)
           /\ e.messages = {[sequence |-> 0, role |-> "assistant", by |-> r]}
<1>1. PICK t \in 0 .. MaxTime : e = AppendMessage(NewSession(t), "assistant", r, t)
  BY DEF Greeted
<1>2. t \in Time
  BY DEF Time
<1> QED
  BY <1>1, <1>2, GreetingIsSound

-----------------------------------------------------------------------------
(* Steps that commit nothing. *)

\* The variables of the other requests are untouched.
Undisturbed(r) ==
    \A q \in Requests \ {r} :
        /\ pc'[q] = pc[q]
        /\ input'[q] = input[q]
        /\ entity'[q] = entity[q]
        /\ loaded'[q] = loaded[q]
        /\ expected'[q] = expected[q]
        /\ outcome'[q] = outcome[q]

\* A request is in flight exactly until it is answered, and writing requests are
\* under way one at a time.
LEMMA OneWriter ==
    ASSUME SingleWriter, SingleInv, NEW r \in Requests,
           NEW op, pc[r] = "idle", Admitted(op)
    PROVE  op = "get" \/ \A q \in Requests : ~Writer(q)
<1> DEFINE writers == {q \in Unanswered : input[q].op # "get"}
<1>1. ASSUME NEW q \in Requests, Writer(q)
      PROVE  writers = {q}
  <2>1. \A s \in Requests : InFlight(s) => outcome[s] = "none"
    BY DEF SingleInv, RequestOk, InFlight
  <2> QED
    BY <1>1, <2>1 DEF SingleInv, Unanswered, Writer
<1>2. \A q \in Requests : Cardinality({q}) = 1
  BY FS_Singleton
<1> QED
  BY <1>1, <1>2 DEF Admitted, SingleWriter

\* What a request that does nothing knows stays true.
LEMMA IdleStaysOk ==
    ASSUME NEW q \in Requests, RequestOk(q),
           pc'[q] = pc[q], input'[q] = input[q], entity'[q] = entity[q],
           loaded'[q] = loaded[q], expected'[q] = expected[q],
           outcome'[q] = outcome[q],
           UNCHANGED <<stored, outbox>>
    PROVE  RequestOk(q)'
<1>1. WritesAreStored(q) => WritesAreStored(q)'
  BY DEF WritesAreStored, Writes
<1>2. /\ FromDb(loaded[q]) => FromDb(loaded[q])'
      /\ FromDb(entity[q]) => FromDb(entity[q])'
      /\ Agrees(entity[q]) => Agrees(entity[q])'
      /\ Writer(q)' <=> Writer(q)
      /\ Absent(q) => Absent(q)'
  BY DEF FromDb, Agrees, Writer, InFlight, Absent
<1>3. /\ Commanded(q, stored, entity[q]) => Commanded(q, stored, entity[q])'
      /\ Greeted(q, entity[q]) => Greeted(q, entity[q])'
  BY DEF Commanded, Greeted
<1> QED
  BY <1>1, <1>2, <1>3 DEF RequestOk

\* A step of r that leaves the tables alone.
LEMMA QuietKeeps ==
    ASSUME SingleInv, NEW r \in Requests,
           UNCHANGED <<now, stored, outbox>>, Undisturbed(r),
           Writer(r)' => Writer(r) \/ \A q \in Requests : ~Writer(q),
           RequestOk(r)', CacheOk'
    PROVE  SingleInv'
<1>1. \A q \in Requests : RequestOk(q)'
  BY IdleStaysOk DEF SingleInv, Undisturbed
<1>2. \A q \in Requests \ {r} : Writer(q)' <=> Writer(q)
  BY DEF Undisturbed, Writer, InFlight
<1>3. \A q, s \in Requests : Writer(q)' /\ Writer(s)' => q = s
  BY <1>2 DEF SingleInv
<1>4. OutboxMatchesConversation'
  BY DEF SingleInv, OutboxMatchesConversation
<1> QED
  BY <1>1, <1>3, <1>4 DEF SingleInv

\* The cache, when r neither writes it before a commit nor is about to commit.
LEMMA CacheStaysOk ==
    ASSUME CacheOk, NEW r \in Requests,
           UNCHANGED stored, Undisturbed(r),
           pc[r] # "commit", pc'[r] # "commit",
           cache' \in {cache, NULL} \/ FromDb(cache'.session)
    PROVE  CacheOk'
<1>1. CASE cache' = NULL
  BY <1>1 DEF CacheOk
<1>2. CASE FromDb(cache'.session)
  BY <1>2 DEF CacheOk, FromDb
<1>3. CASE cache' = cache
  BY <1>3 DEF CacheOk, FromDb, Undisturbed
<1> QED
  BY <1>1, <1>2, <1>3

\* A step of r to a label before the commit.
LEMMA MoveKeeps ==
    ASSUME SingleWriter, StoreInv, SingleInv, NEW r \in Requests,
           pc[r] # "commit", pc'[r] # "commit", Undisturbed(r),
           UNCHANGED <<now, stored, outbox>>,
           IF pc[r] = "idle" THEN Admitted(input'[r].op)
           ELSE InFlight(r) /\ input'[r] = input[r],
           RequestOk(r)',
           cache' \in {cache, NULL} \/ FromDb(cache'.session)
    PROVE  SingleInv'
<1>1. Writer(r)' => Writer(r) \/ \A q \in Requests : ~Writer(q)
  <2>1. CASE pc[r] = "idle"
    BY <2>1, OneWriter DEF Writer
  <2>2. CASE pc[r] # "idle"
    BY <2>2 DEF Writer
  <2> QED
    BY <2>1, <2>2
<1>2. CacheOk'
  BY CacheStaysOk DEF SingleInv
<1> QED
  BY <1>1, <1>2, QuietKeeps

\* The end of a request that commits nothing.
LEMMA FinishKeeps ==
    ASSUME StoreInv, SingleInv, NEW r \in Requests, NEW code,
           Finish(r, code), UNCHANGED <<now, stored, outbox>>,
           pc[r] \notin {"idle", "commit"},
           code = "ok" => WritesAreStored(r),
           cache' \in {cache, NULL}
    PROVE  SingleInv'
<1>1. TypeOK
  BY DEF StoreInv
<1>2. /\ pc' = [pc EXCEPT ![r] = "done"]
      /\ outcome' = [outcome EXCEPT ![r] = IF @ = "none" THEN code ELSE @]
      /\ entity' = [entity EXCEPT ![r] = NULL]
      /\ loaded' = [loaded EXCEPT ![r] = NULL]
      /\ UNCHANGED <<input, expected>>
  BY DEF Finish, Goto
<1>3. pc'[r] = "done" /\ outcome'[r] \in {outcome[r], code}
  BY <1>1, <1>2 DEF TypeOK
<1>4. Undisturbed(r)
  BY <1>1, <1>2 DEF Undisturbed, TypeOK
<1>5. RequestOk(r)'
  <2>1. outcome'[r] = "ok" => WritesAreStored(r)
    BY <1>3 DEF SingleInv, RequestOk
  <2>2. WritesAreStored(r) => WritesAreStored(r)'
    BY <1>2 DEF WritesAreStored, Writes
  <2> QED
    BY <1>3, <2>1, <2>2 DEF RequestOk, Writer, InFlight, Saving
<1>6. CacheOk'
  BY <1>3, <1>4, CacheStaysOk DEF SingleInv
<1>7. ~Writer(r)'
  BY <1>3 DEF Writer, InFlight
<1> QED
  BY <1>4, <1>5, <1>6, <1>7, QuietKeeps

-----------------------------------------------------------------------------
(* One lemma per group of actions. *)

LEMMA ArriveKeeps ==
    ASSUME SingleWriter, StoreInv, ConversationInv, SingleInv,
           NEW r \in Requests, Arrive(r)
    PROVE  SingleInv'
<1>1. TypeOK /\ now \in 0 .. MaxTime /\ RequestOk(r)
  BY DEF StoreInv, SingleInv
<1>2. CASE StartSession(r)
  <2> DEFINE e == AppendMessage(NewSession(now), "assistant", r, now)
  <2>1. /\ pc[r] = "idle"
        /\ Admitted("start")
        /\ pc' = [pc EXCEPT ![r] = "flush"]
        /\ input' = [input EXCEPT ![r] = [NoInput EXCEPT !.op = "start"]]
        /\ entity' = [entity EXCEPT ![r] = e]
        /\ UNCHANGED <<now, stored, outbox, cache, loaded, expected, outcome>>
    BY <1>2 DEF StartSession, Goto, database
  <2>2. Greeted(r, e)
    BY <1>1 DEF Greeted
  <2>3. Absent(r)
    BY <2>1 DEF ConversationInv, Traceless, NoTrace, Early, Absent, Messages
  <2> HIDE DEF e
  <2>4. /\ pc'[r] = "flush" /\ input'[r].op = "start" /\ entity'[r] = e
        /\ outcome'[r] = "none"
    BY <1>1, <2>1 DEF TypeOK, NoInput, RequestOk
  <2>5. Undisturbed(r)
    BY <1>1, <2>1 DEF TypeOK, Undisturbed
  <2>6. Greeted(r, entity[r])' /\ Absent(r)'
    BY <2>1, <2>2, <2>3, <2>4 DEF Greeted, Absent
  <2>7. RequestOk(r)'
    BY <2>4, <2>6 DEF RequestOk
  <2> QED
    BY <2>1, <2>4, <2>5, <2>7, MoveKeeps
<1>3. ASSUME NEW op, NEW length, NEW target, Receive(r, op, length, target)
      PROVE  SingleInv'
  <2>1. /\ pc[r] = "idle"
        /\ Admitted(op)
        /\ pc' = [pc EXCEPT ![r] = "getcache"]
        /\ input' = [input EXCEPT ![r] =
                        [op |-> op, length |-> length, target |-> target]]
        /\ UNCHANGED <<now, stored, outbox, cache, entity, loaded, expected,
                       outcome>>
    BY <1>3 DEF Receive, Goto, database
  <2>2. pc'[r] = "getcache" /\ input'[r].op = op /\ outcome'[r] = "none"
    BY <1>1, <2>1 DEF TypeOK, RequestOk
  <2>3. Undisturbed(r)
    BY <1>1, <2>1 DEF TypeOK, Undisturbed
  <2>4. RequestOk(r)'
    BY <2>2 DEF RequestOk, Saving
  <2> QED
    BY <2>1, <2>2, <2>3, <2>4, MoveKeeps
<1> QED
  BY <1>2, <1>3 DEF Arrive

\* A cached session that a writing request finds is not about to be committed, as
\* no second one is under way.
LEMMA CacheHitAgrees ==
    ASSUME SingleWriter, StoreInv, SingleInv, NEW r \in Requests,
           pc[r] = "getcache", Writer(r), cache # NULL
    PROVE  Agrees(cache.session)
<1>1. \A q \in Requests : pc[q] # "commit"
  <2> SUFFICES ASSUME NEW q \in Requests, pc[q] = "commit" PROVE FALSE
    OBVIOUS
  <2>1. Writer(q)
    BY DEF StoreInv, RequestInv, Consistent, Holds, Writer, InFlight
  <2> QED
    BY <2>1 DEF SingleInv
<1>2. Sound(cache.session) /\ (stored = NULL \/ Sound(stored))
  BY DEF StoreInv
<1> QED
  BY <1>1, <1>2 DEF SingleInv, CacheOk, FromDb, Agrees, Sound, Session

\* Everything get() does, when no command raises.
LEMMA GetKeeps ==
    ASSUME SingleWriter, StoreInv, SingleInv, NEW r \in Requests,
           \/ CacheHit(r) \/ CacheMiss(r) \/ CacheIsCorrupt(r) \/ DiscardCorrupt(r)
           \/ SelectRow(r) \/ SelectMessages(r) \/ FillCache(r)
    PROVE  SingleInv'
<1>1. TypeOK /\ RequestInv(r) /\ RequestOk(r)
  BY DEF StoreInv, SingleInv
<1>2. CASE CacheHit(r)
  <2>1. /\ pc[r] = "getcache"
        /\ cache # NULL
        /\ entity' = [entity EXCEPT ![r] = cache.session]
        /\ pc' = [pc EXCEPT ![r] = "handle"]
        /\ UNCHANGED <<now, stored, outbox, cache, input, loaded, expected,
                       outcome>>
    BY <1>2 DEF CacheHit, CacheIsLive, Goto, database
  <2>2. pc'[r] = "handle" /\ entity'[r] = cache.session /\ outcome'[r] = "none"
    BY <1>1, <2>1 DEF TypeOK, RequestOk
  <2>3. Undisturbed(r)
    BY <1>1, <2>1 DEF TypeOK, Undisturbed
  <2>4. Writer(r)' => Agrees(entity[r])'
    <3>1. Writer(r)' => Writer(r)
      BY <2>1 DEF Writer, InFlight
    <3> QED
      BY <2>1, <2>2, <3>1, CacheHitAgrees DEF Agrees
  <2>5. RequestOk(r)'
    BY <2>2, <2>4 DEF RequestOk, Saving
  <2> QED
    BY <2>1, <2>2, <2>3, <2>5, MoveKeeps DEF InFlight
<1>3. CASE CacheMiss(r) \/ CacheIsCorrupt(r) \/ DiscardCorrupt(r)
  <2>1. PICK label \in {"selectrow", "discard"} :
            pc' = [pc EXCEPT ![r] = label]
    BY <1>3 DEF CacheMiss, CacheIsCorrupt, DiscardCorrupt, Goto
  <2>2. /\ pc[r] \in {"getcache", "discard"}
        /\ UNCHANGED <<now, stored, outbox, input, entity, loaded, expected,
                       outcome>>
        /\ cache' \in {cache, NULL}
    BY <1>3 DEF CacheMiss, CacheIsCorrupt, DiscardCorrupt, CacheInvalidate,
                database, memory
  <2>3. pc'[r] = label /\ outcome'[r] = "none"
    BY <1>1, <2>1, <2>2 DEF TypeOK, RequestOk
  <2>4. Undisturbed(r)
    BY <1>1, <2>1, <2>2 DEF TypeOK, Undisturbed
  <2>5. RequestOk(r)'
    BY <2>3 DEF RequestOk, Saving
  <2> QED
    BY <2>2, <2>3, <2>4, <2>5, MoveKeeps DEF InFlight
<1>4. CASE SelectRow(r) /\ stored = NULL
  <2>1. /\ pc[r] = "selectrow"
        /\ Finish(r, "SESSION_NOT_FOUND")
        /\ UNCHANGED <<now, stored, outbox, cache>>
    BY <1>4 DEF SelectRow, database
  <2> QED
    BY <2>1, FinishKeeps
<1>5. CASE SelectRow(r) /\ stored # NULL
  <2>1. /\ pc[r] = "selectrow"
        /\ loaded' = [loaded EXCEPT ![r] = stored]
        /\ pc' = [pc EXCEPT ![r] = "selectmessages"]
        /\ UNCHANGED <<now, stored, outbox, cache, input, entity, expected,
                       outcome>>
    BY <1>5 DEF SelectRow, Goto, database
  <2>2. pc'[r] = "selectmessages" /\ loaded'[r] = stored /\ outcome'[r] = "none"
    BY <1>1, <2>1 DEF TypeOK, RequestOk
  <2>3. Undisturbed(r)
    BY <1>1, <2>1 DEF TypeOK, Undisturbed
  <2>4. FromDb(loaded[r])'
    BY <1>5, <2>1, <2>2 DEF FromDb, StoreInv, Sound, Session
  <2>5. RequestOk(r)'
    BY <2>2, <2>4 DEF RequestOk, Saving
  <2> QED
    BY <2>1, <2>2, <2>3, <2>5, MoveKeeps DEF InFlight
<1>6. CASE SelectMessages(r)
  <2> DEFINE e == [loaded[r] EXCEPT !.messages = stored.messages]
  <2>1. /\ pc[r] = "selectmessages"
        /\ entity' = [entity EXCEPT ![r] = e]
        /\ pc' = [pc EXCEPT ![r] = "fill"]
        /\ UNCHANGED <<now, stored, outbox, cache, input, loaded, expected,
                       outcome>>
    BY <1>6 DEF SelectMessages, Goto, database
  <2>2. loaded[r] \in Session /\ FromDb(loaded[r])
    BY <1>1, <2>1 DEF RequestInv, Consistent, Sound, RequestOk
  <2>3. e.revision = loaded[r].revision /\ (loaded[r] = stored => e = stored)
    BY <2>2 DEF Session
  <2> HIDE DEF e
  <2>4. pc'[r] = "fill" /\ entity'[r] = e /\ outcome'[r] = "none"
    BY <1>1, <2>1 DEF TypeOK, RequestOk
  <2>5. Undisturbed(r)
    BY <1>1, <2>1 DEF TypeOK, Undisturbed
  <2>6. FromDb(entity[r])'
    BY <2>1, <2>2, <2>3, <2>4 DEF FromDb
  <2>7. RequestOk(r)'
    BY <2>4, <2>6 DEF RequestOk, Saving
  <2> QED
    BY <2>1, <2>4, <2>5, <2>7, MoveKeeps DEF InFlight
<1>7. CASE FillCache(r)
  <2>1. /\ pc[r] = "fill"
        /\ pc' = [pc EXCEPT ![r] = "handle"]
        /\ CacheSet(entity[r])
        /\ UNCHANGED <<now, stored, outbox, input, entity, loaded, expected,
                       outcome>>
    BY <1>7 DEF FillCache, Goto, database, memory
  <2>2. FromDb(entity[r])
    BY <1>1, <2>1 DEF RequestOk
  <2>3. pc'[r] = "handle" /\ outcome'[r] = "none"
    BY <1>1, <2>1 DEF TypeOK, RequestOk
  <2>4. Undisturbed(r)
    BY <1>1, <2>1 DEF TypeOK, Undisturbed
  <2>5. Agrees(entity[r])'
    BY <2>1, <2>2 DEF FromDb, Agrees
  <2>6. RequestOk(r)'
    BY <2>3, <2>5 DEF RequestOk, Saving
  <2>7. cache' = cache \/ cache'.session = entity[r]
    BY <2>1 DEF CacheSet
  <2>8. cache' = cache \/ FromDb(cache'.session)
    BY <2>2, <2>7 DEF FromDb
  <2> QED
    BY <2>1, <2>3, <2>4, <2>6, <2>8, MoveKeeps DEF InFlight
<1> QED
  BY <1>2, <1>3, <1>4, <1>5, <1>6, <1>7

\* The service: a copy that the revision check can tell from the stored session
\* gives a command that may be saved only if it was given to the stored session.
LEMMA HandleKeeps ==
    ASSUME SingleWriter, StoreInv, PastInv, SingleInv, NEW r \in Requests,
           AnswerGet(r) \/ HandleUserMessage(r) \/ HandleTransition(r)
    PROVE  SingleInv'
<1>1. TypeOK /\ RequestOk(r) /\ now \in 0 .. MaxTime
  BY DEF StoreInv, SingleInv
<1>2. /\ pc[r] = "handle"
      /\ UNCHANGED <<now, stored, outbox, cache>>
      /\ entity[r].last_active_at <= now
  BY DEF AnswerGet, HandleUserMessage, HandleTransition, database,
         StoreInv, RequestInv, Consistent, PastInv, Past
<1>3. ASSUME NEW code, Finish(r, code), code = "ok" => input[r].op = "get"
      PROVE  SingleInv'
  <2>1. code = "ok" => WritesAreStored(r)
    BY <1>3 DEF WritesAreStored, Writes
  <2> QED
    BY <1>2, <1>3, <2>1, FinishKeeps
<1>4. ASSUME input[r].op \in {"message", "transition"},
             expected' = [expected EXCEPT ![r] = entity[r].revision],
             \A q \in Requests \ {r} : entity'[q] = entity[q],
             pc' = [pc EXCEPT ![r] = "check"],
             UNCHANGED <<input, loaded, outcome>>,
             Commanded(r, entity[r], entity'[r])
      PROVE  SingleInv'
  <2>1. /\ pc'[r] = "check" /\ outcome'[r] = "none"
        /\ expected'[r] = entity[r].revision
    BY <1>1, <1>2, <1>4 DEF TypeOK, RequestOk
  <2>2. Undisturbed(r)
    BY <1>1, <1>4 DEF TypeOK, Undisturbed
  <2>3. stored # NULL /\ stored.revision = entity[r].revision
            => Commanded(r, stored, entity'[r])
    <3>1. Agrees(entity[r])
      BY <1>1, <1>2, <1>4 DEF RequestOk, Writer, InFlight
    <3> QED
      BY <1>4, <3>1 DEF Agrees
  <2>4. Commanded(r, stored, entity'[r]) => Commanded(r, stored, entity[r])'
    BY <1>2, <1>4, <2>1 DEF Commanded
  <2>5. RequestOk(r)'
    BY <1>2, <2>1, <2>3, <2>4 DEF RequestOk, Saving
  <2> QED
    BY <1>2, <1>4, <2>1, <2>2, <2>5, MoveKeeps DEF InFlight
<1>5. CASE AnswerGet(r)
  BY <1>3, <1>5 DEF AnswerGet
<1>6. CASE HandleUserMessage(r)
  <2> DEFINE answered == AppendMessage(AppendMessage(entity[r], "user", r, now),
                                       "assistant", r, now)
  <2>1. CASE MessageError(r) # "none"
    <3>1. Finish(r, MessageError(r)) /\ input[r].op = "message"
      BY <1>6, <2>1 DEF HandleUserMessage
    <3>2. MessageError(r) # "ok"
      BY DEF MessageError, AppendError
    <3> QED
      BY <1>3, <3>1, <3>2
  <2>2. CASE MessageError(r) = "none"
    <3>1. /\ input[r].op = "message"
          /\ expected' = [expected EXCEPT ![r] = entity[r].revision]
          /\ entity' = [entity EXCEPT ![r] = answered]
          /\ pc' = [pc EXCEPT ![r] = "check"]
          /\ UNCHANGED <<input, loaded, outcome>>
      BY <1>6, <2>2 DEF HandleUserMessage, Goto
    <3>2. ~IsTerminal(entity[r]) /\ ~IsExpired(entity[r], now)
      BY <2>2 DEF MessageError, AppendError
    <3>3. Commanded(r, entity[r], answered)
      BY <1>1, <1>2, <3>1, <3>2 DEF Commanded
    <3> HIDE DEF answered
    <3>4. /\ entity'[r] = answered
          /\ \A q \in Requests \ {r} : entity'[q] = entity[q]
      BY <1>1, <3>1 DEF TypeOK
    <3> QED
      BY <1>4, <3>1, <3>3, <3>4
  <2> QED
    BY <2>1, <2>2
<1>7. CASE HandleTransition(r)
  <2> DEFINE moved == TransitionTo(entity[r], input[r].target, now)
  <2>1. CASE ~CanTransition(entity[r], input[r].target)
    <3>1. Finish(r, "INVALID_SESSION_STATE")
      BY <1>7, <2>1 DEF HandleTransition
    <3> QED
      BY <1>3, <3>1
  <2>2. CASE CanTransition(entity[r], input[r].target)
    <3>1. /\ input[r].op = "transition"
          /\ expected' = [expected EXCEPT ![r] = entity[r].revision]
          /\ entity' = [entity EXCEPT ![r] = moved]
          /\ pc' = [pc EXCEPT ![r] = "check"]
          /\ UNCHANGED <<input, loaded, outcome>>
      BY <1>7, <2>2 DEF HandleTransition, Goto
    <3>2. Commanded(r, entity[r], moved)
      BY <1>1, <1>2, <2>2, <3>1 DEF Commanded
    <3> HIDE DEF moved
    <3>3. /\ entity'[r] = moved
          /\ \A q \in Requests \ {r} : entity'[q] = entity[q]
      BY <1>1, <3>1 DEF TypeOK
    <3> QED
      BY <1>4, <3>1, <3>2, <3>3
  <2> QED
    BY <2>1, <2>2
<1> QED
  BY <1>5, <1>6, <1>7

\* save() and add() up to the cache: what passes the revision check is a command
\* given to the stored session, and stays one while nobody else writes.
LEMMA SaveKeeps ==
    ASSUME SingleWriter, StoreInv, ConversationInv, SingleInv,
           NEW r \in Requests,
           CheckRevision(r) \/ InvalidateStale(r) \/ SelectMaxSequence(r) \/ Flush(r)
    PROVE  SingleInv'
<1>1. TypeOK /\ RequestInv(r) /\ RequestOk(r)
  BY DEF StoreInv, SingleInv
<1>2. CASE CheckRevision(r)
  <2>1. pc[r] = "check" /\ UNCHANGED <<now, stored, outbox, cache>>
    BY <1>2 DEF CheckRevision, database
  <2>2. CASE stored = NULL
    <3>1. Finish(r, "STALE_REVISION")
      BY <1>2, <2>2 DEF CheckRevision
    <3> QED
      BY <2>1, <3>1, FinishKeeps
  <2>3. CASE stored # NULL /\ stored.revision # expected[r]
    <3>1. /\ pc' = [pc EXCEPT ![r] = "invalidate"]
          /\ UNCHANGED <<input, entity, loaded, expected, outcome>>
      BY <1>2, <2>3 DEF CheckRevision, Goto, memory
    <3>2. pc'[r] = "invalidate" /\ outcome'[r] = "none" /\ Undisturbed(r)
      BY <1>1, <2>1, <3>1 DEF TypeOK, RequestOk, Undisturbed
    <3>3. RequestOk(r)'
      BY <3>2 DEF RequestOk, Saving
    <3> QED
      BY <2>1, <3>1, <3>2, <3>3, MoveKeeps DEF InFlight
  <2>4. CASE stored # NULL /\ stored.revision = expected[r]
    <3>1. /\ pc' = [pc EXCEPT ![r] = "maxseq"]
          /\ loaded' = [loaded EXCEPT ![r] = stored]
          /\ UNCHANGED <<input, entity, expected, outcome>>
      BY <1>2, <2>4 DEF CheckRevision, Goto
    <3>2. pc'[r] = "maxseq" /\ loaded'[r] = stored /\ outcome'[r] = "none"
      BY <1>1, <2>1, <3>1 DEF TypeOK, RequestOk
    <3>3. Undisturbed(r)
      BY <1>1, <3>1 DEF TypeOK, Undisturbed
    <3>4. input[r].op # "start"
      BY <1>1, <2>1 DEF RequestInv, Consistent
    <3>5. Commanded(r, stored, entity[r])'
      <4>1. Commanded(r, stored, entity[r])
        BY <1>1, <2>1, <2>4 DEF RequestOk
      <4> QED
        BY <2>1, <3>1, <4>1 DEF Commanded
    <3>6. Absent(r)'
      BY <2>1 DEF ConversationInv, Traceless, NoTrace, Early, Drafting, Absent,
                  Messages
    <3>7. RequestOk(r)'
      BY <2>1, <2>4, <3>1, <3>2, <3>4, <3>5, <3>6 DEF RequestOk
    <3> QED
      BY <2>1, <3>1, <3>2, <3>3, <3>7, MoveKeeps DEF InFlight
  <2> QED
    BY <2>2, <2>3, <2>4
<1>3. CASE InvalidateStale(r)
  <2>1. /\ pc[r] = "invalidate"
        /\ Finish(r, "STALE_REVISION")
        /\ UNCHANGED <<now, stored, outbox>>
        /\ cache' \in {cache, NULL}
    BY <1>3 DEF InvalidateStale, CacheInvalidate, database
  <2> QED
    BY <2>1, FinishKeeps
<1>4. ASSUME NEW label \in {"flush", "writecache"}, pc[r] \in {"maxseq", "flush"},
             pc' = [pc EXCEPT ![r] = label],
             UNCHANGED <<now, stored, outbox, cache, input, entity, loaded,
                         expected, outcome>>
      PROVE  SingleInv'
  <2>1. pc'[r] = label /\ outcome'[r] = "none" /\ Undisturbed(r)
    BY <1>1, <1>4 DEF TypeOK, RequestOk, Undisturbed
  <2>2. /\ Commanded(r, stored, entity[r]) => Commanded(r, stored, entity[r])'
        /\ Greeted(r, entity[r]) => Greeted(r, entity[r])'
        /\ Absent(r) => Absent(r)'
    BY <1>4 DEF Commanded, Greeted, Absent
  <2>3. RequestOk(r)'
    BY <1>1, <1>4, <2>1, <2>2 DEF RequestOk, Saving
  <2> QED
    BY <1>4, <2>1, <2>3, MoveKeeps DEF InFlight
<1>5. CASE SelectMaxSequence(r)
  BY <1>4, <1>5 DEF SelectMaxSequence, Goto, database
<1>6. CASE Flush(r)
  <2>1. pc[r] = "flush" /\ UNCHANGED <<now, stored, outbox, cache>>
    BY <1>6 DEF Flush
  <2>2. ASSUME NEW code \in ErrorCode, Finish(r, code) PROVE SingleInv'
    <3>1. code # "ok"
      BY DEF ErrorCode
    <3> QED
      BY <2>1, <2>2, <3>1, FinishKeeps
  <2>3. CASE Goto(r, "writecache") /\ UNCHANGED <<memory, outcome>>
    BY <1>4, <2>1, <2>3 DEF Goto, memory
  <2> QED
    BY <1>6, <2>2, <2>3 DEF Flush, ErrorCode
<1> QED
  BY <1>2, <1>3, <1>5, <1>6

-----------------------------------------------------------------------------
(* The commit. *)

\* Only the writer is past the flush.
LEMMA CommitterIsWriter ==
    ASSUME SingleWriter, StoreInv, SingleInv, NEW r \in Requests, Holds(pc[r])
    PROVE  Writer(r) /\ \A q \in Requests : Writer(q) => q = r
<1>1. Writer(r)
  BY DEF SingleWriter, StoreInv, RequestInv, Consistent, Holds, Writer, InFlight
<1> QED
  BY <1>1 DEF SingleInv

\* The UPDATE leaves the whole entity: the columns it does not set and the messages
\* it does not insert are those of the row it was computed from.
LEMMA UpdatedRowIsEntity ==
    ASSUME SingleWriter, StoreInv, SingleInv, NEW r \in Requests,
           pc[r] = "commit", input[r].op # "start"
    PROVE  UpdatedRow(r) = entity[r]
<1> DEFINE e == entity[r]
<1>1. /\ RequestInv(r) /\ RequestOk(r)
      /\ Sound(stored) /\ stored # NULL
      /\ maxSeq[r] < Cardinality(stored.messages)
  BY DEF StoreInv, SingleInv, RequestInv, Consistent, Holds
<1>2. loaded[r] = stored /\ Commanded(r, stored, e) /\ Absent(r)
  BY <1>1 DEF RequestOk, Saving
<1>3. /\ Sound(e)
      /\ stored.messages \subseteq e.messages
      /\ \A m \in e.messages \ stored.messages :
             m.sequence >= Cardinality(stored.messages)
  BY <1>1, <1>2, CommandedEffect DEF Absent
<1>4. \A m \in e.messages : m.sequence \in Nat
  BY <1>3 DEF Sound, Session, Message
<1>5. Cardinality(stored.messages) \in Nat /\ maxSeq[r] \in Int
  BY <1>1, FS_CardinalityType DEF Sound, StoreInv, TypeOK
<1>6. stored.messages \cup NewMessages(r) = e.messages
  BY <1>1, <1>3, <1>4, <1>5 DEF NewMessages
<1>7. e \in Session
  BY <1>3 DEF Sound
<1> HIDE DEF e
<1>8. UpdatedRow(r) =
        [state |-> e.state, revision |-> e.revision,
         current_step |-> e.current_step, last_active_at |-> e.last_active_at,
         expires_at |-> e.expires_at, confirmed_at |-> e.confirmed_at,
         submitted_at |-> e.submitted_at, completed_at |-> e.completed_at,
         messages |-> e.messages]
  BY <1>2, <1>6 DEF UpdatedRow, Column, e
<1> QED
  BY <1>7, <1>8 DEF Session, e

\* A commit makes the entity visible.
LEMMA CommittedIsEntity ==
    ASSUME SingleWriter, StoreInv, SingleInv, NEW r \in Requests,
           pc[r] = "commit", ApplyTransaction(r)
    PROVE  /\ stored' = entity[r]
           /\ Sound(entity[r])
           /\ outbox' = outbox \cup EventsOf(r)
           /\ \A e \in EventsOf(r) : e.by = r
           /\ input[r].op \in {"start", "message", "transition"}
           /\ input[r].op = "start" => stored = NULL /\ Greeted(r, entity[r])
           /\ input[r].op # "start" =>
                 stored # NULL /\ Sound(stored) /\ Commanded(r, stored, entity[r])
           /\ Absent(r)
<1>1. /\ RequestInv(r) /\ RequestOk(r)
      /\ Sound(entity[r])
      /\ input[r].op \in {"start", "message", "transition"}
      /\ input[r].op = "start" => stored = NULL
      /\ input[r].op # "start" => stored # NULL /\ Sound(stored)
  BY DEF StoreInv, SingleInv, RequestInv, Consistent, Holds
<1>2. stored' = entity[r] /\ outbox' = outbox \cup EventsOf(r)
  BY UpdatedRowIsEntity DEF ApplyTransaction
<1>3. \A e \in EventsOf(r) : e.by = r
  BY <1>1 DEF EventsOf
<1> QED
  BY <1>1, <1>2, <1>3 DEF RequestOk, Saving

\* The committed session has a newer revision than the one it replaces, and all of
\* its messages.
Supersedes ==
    /\ stored' # NULL /\ stored'.revision \in Nat
    /\ stored # NULL => /\ stored'.revision > stored.revision
                        /\ stored.messages \subseteq stored'.messages

LEMMA CommitSupersedes ==
    ASSUME SingleWriter, StoreInv, SingleInv, NEW r \in Requests,
           pc[r] = "commit", ApplyTransaction(r), UNCHANGED input
    PROVE  /\ Supersedes
           /\ stored'.messages # {}
           /\ WritesAreStored(r)'
<1>1. /\ stored' = entity[r] /\ stored' # NULL /\ Sound(entity[r])
      /\ stored'.revision \in Nat
      /\ input[r].op \in {"start", "message", "transition"}
  BY CommittedIsEntity, StoreAssumption DEF Sound, Session
<1>2. CASE input[r].op = "start"
  <2>1. /\ stored = NULL
        /\ entity[r].messages = {[sequence |-> 0, role |-> "assistant", by |-> r]}
    BY <1>2, CommittedIsEntity, GreetedEffect
  <2>2. \E m \in entity[r].messages : m.by = r /\ m.role = "assistant"
    BY <2>1
  <2>3. WritesAreStored(r)'
    BY <1>1, <1>2, <2>2 DEF WritesAreStored, Writes
  <2> QED
    BY <1>1, <2>1, <2>3 DEF Supersedes
<1>3. CASE input[r].op # "start"
  <2>1. /\ stored # NULL /\ Sound(stored) /\ Commanded(r, stored, entity[r])
        /\ \A m \in stored.messages : m.by # r
    BY <1>3, CommittedIsEntity DEF Absent
  <2>2. /\ entity[r].revision > stored.revision
        /\ stored.messages \subseteq entity[r].messages
        /\ input[r].op = "message" =>
               \A role \in {"user", "assistant"} :
                   \E m \in entity[r].messages : m.by = r /\ m.role = role
    BY <2>1, CommandedEffect
  <2>3. Writes(r)' \subseteq IF input[r].op = "message" THEN {"user", "assistant"}
                             ELSE {}
    BY <1>1, <1>3 DEF Writes
  <2>4. WritesAreStored(r)'
    BY <1>1, <2>2, <2>3 DEF WritesAreStored
  <2> QED
    BY <1>1, <2>1, <2>2, <2>4 DEF Supersedes, SingleInv
<1> QED
  BY <1>2, <1>3

\* The events that tell of messages, and the messages they have to tell of.
Told(events) ==
    {<<e.by, e.sequence>> :
        e \in {e \in events : e.type = "session.message_appended"}}
Said(messages) ==
    {<<m.by, m.sequence>> : m \in {m \in messages : m.sequence > 0}}

\* The events of a commit tell of the messages it adds.
LEMMA CommitTellsAll ==
    ASSUME SingleWriter, StoreInv, SingleInv, NEW r \in Requests,
           pc[r] = "commit", ApplyTransaction(r)
    PROVE  OutboxMatchesConversation'
<1> DEFINE e == entity[r]
<1>1. /\ stored' = e /\ outbox' = outbox \cup EventsOf(r)
      /\ stored' # NULL
      /\ input[r].op \in {"start", "message", "transition"}
  BY CommittedIsEntity, StoreAssumption DEF Sound
<1>2. Told(outbox) = IF stored = NULL THEN {} ELSE Said(stored.messages)
  BY DEF SingleInv, OutboxMatchesConversation, Told, Said
<1>3. Told(outbox') = Told(outbox) \cup Told(EventsOf(r))
  BY <1>1 DEF Told
<1>4. Told(outbox') = Said(e.messages)
  <2>1. CASE input[r].op = "start"
    <3>1. /\ stored = NULL
          /\ e.messages = {[sequence |-> 0, role |-> "assistant", by |-> r]}
      BY <2>1, CommittedIsEntity, GreetedEffect
    <3>2. Said(e.messages) = {}
      BY <3>1 DEF Said
    <3>3. Told(EventsOf(r)) = {}
      BY <2>1 DEF Told, EventsOf
    <3> QED
      BY <1>2, <1>3, <3>1, <3>2, <3>3
  <2>2. CASE input[r].op # "start"
    <3>1. /\ stored # NULL /\ Sound(stored) /\ Commanded(r, stored, e)
          /\ \A m \in stored.messages : m.by # r
      BY <2>2, CommittedIsEntity DEF Absent
    <3>2. /\ stored.messages \subseteq e.messages
          /\ \A m \in e.messages \ stored.messages :
                 m.by = r /\ m.sequence >= Cardinality(stored.messages)
          /\ input[r].op = "transition" => e.messages = stored.messages
      BY <3>1, CommandedEffect
    <3>3. CASE input[r].op = "transition"
      <4>1. Told(EventsOf(r)) = {}
        BY <3>3 DEF Told, EventsOf
      <4> QED
        BY <1>2, <1>3, <3>1, <3>2, <3>3, <4>1
    <3>4. CASE input[r].op = "message"
      <4> DEFINE added == e.messages \ stored.messages
      <4>1. Cardinality(stored.messages) \in Nat /\ Cardinality(stored.messages) # 0
        BY <3>1, FS_CardinalityType, FS_EmptySet DEF Sound, SingleInv
      <4>2. \A m \in added : m.sequence > 0
        <5>1. \A m \in e.messages : m.sequence \in Nat
          BY CommittedIsEntity DEF Sound, Session, Message
        <5> QED
          BY <3>2, <4>1, <5>1
      <4>3. added = {m \in e.messages : m.by = r}
        BY <3>1, <3>2
      <4>4. EventsOf(r) = {[by |-> r, type |-> "session.message_appended",
                            sequence |-> m.sequence] : m \in added}
        BY <3>4, <4>3 DEF EventsOf
      <4>5. \A m \in added : m.by = r
        BY <3>2
      <4> HIDE DEF added
      <4>6. Told(EventsOf(r)) = {<<m.by, m.sequence>> : m \in added}
        <5> DEFINE told == {<<m.by, m.sequence>> : m \in added}
        <5>1. ASSUME NEW m \in added PROVE <<m.by, m.sequence>> \in Told(EventsOf(r))
          <6> DEFINE event == [by |-> r, type |-> "session.message_appended",
                               sequence |-> m.sequence]
          <6>1. event \in EventsOf(r)
            BY <4>4
          <6>2. /\ event.type = "session.message_appended"
                /\ <<event.by, event.sequence>> = <<m.by, m.sequence>>
            BY <4>5
          <6> HIDE DEF event
          <6> QED
            BY <6>1, <6>2 DEF Told
        <5>2. ASSUME NEW x \in Told(EventsOf(r)) PROVE x \in told
          <6>1. PICK event \in EventsOf(r) : x = <<event.by, event.sequence>>
            BY DEF Told
          <6>2. PICK m \in added :
                    event = [by |-> r, type |-> "session.message_appended",
                             sequence |-> m.sequence]
            BY <4>4, <6>1
          <6>3. x = <<m.by, m.sequence>>
            BY <4>5, <6>1, <6>2
          <6> QED
            BY <6>3
        <5> QED
          BY <5>1, <5>2
      <4>7. Said(added) = {<<m.by, m.sequence>> : m \in added}
        BY <4>2 DEF Said
      <4>8. e.messages = stored.messages \cup added
        BY <3>2 DEF added
      <4>9. Said(e.messages) = Said(stored.messages) \cup Said(added)
        BY <4>8 DEF Said
      <4> QED
        BY <1>2, <1>3, <3>1, <4>6, <4>7, <4>9
    <3> QED
      BY <1>1, <2>2, <3>3, <3>4
  <2> QED
    BY <2>1, <2>2
<1> QED
  BY <1>1, <1>4 DEF OutboxMatchesConversation, Told, Said

\* What a request that does nothing knows stays true when another one commits.
LEMMA CommitLeavesOk ==
    ASSUME SingleWriter, StoreInv, SingleInv, NEW r \in Requests,
           Holds(pc[r]), Supersedes,
           NEW q \in Requests \ {r}, Undisturbed(r)
    PROVE  RequestOk(q)'
<1>1. /\ pc'[q] = pc[q] /\ input'[q] = input[q] /\ entity'[q] = entity[q]
      /\ loaded'[q] = loaded[q] /\ expected'[q] = expected[q]
      /\ outcome'[q] = outcome[q]
  BY DEF Undisturbed
<1>2. ~Writer(q) /\ RequestOk(q) /\ RequestInv(q)
  BY CommitterIsWriter DEF SingleInv, StoreInv
<1>3. ~Writer(q)'
  BY <1>1, <1>2 DEF Writer, InFlight
<1>4. stored = NULL \/ stored.revision \in Nat
  BY DEF StoreInv, Sound, Session
<1>5. ASSUME pc[q] = "selectmessages" PROVE FromDb(loaded[q])'
  <2>1. loaded[q].revision \in Nat /\ FromDb(loaded[q])
    BY <1>2, <1>5 DEF RequestInv, Consistent, Sound, Session, RequestOk
  <2> QED
    BY <1>1, <1>4, <2>1 DEF FromDb, Supersedes
<1>6. ASSUME pc[q] = "fill" PROVE FromDb(entity[q])'
  <2>1. entity[q].revision \in Nat /\ FromDb(entity[q])
    BY <1>2, <1>6 DEF RequestInv, Consistent, Sound, Session, RequestOk
  <2> QED
    BY <1>1, <1>4, <2>1 DEF FromDb, Supersedes
<1>7. pc[q] \notin Saving \cup {"check"}
  BY <1>2 DEF Saving, Writer, InFlight, RequestInv, Consistent, Holds
<1>8. WritesAreStored(q) => WritesAreStored(q)'
  BY <1>1 DEF WritesAreStored, Writes, Supersedes
<1> QED
  BY <1>1, <1>2, <1>3, <1>5, <1>6, <1>7, <1>8 DEF RequestOk

\* The entity about to be committed is newer than what is committed.
LEMMA UncommittedIsNewer ==
    ASSUME StoreInv, SingleInv, NEW r \in Requests, pc[r] = "commit"
    PROVE  stored = NULL \/ entity[r].revision > stored.revision
<1>1. RequestInv(r) /\ RequestOk(r)
  BY DEF StoreInv, SingleInv
<1>2. CASE input[r].op = "start"
  BY <1>1, <1>2 DEF RequestInv, Consistent, Holds
<1>3. CASE input[r].op # "start"
  <2>1. /\ Sound(stored)
        /\ Commanded(r, stored, entity[r])
        /\ \A m \in stored.messages : m.by # r
    BY <1>1, <1>3 DEF RequestInv, Consistent, Holds, RequestOk, Saving, Absent,
                      StoreInv
  <2> QED
    BY <2>1, CommandedEffect
<1> QED
  BY <1>2, <1>3

\* A commit that is applied, confirmed or not.
LEMMA AppliedKeeps ==
    ASSUME SingleWriter, StoreInv, SingleInv, NEW r \in Requests,
           pc[r] = "commit", ApplyTransaction(r), Undisturbed(r),
           UNCHANGED <<now, cache, input>>,
           \/ pc'[r] = "respond" /\ outcome'[r] = "none"
           \/ pc'[r] = "done"
    PROVE  SingleInv'
<1>1. /\ Supersedes
      /\ stored'.messages # {}
      /\ WritesAreStored(r)'
      /\ stored' = entity[r]
  BY CommitSupersedes, CommittedIsEntity
<1>2. \A q \in Requests \ {r} : RequestOk(q)'
  BY <1>1, CommitLeavesOk DEF Holds
<1>3. RequestOk(r)'
  BY <1>1 DEF RequestOk, Saving, Writer, InFlight
<1>4. \A q, s \in Requests : Writer(q)' /\ Writer(s)' => q = s
  <2>1. \A q \in Requests : Writer(q) => q = r
    BY CommitterIsWriter DEF Holds
  <2>2. \A q \in Requests \ {r} : Writer(q)' <=> Writer(q)
    BY DEF Undisturbed, Writer, InFlight
  <2> QED
    BY <2>1, <2>2
<1>5. CacheOk'
  <2> SUFFICES ASSUME cache # NULL PROVE FromDb(cache.session)'
    BY DEF CacheOk
  <2>1. cache' = cache
    OBVIOUS
  <2>2. CASE FromDb(cache.session)
    <3>1. cache.session.revision \in Nat /\ stored.revision \in Nat
      BY <2>2 DEF StoreInv, Sound, Session, FromDb
    <3> QED
      BY <1>1, <2>1, <2>2, <3>1 DEF FromDb, Supersedes
  <2>3. ASSUME NEW q \in Requests, pc[q] = "commit", cache.session = entity[q]
        PROVE  FromDb(cache.session)'
    <3>1. q = r
      BY <2>3, CommitterIsWriter DEF Holds
    <3>2. cache'.session = stored'
      BY <1>1, <2>1, <2>3, <3>1
    <3> QED
      BY <1>1, <3>2 DEF FromDb, Supersedes
  <2> QED
    BY <2>2, <2>3 DEF SingleInv, CacheOk
<1>6. OutboxMatchesConversation'
  BY CommitTellsAll
<1>7. now' \in 0 .. MaxTime
  BY DEF SingleInv
<1> QED
  BY <1>1, <1>2, <1>3, <1>4, <1>5, <1>6, <1>7 DEF SingleInv

\* A request cut off before its commit leaves a copy in the cache that can be told
\* from anything that is or will be committed before it is overwritten.
LEMMA CutOffKeepsCache ==
    ASSUME SingleWriter, StoreInv, SingleInv,
           "commit" \in Faults \/ "crash" \in Faults,
           UNCHANGED <<stored, cache>>,
           NEW r \in Requests, pc[r] = "commit",
           \A q \in Requests : pc'[q] # "commit"
    PROVE  CacheOk'
<1>1. "redis" \notin Faults
  BY DEF SingleWriter
<1>2. \A q \in Requests : pc[q] = "commit" =>
          stored = NULL \/ entity[q].revision > stored.revision
  BY UncommittedIsNewer
<1>3. FromDb(cache.session) => FromDb(cache.session)'
  BY DEF FromDb
<1> QED
  BY <1>1, <1>2, <1>3 DEF SingleInv, CacheOk

LEMMA CommitStepIsOk ==
    ASSUME SingleWriter, StoreInv, SingleInv, NEW r \in Requests,
           Commit(r) \/ CommitFails(r)
    PROVE  SingleInv'
<1>1. TypeOK /\ RequestOk(r) /\ pc[r] = "commit" /\ UNCHANGED <<now, cache>>
  BY DEF StoreInv, SingleInv, Commit, CommitFails
<1>2. CASE Commit(r)
  <2>1. /\ ApplyTransaction(r)
        /\ pc' = [pc EXCEPT ![r] = "respond"]
        /\ UNCHANGED <<input, entity, loaded, expected, outcome>>
    BY <1>2 DEF Commit, Goto, memory, SingleWriter
  <2>2. pc'[r] = "respond" /\ outcome'[r] = "none" /\ Undisturbed(r)
    BY <1>1, <2>1 DEF TypeOK, RequestOk, Undisturbed
  <2> QED
    BY <1>1, <2>1, <2>2, AppliedKeeps
<1>3. CASE CommitFails(r)
  <2>1. /\ "commit" \in Faults
        /\ pc' = [pc EXCEPT ![r] = "done"]
        /\ outcome' = [outcome EXCEPT ![r] = IF @ = "none" THEN "INTERNAL_ERROR"
                                             ELSE @]
        /\ entity' = [entity EXCEPT ![r] = NULL]
        /\ loaded' = [loaded EXCEPT ![r] = NULL]
        /\ UNCHANGED <<input, expected>>
    BY <1>3 DEF CommitFails, Finish, Goto
  <2>2. pc'[r] = "done" /\ outcome'[r] = "INTERNAL_ERROR"
    BY <1>1, <2>1 DEF TypeOK, RequestOk
  <2>3. Undisturbed(r)
    BY <1>1, <2>1 DEF TypeOK, Undisturbed
  <2>4. CASE ApplyTransaction(r)
    BY <1>1, <2>1, <2>2, <2>3, <2>4, AppliedKeeps
  <2>5. CASE UNCHANGED <<stored, outbox>>
    <3>1. \A q \in Requests : pc'[q] # "commit"
      BY <1>1, <2>2, <2>3, CommitterIsWriter DEF Holds, Undisturbed, SingleInv,
         StoreInv
    <3>2. CacheOk'
      BY <1>1, <2>1, <2>5, <3>1, CutOffKeepsCache
    <3>3. RequestOk(r)' /\ ~Writer(r)'
      BY <2>2 DEF RequestOk, Saving, Writer, InFlight
    <3> QED
      BY <1>1, <2>3, <2>5, <3>2, <3>3, QuietKeeps
  <2> QED
    BY <1>3, <2>4, <2>5 DEF CommitFails
<1> QED
  BY <1>2, <1>3

\* The cache is written before the commit: the copy in it is about to be committed.
LEMMA WriteCacheKeeps ==
    ASSUME SingleWriter, StoreInv, SingleInv, NEW r \in Requests, WriteCache(r)
    PROVE  SingleInv'
<1>1. TypeOK /\ RequestOk(r)
  BY DEF StoreInv, SingleInv
<1>2. /\ pc[r] = "writecache"
      /\ CacheSet(entity[r])
      /\ pc' = [pc EXCEPT ![r] = "commit"]
      /\ UNCHANGED <<now, stored, outbox, input, entity, loaded, expected, outcome>>
  BY DEF WriteCache, Goto, database, memory, SingleWriter
<1>3. pc'[r] = "commit" /\ outcome'[r] = "none" /\ Undisturbed(r)
  BY <1>1, <1>2 DEF TypeOK, RequestOk, Undisturbed
<1>4. RequestOk(r)'
  <2>1. /\ Commanded(r, stored, entity[r]) => Commanded(r, stored, entity[r])'
        /\ Greeted(r, entity[r]) => Greeted(r, entity[r])'
        /\ Absent(r) => Absent(r)'
    BY <1>2 DEF Commanded, Greeted, Absent
  <2> QED
    BY <1>1, <1>2, <1>3, <2>1 DEF RequestOk, Saving
<1>5. CacheOk'
  <2>1. CASE cache' = [session |-> entity[r], until |-> now + RedisTtl]
    <3>1. cache'.session = entity'[r]
      BY <1>2, <2>1
    <3> QED
      BY <1>3, <3>1 DEF CacheOk
  <2>2. CASE "redis" \in Faults /\ UNCHANGED cache
    <3>1. \A q \in Requests : pc[q] # "commit"
      BY <1>2, CommitterIsWriter DEF Holds
    <3>2. cache # NULL => FromDb(cache.session)
      BY <2>2, <3>1 DEF SingleInv, CacheOk
    <3> QED
      BY <1>2, <2>2, <3>2 DEF CacheOk, FromDb
  <2> QED
    BY <1>2, <2>1, <2>2 DEF CacheSet
<1>6. Writer(r)' => Writer(r)
  BY <1>2 DEF Writer, InFlight
<1> QED
  BY <1>2, <1>3, <1>4, <1>5, <1>6, QuietKeeps

\* The answer after the commit, and a command or a conversion that raises.
LEMMA AnswerKeeps ==
    ASSUME SingleWriter, StoreInv, SingleInv, NEW r \in Requests,
           \/ Respond(r)
           \/ CacheGetFails(r) \/ DeserializeFails(r) \/ QueryFails(r)
    PROVE  SingleInv'
<1>1. UNCHANGED <<now, stored, outbox, cache>> /\ pc[r] \notin {"idle", "commit"}
  BY DEF Respond, CacheGetFails, DeserializeFails, QueryFails, database
<1>2. CASE Respond(r)
  <2>1. Finish(r, "ok") /\ WritesAreStored(r)
    BY <1>2 DEF Respond, SingleWriter, SingleInv, RequestOk
  <2> QED
    BY <1>1, <2>1, FinishKeeps
<1>3. CASE CacheGetFails(r) \/ DeserializeFails(r) \/ QueryFails(r)
  <2>1. \E code \in {"INTERNAL_ERROR", "INVALID_MESSAGE"} : Finish(r, code)
    BY <1>3 DEF CacheGetFails, DeserializeFails, QueryFails
  <2> QED
    BY <1>1, <2>1, FinishKeeps
<1> QED
  BY <1>2, <1>3

LEMMA CrashIsOk ==
    ASSUME SingleWriter, StoreInv, SingleInv, Crash
    PROVE  SingleInv'
<1>1. /\ "crash" \in Faults
      /\ pc' = [r \in Requests |-> IF InFlight(r) THEN "done" ELSE pc[r]]
      /\ outcome' = [r \in Requests |->
                        IF r \in Unanswered THEN "DISCONNECTED" ELSE outcome[r]]
      /\ UNCHANGED <<now, stored, outbox, cache, input>>
  BY DEF Crash
<1>2. \A r \in Requests : pc'[r] \in {"idle", "done"} /\ ~Writer(r)'
  BY <1>1 DEF InFlight, Writer
<1>3. ASSUME NEW r \in Requests PROVE RequestOk(r)'
  <2>1. outcome'[r] # "none" => pc'[r] = "done"
    BY <1>1 DEF SingleInv, RequestOk, Unanswered, InFlight
  <2>2. outcome'[r] = "ok" => WritesAreStored(r)
    BY <1>1 DEF SingleInv, RequestOk
  <2>3. WritesAreStored(r) => WritesAreStored(r)'
    BY <1>1 DEF WritesAreStored, Writes
  <2> QED
    BY <1>2, <2>1, <2>2, <2>3 DEF RequestOk, Saving
<1>4. CacheOk'
  <2>1. CASE \E r \in Requests : pc[r] = "commit"
    BY <1>1, <1>2, <2>1, CutOffKeepsCache
  <2>2. CASE ~\E r \in Requests : pc[r] = "commit"
    <3>1. FromDb(cache.session) => FromDb(cache.session)'
      BY <1>1 DEF FromDb
    <3> QED
      BY <1>1, <1>2, <2>2, <3>1 DEF SingleInv, CacheOk
  <2> QED
    BY <2>1, <2>2
<1>5. OutboxMatchesConversation'
  BY <1>1 DEF SingleInv, OutboxMatchesConversation
<1> QED
  BY <1>1, <1>2, <1>3, <1>4, <1>5 DEF SingleInv

\* Lost cache entries, the clock, and the end of a run.
LEMMA EnvironmentIsOk ==
    ASSUME SingleInv, StoreInv, LoseCacheEntry \/ Tick \/ UNCHANGED vars
    PROVE  SingleInv'
<1>1. /\ UNCHANGED <<stored, outbox, pc, input, entity, loaded, expected, outcome>>
      /\ cache' \in {cache, NULL}
      /\ now' = now \/ (now < MaxTime /\ now' = now + 1)
  BY DEF LoseCacheEntry, Tick, vars, database, memory
<1>2. now' \in 0 .. MaxTime
  BY <1>1, StoreAssumption DEF SingleInv
<1>3. \A r \in Requests : RequestOk(r)'
  BY <1>1, IdleStaysOk DEF SingleInv
<1>4. CacheOk'
  BY <1>1 DEF SingleInv, CacheOk, FromDb
<1>5. OutboxMatchesConversation'
  BY <1>1 DEF SingleInv, OutboxMatchesConversation
<1>6. \A q, r \in Requests : Writer(q)' /\ Writer(r)' => q = r
  BY <1>1 DEF SingleInv, Writer, InFlight
<1> QED
  BY <1>1, <1>2, <1>3, <1>4, <1>5, <1>6 DEF SingleInv

LEMMA InitSingle == Init => SingleInv
<1> SUFFICES ASSUME Init PROVE SingleInv
  OBVIOUS
<1>1. \A r \in Requests : RequestOk(r) /\ ~Writer(r)
  BY DEF Init, RequestOk, Saving, Writer, InFlight
<1>2. CacheOk /\ OutboxMatchesConversation
  BY DEF Init, CacheOk, OutboxMatchesConversation
<1>3. now \in 0 .. MaxTime /\ stored = NULL
  BY StoreAssumption DEF Init
<1> QED
  BY <1>1, <1>2, <1>3 DEF SingleInv

LEMMA NextSingle ==
    ASSUME SingleWriter, StoreInv, ConversationInv, PastInv, SingleInv, [Next]_vars
    PROVE  SingleInv'
<1>1. ASSUME NEW r \in Requests, Arrive(r) PROVE SingleInv'
  BY <1>1, ArriveKeeps
<1>2. ASSUME NEW r \in Requests, Serve(r) PROVE SingleInv'
  BY <1>2, GetKeeps, HandleKeeps, SaveKeeps, WriteCacheKeeps, CommitStepIsOk,
     AnswerKeeps DEF Serve
<1>3. ASSUME NEW r \in Requests, Disturb(r) PROVE SingleInv'
  BY <1>3, GetKeeps, AnswerKeeps, CommitStepIsOk DEF Disturb
<1>4. CASE Crash
  BY <1>4, CrashIsOk
<1>5. CASE LoseCacheEntry \/ Tick \/ AllServed \/ UNCHANGED vars
  BY <1>5, EnvironmentIsOk DEF AllServed
<1> QED
  BY <1>1, <1>2, <1>3, <1>4, <1>5 DEF Next

LEMMA AlwaysSingle == SingleWriter => (Spec => []SingleInv)
<1> SUFFICES ASSUME SingleWriter PROVE Spec => []SingleInv
  OBVIOUS
<1>1. Init => SingleInv
  BY InitSingle
<1>2. StoreInv /\ ConversationInv /\ PastInv /\ SingleInv /\ [Next]_vars => SingleInv'
  BY NextSingle
<1> QED
  BY <1>1, <1>2, AlwaysStore, AlwaysConversation, AlwaysPast, PTL DEF Spec

-----------------------------------------------------------------------------
(* The theorems. *)

\* A cached copy with the revision of the committed session is that session, also
\* after commits that were lost, or Redis commands that were.
THEOREM CachedRevisionsAgree ==
    SingleWriter => (Spec => []CacheAgreesAtSameRevision)
<1> SUFFICES ASSUME SingleWriter PROVE Spec => []CacheAgreesAtSameRevision
  OBVIOUS
<1>1. ASSUME StoreInv, SingleInv PROVE CacheAgreesAtSameRevision
  <2> SUFFICES ASSUME cache # NULL, stored # NULL,
                      cache.session.revision = stored.revision
               PROVE  cache.session = stored
    BY DEF CacheAgreesAtSameRevision, CacheIsLive
  <2>1. \A r \in Requests : pc[r] = "commit" =>
            entity[r].revision > stored.revision
    BY <1>1, UncommittedIsNewer
  <2>2. stored.revision \in Nat
    BY <1>1 DEF StoreInv, Sound, Session
  <2> QED
    BY <1>1, <2>1, <2>2 DEF SingleInv, CacheOk, FromDb
<1> QED
  BY <1>1, AlwaysStore, AlwaysSingle, PTL

\* The messages of a request that was answered 200 or 201 are in the database, then
\* and ever after.
THEOREM AnswersAreDurable == SingleWriter => (Spec => []AnsweredMessagesAreStored)
<1> SUFFICES ASSUME SingleWriter PROVE Spec => []AnsweredMessagesAreStored
  OBVIOUS
<1>1. SingleInv => AnsweredMessagesAreStored
  BY DEF SingleInv, RequestOk, WritesAreStored, AnsweredMessagesAreStored
<1> QED
  BY <1>1, AlwaysSingle, PTL

\* The outbox tells of each committed message after the greeting, and of no other.
THEOREM OutboxIsExact == SingleWriter => (Spec => []OutboxMatchesConversation)
<1> SUFFICES ASSUME SingleWriter PROVE Spec => []OutboxMatchesConversation
  OBVIOUS
<1>1. SingleInv => OutboxMatchesConversation
  BY DEF SingleInv
<1> QED
  BY <1>1, AlwaysSingle, PTL

\* A step changes the tables only by committing.
LEMMA OnlyCommitsWrite ==
    ASSUME [Next]_vars
    PROVE  \/ UNCHANGED <<stored, outbox>>
           \/ \E r \in Requests : pc[r] = "commit" /\ ApplyTransaction(r)
<1>1. ASSUME NEW r \in Requests, Arrive(r) PROVE UNCHANGED <<stored, outbox>>
  BY <1>1 DEF Arrive, StartSession, Receive, database
<1>2. ASSUME NEW r \in Requests, Serve(r), ~Commit(r)
      PROVE  UNCHANGED <<stored, outbox>>
  BY <1>2 DEF Serve, CacheHit, CacheMiss, DiscardCorrupt, SelectRow,
     SelectMessages, FillCache, AnswerGet, HandleUserMessage, HandleTransition,
     CheckRevision, InvalidateStale, SelectMaxSequence, Flush, WriteCache, Respond,
     database
<1>3. ASSUME NEW r \in Requests, Disturb(r), ~CommitFails(r)
      PROVE  UNCHANGED <<stored, outbox>>
  BY <1>3 DEF Disturb, CacheGetFails, CacheIsCorrupt, DeserializeFails, QueryFails,
     database
<1>4. ASSUME NEW r \in Requests, Commit(r) \/ CommitFails(r)
      PROVE  \/ UNCHANGED <<stored, outbox>>
             \/ pc[r] = "commit" /\ ApplyTransaction(r)
  BY <1>4 DEF Commit, CommitFails
<1>5. ASSUME Crash \/ LoseCacheEntry \/ Tick \/ AllServed \/ UNCHANGED vars
      PROVE  UNCHANGED <<stored, outbox>>
  BY <1>5 DEF Crash, LoseCacheEntry, Tick, AllServed, vars, database
<1> QED
  BY <1>1, <1>2, <1>3, <1>4, <1>5 DEF Next

\* The instance of the abstract specification has the same aggregate.
LEMMA SameAggregate ==
    /\ History!SessionState = SessionState
    /\ \A s : History!IsTerminal(s) <=> IsTerminal(s)
    /\ \A s, t : History!IsExpired(s, t) <=> IsExpired(s, t)
    /\ \A s, target : History!CanTransition(s, target) <=> CanTransition(s, target)
    /\ \A t : History!NewSession(t) = NewSession(t)
    /\ \A s, target, t : History!TransitionTo(s, target, t) = TransitionTo(s, target, t)
    /\ \A s, role, by, t :
           History!AppendMessage(s, role, by, t) = AppendMessage(s, role, by, t)
<1>1. /\ History!SessionState = SessionState
      /\ History!TerminalStates = TerminalStates
      /\ History!NoTime = NoTime /\ History!NoStep = NoStep
  BY DEF History!SessionState, SessionState, History!TerminalStates,
         TerminalStates, History!NoTime, NoTime, History!NoStep, NoStep
<1>2. History!AllowedTransitions = AllowedTransitions
  BY <1>1 DEF History!AllowedTransitions, AllowedTransitions
<1>3. \A s : History!IsTerminal(s) <=> IsTerminal(s)
  BY <1>1 DEF History!IsTerminal, IsTerminal
<1>4. \A s, t : History!IsExpired(s, t) <=> IsExpired(s, t)
  BY DEF History!IsExpired, IsExpired
<1>5. \A s, target : History!CanTransition(s, target) <=> CanTransition(s, target)
  BY <1>2, <1>3 DEF History!CanTransition, CanTransition
<1>6. \A t : History!NewSession(t) = NewSession(t)
  BY <1>1 DEF History!NewSession, NewSession
<1>7. ASSUME NEW s, NEW t PROVE History!BumpActivity(s, t) = BumpActivity(s, t)
  BY <1>3 DEF History!BumpActivity, BumpActivity
<1>8. ASSUME NEW s, NEW target, NEW t
      PROVE  History!TransitionTo(s, target, t) = TransitionTo(s, target, t)
  BY <1>7 DEF History!TransitionTo, TransitionTo
<1>9. ASSUME NEW s, NEW role, NEW t
      PROVE  History!AutoAdvance(s, role, t) = AutoAdvance(s, role, t)
  BY <1>8 DEF History!AutoAdvance, AutoAdvance
<1>10. ASSUME NEW s
       PROVE  History!NextMessageSequence(s) = NextMessageSequence(s)
  BY DEF History!NextMessageSequence, NextMessageSequence, History!Cardinality,
         Cardinality
<1>11. ASSUME NEW s, NEW role, NEW by, NEW t
       PROVE  History!AppendMessage(s, role, by, t) = AppendMessage(s, role, by, t)
  BY <1>7, <1>9, <1>10 DEF History!AppendMessage, AppendMessage
<1> QED
  BY <1>1, <1>3, <1>4, <1>5, <1>6, <1>8, <1>11

\* A commit is one step of the document, by a request that had none.
LEMMA CommitIsOneStep ==
    ASSUME SingleWriter, StoreInv, SingleInv, NEW r \in Requests,
           pc[r] = "commit", ApplyTransaction(r)
    PROVE  History!Next
<1> DEFINE authors == {e.by : e \in outbox}
<1>1. /\ stored' = entity[r]
      /\ input[r].op \in {"start", "message", "transition"}
      /\ input[r].op = "start" => stored = NULL /\ Greeted(r, entity[r])
      /\ input[r].op # "start" =>
            stored # NULL /\ Sound(stored) /\ Commanded(r, stored, entity[r])
  BY CommittedIsEntity
<1>2. History!TakeEffect(r)
  <2>1. r \notin authors
    BY CommittedIsEntity DEF Absent
  <2>2. EventsOf(r) # {}
    <3>1. CASE input[r].op # "message"
      BY <1>1, <3>1 DEF EventsOf
    <3>2. CASE input[r].op = "message"
      <4>1. \E m \in entity[r].messages : m.by = r
        BY <1>1, <3>2, CommittedIsEntity, CommandedEffect DEF Absent
      <4> QED
        BY <3>2, <4>1 DEF EventsOf
    <3> QED
      BY <3>1, <3>2
  <2>3. authors' = authors \cup {r}
    BY <2>2, CommittedIsEntity
  <2> QED
    BY <2>1, <2>3 DEF History!TakeEffect
<1>3. CASE input[r].op = "start"
  <2>1. PICK t \in 0 .. MaxTime :
            entity[r] = AppendMessage(NewSession(t), "assistant", r, t)
    BY <1>1, <1>3 DEF Greeted
  <2>2. History!Start(r, t)
    BY <1>1, <1>2, <1>3, <2>1, SameAggregate DEF History!Start
  <2> QED
    BY <2>2 DEF History!Next
<1>4. CASE input[r].op # "start"
  <2>1. PICK t \in 0 .. MaxTime :
          /\ stored.last_active_at <= t
          /\ \/ /\ ~IsTerminal(stored) /\ ~IsExpired(stored, t)
                /\ entity[r] = AppendMessage(AppendMessage(stored, "user", r, t),
                                             "assistant", r, t)
             \/ /\ CanTransition(stored, input[r].target)
                /\ entity[r] = TransitionTo(stored, input[r].target, t)
    BY <1>1, <1>4 DEF Commanded
  <2>a. History!Present(t)
    BY <1>1, <1>4, <2>1 DEF History!Present
  <2>2. CASE CanTransition(stored, input[r].target)
             /\ entity[r] = TransitionTo(stored, input[r].target, t)
    <3>1. input[r].target \in SessionState
      BY <1>1, <1>4, <2>2, TransitionsType DEF CanTransition, Sound, Session
    <3>2. History!Move(r, input[r].target, t)
      BY <1>1, <1>2, <2>a, <2>2, SameAggregate DEF History!Move
    <3> QED
      BY <3>1, <3>2, SameAggregate DEF History!Next
  <2>3. CASE ~IsTerminal(stored) /\ ~IsExpired(stored, t)
             /\ entity[r] = AppendMessage(AppendMessage(stored, "user", r, t),
                                          "assistant", r, t)
    <3>1. History!Converse(r, t)
      BY <1>1, <1>2, <2>a, <2>3, SameAggregate DEF History!Converse
    <3> QED
      BY <3>1 DEF History!Next
  <2> QED
    BY <2>1, <2>2, <2>3
<1> QED
  BY <1>3, <1>4

\* The store implements the single document: every commit is one command given to
\* the current session, by a request that had taken no effect before, and nothing
\* else changes the session.
THEOREM StoreImplementsHistory == SingleWriter => (Spec => ImplementsHistory)
<1> SUFFICES ASSUME SingleWriter PROVE Spec => ImplementsHistory
  OBVIOUS
<1>1. Init => History!Init
  BY DEF Init, History!Init
<1>2. StoreInv /\ SingleInv /\ [Next]_vars => [History!Next]_(History!history)
  <2> SUFFICES ASSUME StoreInv, SingleInv, [Next]_vars
               PROVE  History!Next \/ UNCHANGED History!history
    OBVIOUS
  <2>1. CASE UNCHANGED <<stored, outbox>>
    BY <2>1 DEF History!history
  <2>2. CASE \E r \in Requests : pc[r] = "commit" /\ ApplyTransaction(r)
    BY <2>2, CommitIsOneStep
  <2> QED
    BY <2>1, <2>2, OnlyCommitsWrite
<1> QED
  BY <1>1, <1>2, AlwaysStore, AlwaysSingle, PTL
     DEF Spec, ImplementsHistory, History!Spec

-----------------------------------------------------------------------------
(* The session that is stored has one history. *)

\* A command is given to a session that is not over, and makes it newer and legal.
LEMMA CommandedIsLegal ==
    ASSUME NEW r \in Requests, NEW s, Sound(s), Legal(s), NEW e, Commanded(r, s, e)
    PROVE  Legal(e) /\ ~IsTerminal(s) /\ e.last_active_at >= s.last_active_at
<1>1. PICK t \in 0 .. MaxTime :
        /\ s.last_active_at <= t
        /\ \/ /\ ~IsTerminal(s)
              /\ e = AppendMessage(AppendMessage(s, "user", r, t), "assistant", r, t)
           \/ /\ CanTransition(s, input[r].target)
              /\ e = TransitionTo(s, input[r].target, t)
  BY DEF Commanded
<1>2. t \in Time /\ t \in Nat /\ t <= t /\ s.last_active_at \in Nat
      /\ "user" \in MessageRole /\ "assistant" \in MessageRole
  BY DEF Sound, Session, Time, MessageRole
<1>3. CASE /\ ~IsTerminal(s)
           /\ e = AppendMessage(AppendMessage(s, "user", r, t), "assistant", r, t)
  <2>1. PICK asked : asked = AppendMessage(s, "user", r, t)
    OBVIOUS
  <2>2. Effect(s, t, asked) /\ ~IsTerminal(asked)
    BY <1>2, <1>3, <2>1, AppendMessageEffect
  <2>3. Legal(asked) /\ asked.last_active_at = t /\ Sound(asked)
    BY <1>1, <1>2, <2>2, EffectIsLegal DEF Effect
  <2>4. Effect(asked, t, e)
    BY <1>2, <1>3, <2>1, <2>2, <2>3, AppendMessageEffect
  <2>5. Legal(e) /\ e.last_active_at = t
    BY <1>2, <2>3, <2>4, EffectIsLegal
  <2> QED
    BY <1>1, <1>2, <1>3, <2>5
<1>4. CASE /\ CanTransition(s, input[r].target)
           /\ e = TransitionTo(s, input[r].target, t)
  <2>1. input[r].target \in SessionState
    BY <1>4, TransitionsType DEF CanTransition, Sound, Session
  <2>2. Effect(s, t, e)
    BY <1>2, <1>4, <2>1, TransitionToEffect
  <2>3. Legal(e) /\ e.last_active_at = t
    BY <1>1, <1>2, <2>2, EffectIsLegal
  <2> QED
    BY <1>1, <1>2, <1>4, <2>3 DEF CanTransition
<1> QED
  BY <1>1, <1>3, <1>4

LEMMA GreetedIsLegal ==
    ASSUME NEW r \in Requests, NEW e, Greeted(r, e)
    PROVE  Legal(e)
<1>1. PICK t \in 0 .. MaxTime : e = AppendMessage(NewSession(t), "assistant", r, t)
  BY DEF Greeted
<1>2. t \in Time /\ t <= t /\ "assistant" \in MessageRole
  BY DEF Time, MessageRole
<1>3. PICK new : new = NewSession(t)
  OBVIOUS
<1>4. Sound(new) /\ Legal(new) /\ new.last_active_at = t /\ ~IsTerminal(new)
  BY <1>2, <1>3, NewSessionIsSound, NewSessionIsLegal
<1>5. Effect(new, t, e)
  BY <1>1, <1>2, <1>3, <1>4, AppendMessageEffect
<1> QED
  BY <1>2, <1>4, <1>5, EffectIsLegal

LegalInv == stored # NULL => Legal(stored)

\* What a commit does to the session that is stored.
Advanced ==
    stored # NULL /\ stored' # stored =>
        /\ ~IsTerminal(stored)
        /\ stored'.revision > stored.revision
        /\ stored'.last_active_at >= stored.last_active_at

LEMMA StoredAdvances ==
    ASSUME SingleWriter, StoreInv, SingleInv, LegalInv, [Next]_vars
    PROVE  LegalInv' /\ Advanced
<1>1. CASE UNCHANGED stored
  BY <1>1 DEF LegalInv, Advanced
<1>2. ASSUME NEW r \in Requests, pc[r] = "commit", ApplyTransaction(r)
      PROVE  LegalInv' /\ Advanced
  <2>1. /\ stored' = entity[r]
        /\ input[r].op = "start" => stored = NULL /\ Greeted(r, entity[r])
        /\ input[r].op # "start" =>
              stored # NULL /\ Sound(stored) /\ Commanded(r, stored, entity[r])
        /\ Absent(r)
    BY <1>2, CommittedIsEntity
  <2>2. CASE input[r].op = "start"
    BY <2>1, <2>2, GreetedIsLegal DEF LegalInv, Advanced
  <2>3. CASE input[r].op # "start"
    <3>1. Legal(stored) /\ \A m \in stored.messages : m.by # r
      BY <2>1, <2>3 DEF LegalInv, Absent
    <3>2. /\ Legal(entity[r]) /\ ~IsTerminal(stored)
          /\ entity[r].last_active_at >= stored.last_active_at
      BY <2>1, <2>3, <3>1, CommandedIsLegal
    <3>3. entity[r].revision > stored.revision
      BY <2>1, <2>3, <3>1, CommandedEffect
    <3> QED
      BY <2>1, <3>2, <3>3 DEF LegalInv, Advanced
  <2> QED
    BY <2>2, <2>3
<1> QED
  BY <1>1, <1>2, OnlyCommitsWrite

LEMMA AlwaysLegal == SingleWriter => (Spec => []LegalInv)
<1> SUFFICES ASSUME SingleWriter PROVE Spec => []LegalInv
  OBVIOUS
<1>1. Init => LegalInv
  BY DEF Init, LegalInv
<1>2. StoreInv /\ SingleInv /\ LegalInv /\ [Next]_vars => LegalInv'
  BY StoredAdvances
<1> QED
  BY <1>1, <1>2, AlwaysStore, AlwaysSingle, PTL DEF Spec

\* The milestones of the stored session are those of its state, in order, and its
\* deadline that of its last activity, although a save writes only the columns that
\* differ from the row it read.
THEOREM StoredSessionsAreLegal == SingleWriter => (Spec => []StoredSessionIsLegal)
<1> SUFFICES ASSUME SingleWriter PROVE Spec => []StoredSessionIsLegal
  OBVIOUS
<1>1. LegalInv => StoredSessionIsLegal
  BY DEF LegalInv, Legal, StoredSessionIsLegal
<1> QED
  BY <1>1, AlwaysLegal, PTL

\* A session that reached a terminal state is never written again, whichever old copy
\* of it a later request worked on.
THEOREM TerminalSessionsAreFinal == SingleWriter => (Spec => TerminalSessionsStay)
<1> SUFFICES ASSUME SingleWriter PROVE Spec => TerminalSessionsStay
  OBVIOUS
<1>1. StoreInv /\ SingleInv /\ LegalInv /\ [Next]_vars
        => [stored # NULL /\ IsTerminal(stored) => stored' = stored]_vars
  BY StoredAdvances DEF Advanced
<1> QED
  BY <1>1, AlwaysStore, AlwaysSingle, AlwaysLegal, PTL DEF Spec, TerminalSessionsStay

\* What a commit makes visible is newer than what it replaces, in revision and in
\* activity.
THEOREM CommitsAreNewer == SingleWriter => (Spec => CommitsMoveForward)
<1> SUFFICES ASSUME SingleWriter PROVE Spec => CommitsMoveForward
  OBVIOUS
<1>1. StoreInv /\ SingleInv /\ LegalInv /\ [Next]_vars
        => [stored # NULL /\ stored' # stored =>
               /\ stored'.revision > stored.revision
               /\ stored'.last_active_at >= stored.last_active_at]_vars
  BY StoredAdvances DEF Advanced
<1> QED
  BY <1>1, AlwaysStore, AlwaysSingle, AlwaysLegal, PTL DEF Spec, CommitsMoveForward
=============================================================================
