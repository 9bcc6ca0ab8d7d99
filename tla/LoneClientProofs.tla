--------------------------- MODULE LoneClientProofs ---------------------------
(***************************************************************************)
(* A client alone that waits for its answers meets no conflict and is not  *)
(* told of an expiry that is none, until another client reads or a failure *)
(* is reported: statements, commits and conversions may fail, the process  *)
(* may die and entries may get lost, but every Redis command takes effect, *)
(* and the commit comes before the response.                               *)
(*                                                                         *)
(* The argument.  One request is under way at a time, so the cache holds   *)
(* what is stored, or what the request under way is about to store.  What  *)
(* it works on is the stored session, and no save finds a newer one or a   *)
(* message where it puts its own.  A lost commit ends that, and the same   *)
(* step reports it.                                                        *)
(***************************************************************************)
EXTENDS SingleWriterProofs

Lone ==
    /\ CommitFirst
    /\ MaxWriters = 1
    /\ "redis" \notin Faults

IsCurrent(r) ==
    /\ pc[r] = "selectmessages" => stored # NULL /\ loaded[r] = stored
    /\ pc[r] \in {"fill", "handle"} => stored # NULL /\ entity[r] = stored
    /\ pc[r] = "check" => stored # NULL /\ stored.revision = expected[r]
    /\ pc[r] = "flush" /\ input[r].op # "start" =>
           \A m \in stored.messages : m.sequence <= maxSeq[r]
    /\ pc[r] # "invalidate"
    /\ outcome[r] # "STALE_REVISION"

CacheIsCurrent ==
    cache # NULL =>
        IF \E r \in Requests : pc[r] = "commit"
        THEN \A r \in Requests : pc[r] = "commit" => cache.session = entity[r]
        ELSE stored # NULL /\ cache.session = stored

LoneInv ==
    /\ CleanSoFar
    /\ \A r \in Requests : IsCurrent(r)
    /\ CacheIsCurrent

\* The inductive invariant, next to those of SingleWriterProofs.
LoneSoFar ==
    /\ \A r \in Requests : pc[r] = "idle" => input[r] = NoInput
    /\ CleanSoFar => LoneInv

LEMMA LoneIsSingle == Lone => SingleWriter
  BY DEF Lone, SingleWriter

-----------------------------------------------------------------------------
(* One request at a time. *)

LEMMA OthersRest ==
    ASSUME SingleInv, LoneInv, NEW r \in Requests, InFlight(r)
    PROVE  \A q \in Requests \ {r} : ~InFlight(q)
  BY DEF SingleInv, LoneInv, CleanSoFar, Writer

\* A step of the only request under way.
LEMMA StepIsCurrent ==
    ASSUME LoneInv, NEW r \in Requests,
           \A q \in Requests \ {r} : ~InFlight(q),
           Undisturbed(r), CleanSoFar',
           IsCurrent(r)', CacheIsCurrent'
    PROVE  LoneInv'
<1>1. \A q \in Requests \ {r} : IsCurrent(q)' /\ ~InFlight(q)'
  BY DEF Undisturbed, LoneInv, IsCurrent, InFlight
<1> QED
  BY <1>1 DEF LoneInv

\* The cache, while nothing is written.
LEMMA CacheStaysCurrent ==
    ASSUME LoneInv, NEW r \in Requests, Undisturbed(r), UNCHANGED stored,
           \A q \in Requests \ {r} : ~InFlight(q),
           pc[r] # "commit", pc'[r] # "commit",
           cache' \in {cache, NULL} \/ (stored # NULL /\ cache'.session = stored)
    PROVE  CacheIsCurrent'
<1>1. \A q \in Requests : pc[q] # "commit" /\ pc'[q] # "commit"
  BY DEF Undisturbed, InFlight
<1> QED
  BY <1>1 DEF LoneInv, CacheIsCurrent

\* A step of r before the cache write.
LEMMA EarlyStepIsCurrent ==
    ASSUME SingleInv, LoneInv, NEW r \in Requests, Undisturbed(r),
           UNCHANGED stored,
           pc[r] # "commit", pc'[r] # "commit",
           InFlight(r), CleanSoFar',
           IsCurrent(r)',
           cache' \in {cache, NULL} \/ (stored # NULL /\ cache'.session = stored)
    PROVE  LoneInv'
<1>1. \A q \in Requests \ {r} : ~InFlight(q)
  BY OthersRest
<1>2. CacheIsCurrent'
  BY <1>1, CacheStaysCurrent
<1> QED
  BY <1>1, <1>2, StepIsCurrent

\* The end of the request, with an answer that says nothing of others.
LEMMA FinishIsCurrent ==
    ASSUME StoreInv, SingleInv, LoneInv, NEW r \in Requests, NEW code,
           Finish(r, code), UNCHANGED stored, InFlight(r), pc[r] # "commit",
           code # "STALE_REVISION", CleanSoFar',
           cache' \in {cache, NULL}
    PROVE  LoneInv'
<1>1. TypeOK
  BY DEF StoreInv
<1>2. /\ pc' = [pc EXCEPT ![r] = "done"]
      /\ outcome' = [outcome EXCEPT ![r] = IF @ = "none" THEN code ELSE @]
      /\ entity' = [entity EXCEPT ![r] = NULL]
      /\ loaded' = [loaded EXCEPT ![r] = NULL]
      /\ UNCHANGED <<input, expected>>
  BY DEF Finish, Goto
<1>3. pc'[r] = "done" /\ outcome'[r] \in {outcome[r], code}
  BY <1>1, <1>2 DEF TypeOK
<1>4. Undisturbed(r)
  BY <1>1, <1>2 DEF Undisturbed, TypeOK
<1>5. IsCurrent(r)'
  BY <1>3 DEF IsCurrent, LoneInv
<1> QED
  BY <1>2, <1>3, <1>4, <1>5, EarlyStepIsCurrent

-----------------------------------------------------------------------------
(* One lemma per group of actions. *)

LEMMA ArriveIsCurrent ==
    ASSUME Lone, StoreInv, SingleInv, LoneInv, CleanSoFar',
           NEW r \in Requests, Arrive(r)
    PROVE  LoneInv'
<1>1. TypeOK /\ SingleWriter
  BY LoneIsSingle DEF StoreInv
<1>2. /\ pc[r] = "idle"
      /\ UNCHANGED <<stored, outbox, cache, loaded, expected, maxSeq, outcome>>
  BY DEF Arrive, StartSession, Receive, database
<1>3. PICK op \in {"start", "message", "transition"} :
        /\ Admitted(op)
        /\ input'[r].op = op
        /\ pc'[r] = IF op = "start" THEN "flush" ELSE "getcache"
        /\ Undisturbed(r)
  <2>1. CASE StartSession(r)
    <3>1. /\ Admitted("start")
          /\ pc' = [pc EXCEPT ![r] = "flush"]
          /\ input' = [input EXCEPT ![r] = [NoInput EXCEPT !.op = "start"]]
          /\ \A q \in Requests \ {r} : entity'[q] = entity[q]
      BY <1>1, <2>1 DEF StartSession, Goto, TypeOK
    <3>2. input'[r].op = "start" /\ pc'[r] = "flush"
      BY <1>1, <3>1 DEF TypeOK, NoInput
    <3>3. Undisturbed(r)
      BY <1>1, <1>2, <3>1 DEF TypeOK, Undisturbed
    <3> QED
      BY <3>1, <3>2, <3>3
  <2>2. ASSUME NEW op \in Operation, NEW length, NEW target,
               Receive(r, op, length, target), op # "start"
        PROVE  /\ op # "get"
               /\ Admitted(op)
               /\ input'[r].op = op
               /\ pc'[r] = "getcache"
               /\ Undisturbed(r)
    <3>1. /\ op \in Operations
          /\ Admitted(op)
          /\ pc' = [pc EXCEPT ![r] = "getcache"]
          /\ input' = [input EXCEPT ![r] =
                          [op |-> op, length |-> length, target |-> target]]
          /\ UNCHANGED entity
      BY <2>2 DEF Receive, Goto
    <3>2. input'[r].op = op /\ pc'[r] = "getcache"
      BY <1>1, <3>1 DEF TypeOK
    <3>3. Undisturbed(r)
      BY <1>1, <1>2, <3>1 DEF TypeOK, Undisturbed
    <3> QED
      BY <3>1, <3>2, <3>3 DEF CleanSoFar
  <2>3. CASE Receive(r, "get", 0, "none")
    BY <2>2, <2>3 DEF Operation
  <2>4. ASSUME NEW length, Receive(r, "message", length, "none")
        PROVE  \E op \in {"start", "message", "transition"} :
                 /\ Admitted(op)
                 /\ input'[r].op = op
                 /\ pc'[r] = IF op = "start" THEN "flush" ELSE "getcache"
                 /\ Undisturbed(r)
    BY <2>2, <2>4 DEF Operation
  <2>5. ASSUME NEW target, Receive(r, "transition", 0, target)
        PROVE  \E op \in {"start", "message", "transition"} :
                 /\ Admitted(op)
                 /\ input'[r].op = op
                 /\ pc'[r] = IF op = "start" THEN "flush" ELSE "getcache"
                 /\ Undisturbed(r)
    BY <2>2, <2>5 DEF Operation
  <2> QED
    BY <2>1, <2>3, <2>4, <2>5 DEF Arrive
<1>4. \A q \in Requests : ~InFlight(q)
  <2>1. \A q \in Requests : ~Writer(q)
    BY <1>1, <1>2, <1>3, OneWriter
  <2> QED
    BY <2>1 DEF LoneInv, CleanSoFar, Writer
<1>5. IsCurrent(r)'
  BY <1>2, <1>3 DEF LoneInv, IsCurrent
<1>6. CacheIsCurrent'
  BY <1>2, <1>3, <1>4, CacheStaysCurrent
<1> QED
  BY <1>3, <1>4, <1>5, <1>6, StepIsCurrent

\* get() returns the stored session.
LEMMA GetIsCurrent ==
    ASSUME Lone, StoreInv, SingleInv, LoneInv, CleanSoFar',
           NEW r \in Requests,
           \/ CacheHit(r) \/ CacheMiss(r) \/ CacheIsCorrupt(r) \/ DiscardCorrupt(r)
           \/ SelectRow(r) \/ SelectMessages(r) \/ FillCache(r)
    PROVE  LoneInv'
<1>1. TypeOK /\ IsCurrent(r) /\ "redis" \notin Faults
  BY DEF StoreInv, LoneInv, Lone
<1>2. CASE CacheHit(r)
  <2>1. /\ pc[r] = "getcache"
        /\ cache # NULL
        /\ entity' = [entity EXCEPT ![r] = cache.session]
        /\ pc' = [pc EXCEPT ![r] = "handle"]
        /\ UNCHANGED <<stored, cache, input, loaded, expected, outcome>>
    BY <1>2 DEF CacheHit, CacheIsLive, Goto, database
  <2>2. stored # NULL /\ cache.session = stored
    <3>1. \A q \in Requests : pc[q] # "commit"
      BY <2>1, OthersRest DEF InFlight
    <3> QED
      BY <2>1, <3>1 DEF LoneInv, CacheIsCurrent
  <2>3. pc'[r] = "handle" /\ entity'[r] = stored /\ Undisturbed(r)
    BY <1>1, <2>1, <2>2 DEF TypeOK, Undisturbed
  <2>4. IsCurrent(r)'
    BY <1>1, <2>1, <2>2, <2>3 DEF IsCurrent
  <2> QED
    BY <2>1, <2>3, <2>4, EarlyStepIsCurrent DEF InFlight
<1>3. CASE CacheMiss(r) \/ CacheIsCorrupt(r) \/ DiscardCorrupt(r)
  <2>1. PICK label \in {"selectrow", "discard"} :
            pc' = [pc EXCEPT ![r] = label]
    BY <1>3 DEF CacheMiss, CacheIsCorrupt, DiscardCorrupt, Goto
  <2>2. /\ pc[r] \in {"getcache", "discard"}
        /\ UNCHANGED <<stored, input, entity, loaded, expected, outcome>>
        /\ cache' \in {cache, NULL}
    BY <1>3 DEF CacheMiss, CacheIsCorrupt, DiscardCorrupt, CacheInvalidate,
                database, memory
  <2>3. pc'[r] = label /\ Undisturbed(r)
    BY <1>1, <2>1, <2>2 DEF TypeOK, Undisturbed
  <2>4. IsCurrent(r)'
    BY <1>1, <2>2, <2>3 DEF IsCurrent
  <2> QED
    BY <2>2, <2>3, <2>4, EarlyStepIsCurrent DEF InFlight
<1>4. CASE SelectRow(r) /\ stored = NULL
  <2>1. /\ pc[r] = "selectrow"
        /\ Finish(r, "SESSION_NOT_FOUND")
        /\ UNCHANGED <<stored, cache>>
    BY <1>4 DEF SelectRow, database
  <2> QED
    BY <2>1, FinishIsCurrent DEF InFlight
<1>5. CASE SelectRow(r) /\ stored # NULL
  <2>1. /\ pc[r] = "selectrow"
        /\ loaded' = [loaded EXCEPT ![r] = stored]
        /\ pc' = [pc EXCEPT ![r] = "selectmessages"]
        /\ UNCHANGED <<stored, cache, input, entity, expected, outcome>>
    BY <1>5 DEF SelectRow, Goto, database
  <2>2. pc'[r] = "selectmessages" /\ loaded'[r] = stored /\ Undisturbed(r)
    BY <1>1, <2>1 DEF TypeOK, Undisturbed
  <2>3. IsCurrent(r)'
    BY <1>1, <1>5, <2>1, <2>2 DEF IsCurrent
  <2> QED
    BY <2>1, <2>2, <2>3, EarlyStepIsCurrent DEF InFlight
<1>6. CASE SelectMessages(r)
  <2>1. /\ pc[r] = "selectmessages"
        /\ entity' = [entity EXCEPT ![r] =
                         [loaded[r] EXCEPT !.messages = stored.messages]]
        /\ pc' = [pc EXCEPT ![r] = "fill"]
        /\ UNCHANGED <<stored, cache, input, loaded, expected, outcome>>
    BY <1>6 DEF SelectMessages, Goto, database
  <2>2. stored # NULL /\ loaded[r] = stored /\ stored \in Session
    BY <1>1, <2>1 DEF IsCurrent, StoreInv, Sound
  <2>3. [loaded[r] EXCEPT !.messages = stored.messages] = stored
    BY <2>2 DEF Session
  <2>4. pc'[r] = "fill" /\ entity'[r] = stored /\ Undisturbed(r)
    BY <1>1, <2>1, <2>3 DEF TypeOK, Undisturbed
  <2>5. IsCurrent(r)'
    BY <1>1, <2>1, <2>2, <2>4 DEF IsCurrent
  <2> QED
    BY <2>1, <2>4, <2>5, EarlyStepIsCurrent DEF InFlight
<1>7. CASE FillCache(r)
  <2>1. /\ pc[r] = "fill"
        /\ cache' = [session |-> entity[r], until |-> now + RedisTtl]
        /\ pc' = [pc EXCEPT ![r] = "handle"]
        /\ UNCHANGED <<stored, input, entity, loaded, expected, outcome>>
    BY <1>1, <1>7 DEF FillCache, CacheSet, Goto, database, memory
  <2>2. stored # NULL /\ entity[r] = stored /\ cache'.session = stored
    BY <1>1, <2>1 DEF IsCurrent
  <2>3. pc'[r] = "handle" /\ Undisturbed(r)
    BY <1>1, <2>1 DEF TypeOK, Undisturbed
  <2>4. IsCurrent(r)'
    BY <1>1, <2>1, <2>2, <2>3 DEF IsCurrent
  <2> QED
    BY <2>1, <2>2, <2>3, <2>4, EarlyStepIsCurrent DEF InFlight
<1> QED
  BY <1>2, <1>3, <1>4, <1>5, <1>6, <1>7

\* The service: the expected revision is the stored one.
LEMMA HandleIsCurrent ==
    ASSUME Lone, StoreInv, SingleInv, LoneInv, CleanSoFar',
           NEW r \in Requests,
           AnswerGet(r) \/ HandleUserMessage(r) \/ HandleTransition(r)
    PROVE  LoneInv'
<1>1. /\ TypeOK /\ IsCurrent(r)
      /\ pc[r] = "handle" /\ InFlight(r)
      /\ UNCHANGED <<stored, cache>>
  BY DEF StoreInv, LoneInv, AnswerGet, HandleUserMessage, HandleTransition,
         database, InFlight
<1>2. input[r].op # "get"
  BY <1>1 DEF LoneInv, CleanSoFar
<1>3. ASSUME NEW code, Finish(r, code), code # "STALE_REVISION"
      PROVE  LoneInv'
  BY <1>1, <1>3, FinishIsCurrent
<1>4. ASSUME expected' = [expected EXCEPT ![r] = entity[r].revision],
             NEW e, entity' = [entity EXCEPT ![r] = e],
             pc' = [pc EXCEPT ![r] = "check"],
             UNCHANGED <<input, loaded, outcome>>
      PROVE  LoneInv'
  <2>1. pc'[r] = "check" /\ expected'[r] = entity[r].revision
    BY <1>1, <1>4 DEF TypeOK
  <2>2. Undisturbed(r)
    BY <1>1, <1>4 DEF TypeOK, Undisturbed
  <2>3. IsCurrent(r)'
    BY <1>1, <1>4, <2>1 DEF IsCurrent
  <2> QED
    BY <1>1, <1>4, <2>1, <2>2, <2>3, EarlyStepIsCurrent
<1>5. CASE HandleUserMessage(r)
  <2>1. MessageError(r) # "STALE_REVISION"
    BY DEF MessageError, AppendError
  <2> QED
    BY <1>3, <1>4, <1>5, <2>1 DEF HandleUserMessage, Goto
<1>6. CASE HandleTransition(r)
  BY <1>3, <1>4, <1>6 DEF HandleTransition, Goto
<1> QED
  BY <1>2, <1>5, <1>6 DEF AnswerGet

\* The largest stored number is at least every stored number.
LEMMA MaxSequenceBounds ==
    ASSUME NEW M \in SUBSET Message, IsFiniteSet(M), IsNumbered(M)
    PROVE  \A m \in M : m.sequence <= MaxSequence(M)
<1> DEFINE n == Cardinality(M)
           numbers == {m.sequence : m \in M}
           IsMax(k) == \A m \in M : m.sequence <= k
<1>1. n \in Nat /\ numbers = 0 .. n - 1
  BY FS_CardinalityType DEF IsNumbered
<1> SUFFICES ASSUME M # {} PROVE IsMax(MaxSequence(M))
  OBVIOUS
<1>2. n > 0
  BY <1>1, FS_EmptySet
<1>3. \A m \in M : m.sequence \in 0 .. n - 1
  BY <1>1
<1>4. n - 1 \in numbers /\ IsMax(n - 1)
  BY <1>1, <1>2, <1>3
<1>5. MaxSequence(M) = CHOOSE k \in numbers : IsMax(k)
  BY DEF MaxSequence
<1> HIDE DEF IsMax
<1> QED
  BY <1>4, <1>5

\* A save that is about to flush puts its messages behind the stored ones.
LEMMA FlushFindsRoom ==
    ASSUME StoreInv, NEW r \in Requests, IsCurrent(r),
           pc[r] = "flush", input[r].op # "start"
    PROVE  ~ViolatesUnique(NewMessages(r))
<1> SUFFICES ASSUME NEW m \in NewMessages(r), NEW old \in stored.messages
             PROVE  m.sequence # old.sequence
  BY DEF ViolatesUnique
<1>1. m.sequence > maxSeq[r] /\ old.sequence <= maxSeq[r]
  BY DEF NewMessages, IsCurrent
<1>2. RequestInv(r)
  BY DEF StoreInv
<1>3. m.sequence \in Nat /\ old.sequence \in Nat /\ maxSeq[r] \in Int
  BY <1>2 DEF RequestInv, Consistent, StoreInv, TypeOK, NewMessages,
              Sound, Session, Message
<1> QED
  BY <1>1, <1>3

\* save() and add() find the revision they expect and room for their messages.
LEMMA SaveIsCurrent ==
    ASSUME Lone, StoreInv, SingleInv, LoneInv, CleanSoFar',
           NEW r \in Requests,
           CheckRevision(r) \/ InvalidateStale(r) \/ SelectMaxSequence(r) \/ Flush(r)
    PROVE  LoneInv'
<1>1. TypeOK /\ IsCurrent(r) /\ RequestInv(r)
  BY DEF StoreInv, LoneInv
<1>2. CASE CheckRevision(r)
  <2>1. pc[r] = "check" /\ UNCHANGED <<stored, cache>>
    BY <1>2 DEF CheckRevision, database
  <2>2. stored # NULL /\ stored.revision = expected[r]
    BY <1>1, <2>1 DEF IsCurrent
  <2>3. /\ pc' = [pc EXCEPT ![r] = "maxseq"]
        /\ loaded' = [loaded EXCEPT ![r] = stored]
        /\ UNCHANGED <<input, entity, expected, outcome>>
    BY <1>2, <2>2 DEF CheckRevision, Goto
  <2>4. pc'[r] = "maxseq" /\ Undisturbed(r)
    BY <1>1, <2>3 DEF TypeOK, Undisturbed
  <2>5. IsCurrent(r)'
    BY <1>1, <2>3, <2>4 DEF IsCurrent
  <2> QED
    BY <2>1, <2>3, <2>4, <2>5, EarlyStepIsCurrent DEF InFlight
<1>3. CASE InvalidateStale(r)
  BY <1>1, <1>3 DEF InvalidateStale, IsCurrent
<1>4. CASE SelectMaxSequence(r)
  <2>1. /\ pc[r] = "maxseq"
        /\ maxSeq' = [maxSeq EXCEPT ![r] = MaxSequence(stored.messages)]
        /\ pc' = [pc EXCEPT ![r] = "flush"]
        /\ UNCHANGED <<stored, cache, input, entity, loaded, expected, outcome>>
    BY <1>4 DEF SelectMaxSequence, Goto, database
  <2>2. /\ stored.messages \in SUBSET Message
        /\ IsFiniteSet(stored.messages)
        /\ IsNumbered(stored.messages)
    BY <1>1, <2>1 DEF RequestInv, Consistent, StoreInv, Sound, Session
  <2>3. pc'[r] = "flush" /\ maxSeq'[r] = MaxSequence(stored.messages)
    BY <1>1, <2>1 DEF TypeOK
  <2>4. Undisturbed(r)
    BY <1>1, <2>1 DEF TypeOK, Undisturbed
  <2>5. \A m \in stored.messages : m.sequence <= MaxSequence(stored.messages)
    BY <2>2, MaxSequenceBounds
  <2>6. IsCurrent(r)'
    BY <1>1, <2>1, <2>3, <2>5 DEF IsCurrent
  <2> QED
    BY <2>1, <2>3, <2>4, <2>6, EarlyStepIsCurrent DEF InFlight
<1>5. CASE Flush(r)
  <2>1. pc[r] = "flush" /\ UNCHANGED <<stored, cache>>
    BY <1>5 DEF Flush
  <2>2. input[r].op # "start" => ~ViolatesUnique(NewMessages(r))
    BY <1>1, <2>1, FlushFindsRoom
  <2>3. CASE Finish(r, "SESSION_ALREADY_EXISTS")
    BY <2>1, <2>3, FinishIsCurrent DEF InFlight
  <2>4. CASE Goto(r, "writecache") /\ UNCHANGED <<memory, outcome>>
    <3>1. /\ pc' = [pc EXCEPT ![r] = "writecache"]
          /\ UNCHANGED <<input, entity, loaded, expected, outcome>>
      BY <2>4 DEF Goto, memory
    <3>2. pc'[r] = "writecache" /\ Undisturbed(r)
      BY <1>1, <3>1 DEF TypeOK, Undisturbed
    <3>3. IsCurrent(r)'
      BY <1>1, <3>1, <3>2 DEF IsCurrent
    <3> QED
      BY <2>1, <3>1, <3>2, <3>3, EarlyStepIsCurrent DEF InFlight
  <2> QED
    BY <1>5, <2>2, <2>3, <2>4 DEF Flush
<1> QED
  BY <1>2, <1>3, <1>4, <1>5

\* The cache write, the commit and the answer.
LEMMA CommitIsCurrent ==
    ASSUME Lone, StoreInv, SingleInv, LoneInv, CleanSoFar',
           NEW r \in Requests,
           WriteCache(r) \/ Commit(r) \/ Respond(r)
    PROVE  LoneInv'
<1>1. TypeOK /\ IsCurrent(r) /\ SingleWriter /\ CommitFirst /\ "redis" \notin Faults
  BY LoneIsSingle DEF StoreInv, LoneInv, Lone
<1>2. InFlight(r) /\ \A q \in Requests \ {r} : ~InFlight(q)
  <2>1. InFlight(r)
    BY DEF WriteCache, Commit, Respond, InFlight
  <2> QED
    BY <2>1, OthersRest
<1>3. CASE WriteCache(r)
  <2>1. /\ cache' = [session |-> entity[r], until |-> now + RedisTtl]
        /\ pc' = [pc EXCEPT ![r] = "commit"]
        /\ UNCHANGED <<stored, input, entity, loaded, expected, outcome>>
    BY <1>1, <1>3 DEF WriteCache, CacheSet, Goto, database, memory
  <2>2. /\ pc'[r] = "commit" /\ Undisturbed(r)
        /\ cache'.session = entity[r]
    BY <1>1, <2>1 DEF TypeOK, Undisturbed
  <2>3. IsCurrent(r)'
    BY <1>1, <2>1, <2>2 DEF IsCurrent
  <2>4. CacheIsCurrent'
    BY <1>2, <2>1, <2>2 DEF CacheIsCurrent, Undisturbed, InFlight
  <2> QED
    BY <1>2, <2>2, <2>3, <2>4, StepIsCurrent
<1>4. CASE Commit(r)
  <2>1. /\ pc[r] = "commit"
        /\ ApplyTransaction(r)
        /\ pc' = [pc EXCEPT ![r] = "respond"]
        /\ UNCHANGED <<cache, input, entity, loaded, expected, outcome>>
    BY <1>1, <1>4 DEF Commit, Goto, memory
  <2>2. pc'[r] = "respond" /\ Undisturbed(r)
    BY <1>1, <2>1 DEF TypeOK, Undisturbed
  <2>3. stored' = entity[r] /\ stored' # NULL
    BY <1>1, <2>1, CommittedIsEntity, StoreAssumption DEF Sound
  <2>4. IsCurrent(r)'
    BY <1>1, <2>1, <2>2 DEF IsCurrent
  <2>5. CacheIsCurrent'
    BY <1>2, <2>1, <2>2, <2>3 DEF LoneInv, CacheIsCurrent, Undisturbed, InFlight
  <2> QED
    BY <1>2, <2>2, <2>4, <2>5, StepIsCurrent
<1>5. CASE Respond(r)
  <2>1. /\ pc[r] = "respond"
        /\ Finish(r, "ok")
        /\ UNCHANGED <<stored, cache>>
    BY <1>1, <1>5 DEF Respond, database
  <2> QED
    BY <1>2, <2>1, FinishIsCurrent
<1> QED
  BY <1>3, <1>4, <1>5

LEMMA EnvironmentIsCurrent ==
    ASSUME LoneInv, LoseCacheEntry \/ Tick \/ UNCHANGED vars
    PROVE  LoneInv'
<1>1. /\ UNCHANGED <<stored, pc, input, entity, loaded, expected, maxSeq, outcome>>
      /\ cache' \in {cache, NULL}
  BY DEF LoseCacheEntry, Tick, vars, database, memory
<1> QED
  BY <1>1 DEF LoneInv, CleanSoFar, IsCurrent, CacheIsCurrent, InFlight

-----------------------------------------------------------------------------
(* The theorems. *)

LEMMA InitLone == Init => LoneSoFar
<1> SUFFICES ASSUME Init PROVE LoneSoFar
  OBVIOUS
<1>1. \A r \in Requests : IsCurrent(r)
  BY DEF Init, IsCurrent
<1>2. CacheIsCurrent
  BY DEF Init, CacheIsCurrent
<1> QED
  BY <1>1, <1>2 DEF Init, LoneInv, LoneSoFar

\* A request is unanswered while it is under way.
LEMMA AnsweredIsDone ==
    ASSUME SingleInv, NEW r \in Requests, InFlight(r)
    PROVE  outcome[r] = "none"
  BY DEF SingleInv, RequestOk, InFlight

\* Every failure of a request but a conversion that says INVALID_MESSAGE is
\* reported as an internal error.
LEMMA FailureIsCurrent ==
    ASSUME Lone, StoreInv, SingleInv, LoneInv, CleanSoFar', NEW r \in Requests,
           Disturb(r)
    PROVE  LoneInv'
<1>1. CASE CacheIsCorrupt(r)
  BY <1>1, GetIsCurrent
<1>2. CASE Finish(r, "INTERNAL_ERROR") /\ InFlight(r)
  <2>1. outcome[r] = "none" /\ outcome \in [Requests -> ErrorCode \cup {"none", "ok"}]
    BY <1>2, AnsweredIsDone DEF StoreInv, TypeOK
  <2>2. outcome'[r] = "INTERNAL_ERROR"
    BY <1>2, <2>1 DEF Finish
  <2> QED
    BY <2>2 DEF CleanSoFar
<1>3. CASE DeserializeFails(r) /\ Finish(r, "INVALID_MESSAGE")
  <2>1. pc[r] = "getcache" /\ UNCHANGED <<stored, cache>>
    BY <1>3 DEF DeserializeFails, database
  <2> QED
    BY <1>3, <2>1, FinishIsCurrent DEF InFlight
<1>4. \/ CacheIsCorrupt(r)
      \/ Finish(r, "INTERNAL_ERROR") /\ InFlight(r)
      \/ DeserializeFails(r) /\ Finish(r, "INVALID_MESSAGE")
  BY DEF Disturb, CacheGetFails, DeserializeFails, QueryFails, CommitFails, InFlight
<1> QED
  BY <1>1, <1>2, <1>3, <1>4

LEMMA CrashIsReported ==
    ASSUME SingleInv, Crash
    PROVE  ~CleanSoFar'
<1>1. PICK r \in Requests : InFlight(r)
  BY DEF Crash
<1>2. r \in Unanswered
  BY <1>1, AnsweredIsDone DEF Unanswered
<1>3. outcome'[r] = "DISCONNECTED"
  BY <1>2 DEF Crash
<1> QED
  BY <1>3 DEF CleanSoFar

\* A request asks once, and is answered once.
Remembers(r) ==
    /\ pc'[r] = "idle" => pc[r] = "idle"
    /\ input'[r] = input[r] \/ (pc[r] = "idle" /\ pc'[r] # "idle")
    /\ outcome[r] \in {"none", outcome'[r]}

LEMMA StepRemembers ==
    ASSUME Lone, StoreInv, [Next]_vars, NEW r \in Requests
    PROVE  Remembers(r)
<1>1. TypeOK /\ CommitFirst
  BY DEF StoreInv, Lone
<1>2. ASSUME NEW q \in Requests, Arrive(q) PROVE Remembers(r)
  <2>1. PICK label \in {"flush", "getcache"} : \E i :
          /\ pc[q] = "idle"
          /\ pc' = [pc EXCEPT ![q] = label]
          /\ input' = [input EXCEPT ![q] = i]
          /\ UNCHANGED outcome
    BY <1>2 DEF Arrive, StartSession, Receive, Goto
  <2> QED
    BY <1>1, <2>1 DEF TypeOK, Remembers
<1>3. ASSUME NEW q \in Requests, NEW code, Finish(q, code) PROVE Remembers(r)
  BY <1>1, <1>3 DEF TypeOK, Finish, Goto, Remembers
<1>4. ASSUME NEW q \in Requests, NEW label, Goto(q, label), label # "idle",
             UNCHANGED <<input, outcome>>
      PROVE  Remembers(r)
  BY <1>1, <1>4 DEF TypeOK, Goto, Remembers
<1>5. ASSUME NEW q \in Requests,
             \/ CacheHit(q) \/ CacheMiss(q) \/ DiscardCorrupt(q)
             \/ SelectRow(q) \/ SelectMessages(q) \/ FillCache(q)
      PROVE  Remembers(r)
  BY <1>3, <1>4, <1>5 DEF CacheHit, CacheMiss, DiscardCorrupt, SelectRow,
     SelectMessages, FillCache, memory
<1>6. ASSUME NEW q \in Requests,
             \/ AnswerGet(q) \/ HandleUserMessage(q) \/ HandleTransition(q)
             \/ CheckRevision(q) \/ InvalidateStale(q) \/ SelectMaxSequence(q)
      PROVE  Remembers(r)
  BY <1>3, <1>4, <1>6 DEF AnswerGet, HandleUserMessage, HandleTransition,
     CheckRevision, InvalidateStale, SelectMaxSequence, memory
<1>7. ASSUME NEW q \in Requests,
             Flush(q) \/ WriteCache(q) \/ Commit(q) \/ Respond(q)
      PROVE  Remembers(r)
  BY <1>1, <1>3, <1>4, <1>7 DEF Flush, WriteCache, Commit, Respond, memory
<1>8. ASSUME NEW q \in Requests, Disturb(q) PROVE Remembers(r)
  BY <1>3, <1>4, <1>8 DEF Disturb, CacheGetFails, CacheIsCorrupt,
     DeserializeFails, QueryFails, CommitFails, memory
<1>9. CASE Crash
  BY <1>1, <1>9 DEF Crash, TypeOK, InFlight, Unanswered, Remembers
<1>10. CASE LoseCacheEntry \/ Tick \/ AllServed \/ UNCHANGED vars
  BY <1>10 DEF LoseCacheEntry, Tick, AllServed, vars, memory, Remembers
<1> QED
  BY <1>2, <1>5, <1>6, <1>7, <1>8, <1>9, <1>10 DEF Next, Serve

\* What has been read or reported stays so.
LEMMA CleanBefore ==
    ASSUME Lone, StoreInv, LoneSoFar, [Next]_vars, CleanSoFar'
    PROVE  CleanSoFar
<1> SUFFICES ASSUME NEW r \in Requests
             PROVE  /\ input[r].op # "get"
                    /\ outcome[r] \notin {"INTERNAL_ERROR", "DISCONNECTED"}
  BY DEF CleanSoFar
<1>1. Remembers(r)
  BY StepRemembers
<1>2. pc[r] = "idle" => input[r].op = "none"
  BY DEF LoneSoFar, NoInput
<1> QED
  BY <1>1, <1>2 DEF CleanSoFar, Remembers

LEMMA NextLone ==
    ASSUME Lone, StoreInv, SingleInv, LoneSoFar, [Next]_vars
    PROVE  LoneSoFar'
<1>1. ASSUME NEW r \in Requests, pc'[r] = "idle" PROVE input'[r] = NoInput
  BY <1>1, StepRemembers DEF Remembers, LoneSoFar
<1> SUFFICES ASSUME CleanSoFar' PROVE LoneInv'
  BY <1>1 DEF LoneSoFar
<1>2. LoneInv
  BY CleanBefore DEF LoneSoFar
<1>3. ASSUME NEW r \in Requests, Arrive(r) PROVE LoneInv'
  BY <1>2, <1>3, ArriveIsCurrent
<1>4. ASSUME NEW r \in Requests, Serve(r) PROVE LoneInv'
  BY <1>2, <1>4, GetIsCurrent, HandleIsCurrent, SaveIsCurrent, CommitIsCurrent
  DEF Serve
<1>5. ASSUME NEW r \in Requests, Disturb(r) PROVE LoneInv'
  BY <1>2, <1>5, FailureIsCurrent
<1>6. ~Crash
  BY CrashIsReported
<1>7. CASE LoseCacheEntry \/ Tick \/ AllServed \/ UNCHANGED vars
  BY <1>2, <1>7, EnvironmentIsCurrent DEF AllServed
<1> QED
  BY <1>3, <1>4, <1>5, <1>6, <1>7 DEF Next

LEMMA AlwaysLone == Lone => (Spec => []LoneSoFar)
<1> SUFFICES ASSUME Lone PROVE Spec => []LoneSoFar
  OBVIOUS
<1>1. Init => LoneSoFar
  BY InitLone
<1>2. StoreInv /\ SingleInv /\ LoneSoFar /\ [Next]_vars => LoneSoFar'
  BY NextLone
<1>3. Spec => []SingleInv
  BY AlwaysSingle, LoneIsSingle
<1> QED
  BY <1>1, <1>2, <1>3, AlwaysStore, PTL DEF Spec

\* Until another client reads or a failure is reported, a client that waits for its
\* answers meets no conflict, whatever Redis loses and however long it pauses.
THEOREM LoneClientNeverConflicts == Lone => (Spec => []LoneClientMeetsNoConflict)
<1> SUFFICES ASSUME Lone PROVE Spec => []LoneClientMeetsNoConflict
  OBVIOUS
<1>1. StoreInv /\ LoneSoFar => LoneClientMeetsNoConflict
  <2> SUFFICES ASSUME StoreInv, LoneInv, NEW r \in Requests
               PROVE  /\ outcome[r] # "STALE_REVISION"
                      /\ pc[r] = "flush" /\ input[r].op # "start"
                             => ~ViolatesUnique(NewMessages(r))
    BY DEF LoneSoFar, LoneClientMeetsNoConflict
  <2>1. IsCurrent(r)
    BY DEF LoneInv
  <2> QED
    BY <2>1, FlushFindsRoom DEF IsCurrent
<1> QED
  BY <1>1, AlwaysLone, AlwaysStore, PTL

\* An answer of SESSION_EXPIRED is that of the expired copy: the reply of a turn is
\* never refused for it, as the message before it moves the deadline.
LEMMA ExpiredCopy ==
    ASSUME StoreInv, NEW r \in Requests, pc[r] = "handle",
           MessageError(r) = "SESSION_EXPIRED"
    PROVE  IsExpired(entity[r], now)
<1> DEFINE s == entity[r]
           asked == AppendMessage(s, "user", r, now)
<1>1. Sound(s) /\ now \in Nat
  BY DEF StoreInv, TypeOK, Time, RequestInv, Consistent
<1> SUFFICES ASSUME ~IsExpired(s, now) PROVE FALSE
  OBVIOUS
<1>2. AppendError(s, now, input[r].length, FALSE) = "none"
  BY DEF MessageError, AppendError
<1>3. ~IsTerminal(s)
  BY <1>2 DEF AppendError
<1>4. IsExpired(asked, now) /\ ~IsTerminal(asked)
  BY <1>2 DEF MessageError, AppendError
<1>5. asked.expires_at = now + Ttl
  <2> DEFINE advanced == AutoAdvance(s, "user", now)
             longer == [advanced EXCEPT !.messages = @ \cup
                          {[sequence |-> NextMessageSequence(advanced),
                            role |-> "user", by |-> r]}]
  <2>1. asked = BumpActivity(longer, now)
    BY DEF AppendMessage
  <2>2. Sound(advanced)
    BY <1>1, AutoAdvanceIsSound DEF Time
  <2> HIDE DEF advanced
  <2>3. advanced \in Session /\ DOMAIN longer = DOMAIN advanced
        /\ longer.state = advanced.state
    BY <2>2 DEF Sound, Session
  <2> HIDE DEF longer
  <2>4. asked.expires_at = (IF IsTerminal(longer) THEN longer.expires_at
                            ELSE now + Ttl)
        /\ asked.state = longer.state
    <3>1. DOMAIN longer = {"state", "revision", "current_step", "last_active_at",
                           "expires_at", "confirmed_at", "submitted_at",
                           "completed_at", "messages"}
      BY <2>3 DEF Session
    <3> QED
      BY <2>1, <3>1 DEF BumpActivity
  <2> QED
    BY <1>4, <2>4 DEF IsTerminal
<1>6. asked.expires_at > now
  BY <1>1, <1>5, TtlAssumption
<1> QED
  BY <1>1, <1>4, <1>5, <1>6, TtlAssumption DEF IsExpired

\* A step that answers SESSION_EXPIRED is the service refusing a message.
LEMMA WhoAnswersExpired ==
    ASSUME StoreInv, [Next]_vars, NEW r \in Requests,
           outcome[r] = "none", outcome'[r] = "SESSION_EXPIRED"
    PROVE  pc[r] = "handle" /\ MessageError(r) = "SESSION_EXPIRED"
<1>1. outcome \in [Requests -> ErrorCode \cup {"none", "ok"}]
  BY DEF StoreInv, TypeOK
<1>2. ASSUME NEW q \in Requests, NEW code, Finish(q, code)
      PROVE  q = r /\ code = "SESSION_EXPIRED"
  BY <1>1, <1>2 DEF Finish
<1>3. outcome' # outcome /\ outcome'[r] \notin {outcome[r], "ok", "DISCONNECTED"}
  OBVIOUS
<1>4. ASSUME NEW q \in Requests, Arrive(q) PROVE FALSE
  BY <1>3, <1>4 DEF Arrive, StartSession, Receive
<1>5. ASSUME NEW q \in Requests, Serve(q), ~HandleUserMessage(q), ~Respond(q)
      PROVE  FALSE
  BY <1>2, <1>3, <1>5 DEF Serve, CacheHit, CacheMiss, DiscardCorrupt, SelectRow,
     SelectMessages, FillCache, AnswerGet, HandleTransition, CheckRevision,
     InvalidateStale, SelectMaxSequence, Flush, WriteCache, Commit
<1>6. ASSUME NEW q \in Requests, Respond(q) PROVE FALSE
  <2>1. outcome'[r] \in {outcome[r], "ok"}
    BY <1>1, <1>2, <1>6 DEF Respond
  <2> QED
    BY <1>3, <2>1
<1>7. ASSUME NEW q \in Requests, HandleUserMessage(q)
      PROVE  pc[r] = "handle" /\ MessageError(r) = "SESSION_EXPIRED"
  BY <1>2, <1>3, <1>7 DEF HandleUserMessage
<1>8. ASSUME NEW q \in Requests, Disturb(q) PROVE FALSE
  BY <1>2, <1>3, <1>8 DEF Disturb, CacheGetFails, CacheIsCorrupt,
     DeserializeFails, QueryFails, CommitFails
<1>9. CASE Crash
  BY <1>3, <1>9 DEF Crash
<1>10. CASE LoseCacheEntry \/ Tick \/ AllServed \/ UNCHANGED vars
  BY <1>3, <1>10 DEF LoseCacheEntry, Tick, AllServed, vars
<1> QED
  BY <1>4, <1>5, <1>6, <1>7, <1>8, <1>9, <1>10 DEF Next

\* Until then it is told that its session has expired only when the stored session
\* has.
THEOREM LoneClientExpiresInTime ==
    Lone => (Spec => [][CleanSoFar =>
        \A r \in Requests :
            outcome[r] = "none" /\ outcome'[r] = "SESSION_EXPIRED"
                => stored # NULL /\ IsExpired(stored, now)]_vars)
<1> SUFFICES ASSUME Lone
             PROVE  Spec => [][CleanSoFar =>
                        \A r \in Requests :
                            outcome[r] = "none" /\ outcome'[r] = "SESSION_EXPIRED"
                                => stored # NULL /\ IsExpired(stored, now)]_vars
  OBVIOUS
<1>1. StoreInv /\ LoneSoFar /\ [Next]_vars
        => (CleanSoFar =>
              \A r \in Requests :
                outcome[r] = "none" /\ outcome'[r] = "SESSION_EXPIRED"
                    => stored # NULL /\ IsExpired(stored, now))
  <2> SUFFICES ASSUME StoreInv, LoneInv, [Next]_vars, NEW r \in Requests,
                      outcome[r] = "none", outcome'[r] = "SESSION_EXPIRED"
               PROVE  stored # NULL /\ IsExpired(stored, now)
    BY DEF LoneSoFar
  <2>1. pc[r] = "handle" /\ IsExpired(entity[r], now)
    BY WhoAnswersExpired, ExpiredCopy
  <2>2. stored # NULL /\ entity[r] = stored
    BY <2>1 DEF LoneInv, IsCurrent
  <2> QED
    BY <2>1, <2>2
<1> QED
  BY <1>1, AlwaysLone, AlwaysStore, PTL DEF Spec
===============================================================================
