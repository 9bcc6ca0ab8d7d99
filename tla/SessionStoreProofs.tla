------------------------- MODULE SessionStoreProofs -------------------------
(***************************************************************************)
(* The store keeps its types and the committed conversation its numbering, *)
(* for any requests, any number of writers, any failures.                  *)
(*                                                                         *)
(* The argument.  A session in memory, in the cache or in the database is  *)
(* numbered 0, 1, 2, ... (Sound), since each is a copy of another or one   *)
(* message longer.  A save keeps the messages above max_seq, a number that *)
(* was taken in the past and is smaller than the number of stored messages *)
(* ever after, as messages are never deleted.  Either nothing is above it, *)
(* or the message max_seq + 1 is; the unique constraint lets that pass     *)
(* only if max_seq is still the last number in the table, and then the new *)
(* messages continue the stored ones.  From the flush to the commit this   *)
(* stays so because the row lock keeps other requests from committing.     *)
(***************************************************************************)
EXTENDS SessionStore, OnboardingSessionProofs

\* Where a request's transaction holds the row lock.
Holds(p) == p \in {"writecache", "commit"} \/ (p = "respond" /\ ~CommitFirst)

\* The messages of e above mx collide with no message of the row st.
Fresh(e, mx, st) ==
    \A m \in e.messages, old \in st.messages :
        m.sequence > mx => m.sequence # old.sequence

\* What is known of a request r at p, with its operation, its entity, its loaded
\* row and its max_seq, when the row is st and lk holds the lock.
Consistent(r, p, op, e, l, mx, st, lk) ==
    /\ e = NULL \/ Sound(e)
    /\ l = NULL \/ Sound(l)
    /\ p \in {"getcache", "discard", "selectrow", "selectmessages", "fill",
              "handle"} => op \in {"get", "message", "transition"}
    /\ p \in {"check", "invalidate", "maxseq"} => op \in {"message", "transition"}
    /\ p = "flush" \/ Holds(p) => op \in {"start", "message", "transition"}
    /\ p = "selectmessages" => l # NULL /\ st # NULL
    /\ p \in {"fill", "handle", "check", "maxseq", "flush"} \/ Holds(p)
          => e # NULL
    /\ (p \in {"maxseq", "flush"} \/ Holds(p)) /\ op # "start"
          => l # NULL /\ st # NULL
    /\ (p = "flush" \/ Holds(p)) /\ op # "start"
          => mx < Cardinality(st.messages)
    /\ lk = r <=> Holds(p)
    /\ Holds(p) => IF op = "start" THEN st = NULL ELSE Fresh(e, mx, st)

RequestInv(r) ==
    Consistent(r, pc[r], input[r].op, entity[r], loaded[r], maxSeq[r],
               stored, lock)

\* The inductive invariant.
StoreInv ==
    /\ TypeOK
    /\ stored = NULL \/ Sound(stored)
    /\ cache = NULL \/ Sound(cache.session)
    /\ \A r \in Requests : RequestInv(r)

-----------------------------------------------------------------------------
(* Numbered sets of messages. *)

\* Numbers identify the messages of a numbered set.
LEMMA NumbersIdentify ==
    ASSUME NEW M \in SUBSET Message, IsFiniteSet(M), IsNumbered(M),
           NEW a \in M, NEW b \in M, a.sequence = b.sequence
    PROVE  a = b
<1> DEFINE n == Cardinality(M)
           f == [m \in M |-> m.sequence]
<1>1. n \in Nat
  BY FS_CardinalityType
<1>2. f \in Surjection(M, 0 .. n - 1)
  BY DEF Surjection, IsNumbered
<1>3. Cardinality(0 .. n - 1) = n
  <2>1. Cardinality(0 .. n - 1) = IF 0 > n - 1 THEN 0 ELSE (n - 1) - 0 + 1
    BY <1>1, FS_Interval
  <2> QED
    BY <1>1, <2>1
<1>4. f \in Injection(M, 0 .. n - 1)
  BY <1>2, <1>3, FS_Surjection
<1> QED
  BY <1>4 DEF Injection, IsInjective

\* A finite set whose numbers identify its messages and fill 0 .. n - 1 is numbered.
LEMMA IdentifiedIsNumbered ==
    ASSUME NEW M, NEW n \in Nat,
           {m.sequence : m \in M} = 0 .. n - 1,
           \A a, b \in M : a.sequence = b.sequence => a = b
    PROVE  IsFiniteSet(M) /\ Cardinality(M) = n /\ IsNumbered(M)
<1> DEFINE f == [m \in M |-> m.sequence]
<1>1. IsFiniteSet(0 .. n - 1) /\ Cardinality(0 .. n - 1) = n
  <2>1. /\ IsFiniteSet(0 .. n - 1)
        /\ Cardinality(0 .. n - 1) = IF 0 > n - 1 THEN 0 ELSE (n - 1) - 0 + 1
    BY FS_Interval
  <2> QED
    BY <2>1
<1>2. f \in Injection(M, 0 .. n - 1)
  BY DEF Injection, IsInjective
<1>3. f \in Surjection(M, 0 .. n - 1)
  BY <1>2 DEF Injection, Surjection
<1>4. IsFiniteSet(M) /\ Cardinality(M) = n
  BY <1>1, <1>2, <1>3, FS_Injection
<1> QED
  BY <1>4 DEF IsNumbered

\* What a save adds to the row continues its numbering.
LEMMA MergeIsNumbered ==
    ASSUME NEW old \in SUBSET Message, IsFiniteSet(old), IsNumbered(old),
           NEW mine \in SUBSET Message, IsFiniteSet(mine), IsNumbered(mine),
           NEW mx \in Nat \cup {-1}, mx < Cardinality(old),
           \A m \in mine, o \in old :
               m.sequence > mx => m.sequence # o.sequence
    PROVE  LET all == old \cup {m \in mine : m.sequence > mx}
           IN  /\ IsFiniteSet(all)
               /\ IsNumbered(all)
               /\ Cardinality(old) <= Cardinality(all)
<1> DEFINE k == Cardinality(old)
           n == Cardinality(mine)
           new == {m \in mine : m.sequence > mx}
<1>1. k \in Nat /\ n \in Nat
  BY FS_CardinalityType
<1>2. /\ {o.sequence : o \in old} = 0 .. k - 1
      /\ {m.sequence : m \in mine} = 0 .. n - 1
  BY DEF IsNumbered
<1>3. CASE n <= mx + 1
  <2>1. \A m \in mine : m.sequence \in 0 .. n - 1
    BY <1>2
  <2>2. new = {}
    BY <1>1, <1>3, <2>1
  <2>3. old \cup new = old
    BY <2>2
  <2> QED
    BY <1>1, <2>3
<1>4. CASE n > mx + 1
  <2>1. mx + 1 \in 0 .. n - 1
    BY <1>1, <1>4
  <2>2. PICK m \in mine : m.sequence = mx + 1
    BY <1>2, <2>1
  <2>3. mx + 1 \notin 0 .. k - 1
    BY <1>2, <2>2
  <2>4. mx = k - 1
    BY <1>1, <2>3
  <2>5. {m1.sequence : m1 \in new} = k .. n - 1
    <3>1. ASSUME NEW m1 \in new PROVE m1.sequence \in k .. n - 1
      <4>1. m1.sequence \in 0 .. n - 1
        BY <1>2
      <4> QED
        BY <1>1, <2>4, <4>1
    <3>2. ASSUME NEW i \in k .. n - 1 PROVE \E m1 \in new : m1.sequence = i
      <4>1. i \in 0 .. n - 1
        BY <1>1
      <4>2. PICK m1 \in mine : m1.sequence = i
        BY <1>2, <4>1
      <4> QED
        BY <1>1, <2>4, <4>2
    <3> QED
      BY <3>1, <3>2
  <2>6. {m1.sequence : m1 \in old \cup new} = 0 .. n - 1
    <3>1. {m1.sequence : m1 \in old \cup new}
            = {m1.sequence : m1 \in old} \cup {m1.sequence : m1 \in new}
      OBVIOUS
    <3>2. (0 .. k - 1) \cup (k .. n - 1) = 0 .. n - 1
      BY <1>1, <1>4, <2>4
    <3> QED
      BY <1>2, <2>5, <3>1, <3>2
  <2>7. \A a, b \in old \cup new : a.sequence = b.sequence => a = b
    BY NumbersIdentify
  <2>8. /\ IsFiniteSet(old \cup new)
        /\ Cardinality(old \cup new) = n
        /\ IsNumbered(old \cup new)
    BY <1>1, <2>6, <2>7, IdentifiedIsNumbered
  <2> QED
    BY <1>1, <1>4, <2>4, <2>8
<1> QED
  BY <1>1, <1>3, <1>4

\* max(sequence) is a number of the table, or -1.
LEMMA MaxSequenceIsBelow ==
    ASSUME NEW M \in SUBSET Message, IsFiniteSet(M), IsNumbered(M)
    PROVE  /\ MaxSequence(M) \in Nat \cup {-1}
           /\ MaxSequence(M) < Cardinality(M)
<1> DEFINE n == Cardinality(M)
<1>1. n \in Nat
  BY FS_CardinalityType
<1>2. CASE M = {}
  BY <1>1, <1>2 DEF MaxSequence
<1>3. CASE M # {}
  <2>1. {m.sequence : m \in M} = 0 .. n - 1
    BY DEF IsNumbered
  <2>2. n > 0
    BY <1>1, <1>3, FS_EmptySet
  <2>3. \A m \in M : m.sequence \in 0 .. n - 1
    BY <2>1
  <2>4. /\ n - 1 \in {m.sequence : m \in M}
        /\ \A m \in M : m.sequence <= n - 1
    BY <1>1, <2>1, <2>2, <2>3
  <2> DEFINE IsMax(k) == \A m \in M : m.sequence <= k
  <2>5. MaxSequence(M) = CHOOSE k \in {m.sequence : m \in M} : IsMax(k)
    BY <1>3 DEF MaxSequence
  <2>6. \E k \in {m.sequence : m \in M} : IsMax(k)
    BY <2>4
  <2>7. MaxSequence(M) \in {m.sequence : m \in M}
    BY <2>5, <2>6
  <2>8. MaxSequence(M) \in 0 .. n - 1
    BY <2>1, <2>7
  <2> HIDE DEF n
  <2>9. MaxSequence(M) \in Nat /\ MaxSequence(M) < n
    BY <1>1, <2>8
  <2> QED
    BY <2>9 DEF n
<1> QED
  BY <1>2, <1>3

-----------------------------------------------------------------------------
(* Sessions put together from two others. *)

\* The row of one SELECT with the messages of a later one is a session.
LEMMA RowWithMessagesIsSound ==
    ASSUME NEW l, Sound(l), NEW s, Sound(s)
    PROVE  Sound([l EXCEPT !.messages = s.messages])
<1>1. [l EXCEPT !.messages = s.messages].messages = s.messages
  BY DEF Sound, Session
<1>2. [l EXCEPT !.messages = s.messages] \in Session
  BY DEF Sound, Session
<1> QED
  BY <1>1, <1>2 DEF Sound

\* What an UPDATE leaves of two sessions is a session, with no message less.
LEMMA UpdatedRowIsSound ==
    ASSUME NEW r \in Requests, Sound(stored), Sound(entity[r]), Sound(loaded[r]),
           maxSeq[r] \in Nat \cup {-1}, maxSeq[r] < Cardinality(stored.messages),
           Fresh(entity[r], maxSeq[r], stored)
    PROVE  /\ Sound(UpdatedRow(r))
           /\ Cardinality(stored.messages) <= Cardinality(UpdatedRow(r).messages)
<1> DEFINE all == stored.messages \cup NewMessages(r)
<1>1. /\ stored \in Session
      /\ entity[r] \in Session
      /\ stored.messages \in SUBSET Message
      /\ entity[r].messages \in SUBSET Message
  BY DEF Sound, Session
<1>2. /\ IsFiniteSet(all)
      /\ IsNumbered(all)
      /\ Cardinality(stored.messages) <= Cardinality(all)
  BY <1>1, MergeIsNumbered DEF NewMessages, Sound, Fresh
<1>3. all \in SUBSET Message
  BY <1>1 DEF NewMessages
<1>4. UpdatedRow(r).messages = all
  BY DEF UpdatedRow
<1> HIDE DEF all
<1>5. UpdatedRow(r) \in Session
  BY <1>1, <1>3, <1>4 DEF UpdatedRow, Column, Session
<1> QED
  BY <1>2, <1>4, <1>5 DEF Sound

-----------------------------------------------------------------------------
(* What the other requests see of a step of r. *)

\* The variables of other requests are untouched.
Frame(r) ==
    \A q \in Requests \ {r} :
        /\ pc'[q] = pc[q]
        /\ input'[q] = input[q]
        /\ entity'[q] = entity[q]
        /\ loaded'[q] = loaded[q]
        /\ maxSeq'[q] = maxSeq[q]

\* A step of r that commits nothing and neither takes nor releases the lock.
LEMMA LocalStep ==
    ASSUME StoreInv, NEW r \in Requests, TypeOK',
           UNCHANGED <<stored, lock>>,
           cache' = NULL \/ Sound(cache'.session),
           Frame(r), RequestInv(r)'
    PROVE  StoreInv'
<1>1. ASSUME NEW q \in Requests \ {r} PROVE RequestInv(q)'
  BY DEF StoreInv, Frame, RequestInv
<1> QED
  BY <1>1 DEF StoreInv

\* A step of r that takes or releases the lock, and may commit more messages.
LEMMA LockStep ==
    ASSUME StoreInv, NEW r \in Requests, TypeOK',
           cache' = NULL \/ Sound(cache'.session),
           lock \in {NULL, r}, lock' \in {NULL, r},
           \/ UNCHANGED stored
           \/ stored = NULL /\ Sound(stored')
           \/ /\ stored # NULL
              /\ Sound(stored')
              /\ Cardinality(stored.messages) <= Cardinality(stored'.messages),
           Frame(r), RequestInv(r)'
    PROVE  StoreInv'
<1>0. NULL \notin Requests /\ NULL \notin Session
  BY StoreAssumption
<1>1. stored' = NULL \/ Sound(stored')
  BY DEF StoreInv
<1>2. ASSUME NEW q \in Requests \ {r} PROVE RequestInv(q)'
  <2>1. RequestInv(q)
    BY DEF StoreInv
  <2>2. lock # q /\ lock' # q
    BY <1>0
  <2>3. ~Holds(pc[q])
    BY <2>1, <2>2 DEF RequestInv, Consistent
  <2>4. /\ pc'[q] = pc[q]
        /\ input'[q] = input[q]
        /\ entity'[q] = entity[q]
        /\ loaded'[q] = loaded[q]
        /\ maxSeq'[q] = maxSeq[q]
    BY DEF Frame
  <2>5. stored # NULL => stored' # NULL
    BY <1>0 DEF Sound
  <2>6. ASSUME pc[q] = "flush", input[q].op # "start"
        PROVE  maxSeq[q] < Cardinality(stored'.messages)
    <3>1. stored # NULL /\ maxSeq[q] < Cardinality(stored.messages)
      BY <2>1, <2>6 DEF RequestInv, Consistent
    <3>2. Cardinality(stored.messages) <= Cardinality(stored'.messages)
      <4>1. Cardinality(stored.messages) \in Nat
        BY <3>1, FS_CardinalityType DEF StoreInv, Sound
      <4> QED
        BY <3>1, <4>1
    <3>3. /\ maxSeq[q] \in Int
          /\ Cardinality(stored.messages) \in Int
          /\ Cardinality(stored'.messages) \in Int
      BY <1>1, <2>5, <3>1, FS_CardinalityType DEF StoreInv, TypeOK, Sound
    <3> QED
      BY <3>1, <3>2, <3>3
  <2>7. Consistent(q, pc[q], input[q].op, entity[q], loaded[q], maxSeq[q],
                   stored', lock')
    BY <2>1, <2>2, <2>3, <2>5, <2>6 DEF RequestInv, Consistent
  <2> QED
    BY <2>4, <2>7 DEF RequestInv
<1> QED
  BY <1>1, <1>2 DEF StoreInv

\* A request that is over has nothing to be consistent with, but the lock.
LEMMA Finished ==
    ASSUME TypeOK, NEW r \in Requests, NEW code, Finish(r, code), lock' # r
    PROVE  Frame(r) /\ RequestInv(r)'
<1>1. Frame(r)
  BY DEF Finish, Goto, Frame, TypeOK
<1>2. /\ pc'[r] = "done"
      /\ entity'[r] = NULL
      /\ loaded'[r] = NULL
  BY DEF Finish, Goto, TypeOK
<1>3. RequestInv(r)'
  BY <1>2 DEF RequestInv, Consistent, Holds
<1> QED
  BY <1>1, <1>3

\* ... and keeps the types.
LEMMA FinishTypes ==
    ASSUME TypeOK, NEW r \in Requests,
           NEW code \in ErrorCode \cup {"none", "ok"}, Finish(r, code)
    PROVE  /\ pc' \in [Requests -> Label]
           /\ input' \in [Requests -> Input]
           /\ entity' \in [Requests -> Session \cup {NULL}]
           /\ loaded' \in [Requests -> Session \cup {NULL}]
           /\ expected' \in [Requests -> Nat]
           /\ maxSeq' \in [Requests -> Nat \cup {-1}]
           /\ outcome' \in [Requests -> ErrorCode \cup {"none", "ok"}]
  BY DEF Finish, Goto, TypeOK, Label

\* A request that fails before the flush.
LEMMA FinishStep ==
    ASSUME StoreInv, NEW r \in Requests,
           NEW code \in ErrorCode \cup {"none", "ok"}, Finish(r, code),
           ~Holds(pc[r]), UNCHANGED <<now, stored, outbox, lock>>,
           cache' = cache \/ cache' = NULL
    PROVE  StoreInv'
<1>1. TypeOK
  BY DEF StoreInv
<1>2. lock # r
  BY DEF StoreInv, RequestInv, Consistent
<1>3. Frame(r) /\ RequestInv(r)'
  BY <1>1, <1>2, Finished
<1>4. TypeOK'
  BY <1>1, FinishTypes DEF TypeOK
<1>5. cache' = NULL \/ Sound(cache'.session)
  BY DEF StoreInv
<1> QED
  BY <1>3, <1>4, <1>5, LocalStep

-----------------------------------------------------------------------------
(* The cache operations. *)

LEMMA CacheSetTypes ==
    ASSUME StoreInv, NEW session, Sound(session), CacheSet(session)
    PROVE  /\ cache' \in CacheEntry \cup {NULL}
           /\ cache' = NULL \/ Sound(cache'.session)
<1>1. now + RedisTtl \in Nat
  BY StoreAssumption DEF StoreInv, TypeOK, Time
<1>2. CASE cache' = [session |-> session, until |-> now + RedisTtl]
  BY <1>1, <1>2 DEF CacheEntry, Sound
<1>3. CASE cache' = cache
  BY <1>3 DEF StoreInv, TypeOK
<1> QED
  BY <1>2, <1>3 DEF CacheSet

LEMMA CacheInvalidateTypes ==
    ASSUME StoreInv, CacheInvalidate
    PROVE  /\ cache' \in CacheEntry \cup {NULL}
           /\ cache' = cache \/ cache' = NULL
           /\ cache' = NULL \/ Sound(cache'.session)
  BY DEF CacheInvalidate, StoreInv, TypeOK

-----------------------------------------------------------------------------
(* One lemma per action. *)

LEMMA StartSessionStep ==
    ASSUME StoreInv, NEW r \in Requests, StartSession(r)
    PROVE  StoreInv'
<1> DEFINE e == AppendMessage(NewSession(now), "assistant", r, now)
<1>1. TypeOK /\ RequestInv(r) /\ now \in Time
  BY DEF StoreInv, TypeOK
<1>2. Sound(e)
  <2>1. "assistant" \in MessageRole
    BY DEF MessageRole
  <2> QED
    BY <1>1, <2>1, NewSessionIsSound, AppendMessageIsSound
<1> HIDE DEF e
<1>3. /\ pc[r] = "idle"
      /\ pc' = [pc EXCEPT ![r] = "flush"]
      /\ input' = [input EXCEPT ![r] = [NoInput EXCEPT !.op = "start"]]
      /\ entity' = [entity EXCEPT ![r] = e]
      /\ UNCHANGED <<now, stored, outbox, lock, cache, loaded, expected, maxSeq,
                     outcome>>
  BY DEF StartSession, Goto, database, e
<1>4. [NoInput EXCEPT !.op = "start"] \in Input
  BY DEF NoInput, Input, Operation
<1>5. /\ pc'[r] = "flush"
      /\ input'[r].op = "start"
      /\ entity'[r] = e
  BY <1>1, <1>3 DEF TypeOK, NoInput
<1>6. TypeOK'
  BY <1>1, <1>2, <1>3, <1>4 DEF TypeOK, Label, Sound
<1>7. Frame(r)
  BY <1>1, <1>3 DEF Frame, TypeOK
<1>8. RequestInv(r)'
  <2>1. e # NULL
    BY <1>2, StoreAssumption DEF Sound
  <2> QED
    BY <1>1, <1>2, <1>3, <1>5, <2>1 DEF RequestInv, Consistent, Holds
<1> QED
  BY <1>3, <1>6, <1>7, <1>8, LocalStep DEF StoreInv

LEMMA ReceiveStep ==
    ASSUME StoreInv, NEW r \in Requests,
           NEW op \in {"get", "message", "transition"}, NEW length \in Nat,
           NEW target \in SessionState \cup {"none"},
           Receive(r, op, length, target)
    PROVE  StoreInv'
<1>1. TypeOK /\ RequestInv(r)
  BY DEF StoreInv
<1>2. /\ pc[r] = "idle"
      /\ pc' = [pc EXCEPT ![r] = "getcache"]
      /\ input' = [input EXCEPT ![r] =
                      [op |-> op, length |-> length, target |-> target]]
      /\ UNCHANGED <<now, stored, outbox, lock, cache, entity, loaded, expected,
                     maxSeq, outcome>>
  BY DEF Receive, Goto, database
<1>3. [op |-> op, length |-> length, target |-> target] \in Input
  BY DEF Input, Operation
<1>4. pc'[r] = "getcache" /\ input'[r].op = op
  BY <1>1, <1>2 DEF TypeOK
<1>5. TypeOK'
  BY <1>1, <1>2, <1>3 DEF TypeOK, Label
<1>6. Frame(r)
  BY <1>1, <1>2 DEF Frame, TypeOK
<1>7. RequestInv(r)'
  BY <1>1, <1>2, <1>4 DEF RequestInv, Consistent, Holds
<1> QED
  BY <1>2, <1>5, <1>6, <1>7, LocalStep DEF StoreInv

LEMMA ArriveStep ==
    ASSUME StoreInv, NEW r \in Requests, Arrive(r)
    PROVE  StoreInv'
<1>1. CASE StartSession(r)
  BY <1>1, StartSessionStep
<1>2. CASE Receive(r, "get", 0, "none")
  BY <1>2, ReceiveStep
<1>3. ASSUME NEW length \in ContentLengths, Receive(r, "message", length, "none")
      PROVE  StoreInv'
  <2>1. length \in Nat
    BY StoreAssumption
  <2> QED
    BY <1>3, <2>1, ReceiveStep
<1>4. ASSUME NEW target \in Targets, Receive(r, "transition", 0, target)
      PROVE  StoreInv'
  <2>1. target \in SessionState
    BY StoreAssumption
  <2> QED
    BY <1>4, <2>1, ReceiveStep
<1> QED
  BY <1>1, <1>2, <1>3, <1>4 DEF Arrive

LEMMA CacheHitStep ==
    ASSUME StoreInv, NEW r \in Requests, CacheHit(r)
    PROVE  StoreInv'
<1>1. TypeOK /\ RequestInv(r)
  BY DEF StoreInv
<1>2. /\ pc[r] = "getcache"
      /\ cache # NULL
      /\ entity' = [entity EXCEPT ![r] = cache.session]
      /\ pc' = [pc EXCEPT ![r] = "handle"]
      /\ UNCHANGED <<now, stored, outbox, lock, cache, input, loaded, expected,
                     maxSeq, outcome>>
  BY DEF CacheHit, CacheIsLive, Goto, database
<1>3. Sound(cache.session) /\ cache.session # NULL
  BY <1>2, StoreAssumption DEF StoreInv, Sound
<1>4. pc'[r] = "handle" /\ entity'[r] = cache.session
  BY <1>1, <1>2 DEF TypeOK
<1>5. TypeOK'
  BY <1>1, <1>2, <1>3 DEF TypeOK, Label, Sound
<1>6. Frame(r)
  BY <1>1, <1>2 DEF Frame, TypeOK
<1>7. RequestInv(r)'
  BY <1>1, <1>2, <1>3, <1>4 DEF RequestInv, Consistent, Holds
<1> QED
  BY <1>2, <1>5, <1>6, <1>7, LocalStep DEF StoreInv

\* CacheMiss, CacheIsCorrupt and DiscardCorrupt only move the request on.
LEMMA CachePathStep ==
    ASSUME StoreInv, NEW r \in Requests,
           CacheMiss(r) \/ CacheIsCorrupt(r) \/ DiscardCorrupt(r)
    PROVE  StoreInv'
<1>1. TypeOK /\ RequestInv(r)
  BY DEF StoreInv
<1>2. PICK label \in {"selectrow", "discard"} :
          pc' = [pc EXCEPT ![r] = label]
  BY DEF CacheMiss, CacheIsCorrupt, DiscardCorrupt, Goto
<1>3. /\ pc[r] \in {"getcache", "discard"}
      /\ UNCHANGED <<now, stored, outbox, lock, input, entity, loaded, expected,
                     maxSeq, outcome>>
      /\ cache' = cache \/ CacheInvalidate
  BY DEF CacheMiss, CacheIsCorrupt, DiscardCorrupt, database, memory
<1>4. /\ cache' \in CacheEntry \cup {NULL}
      /\ cache' = NULL \/ Sound(cache'.session)
  BY <1>3, CacheInvalidateTypes DEF StoreInv, TypeOK
<1>5. pc'[r] = label
  BY <1>1, <1>2 DEF TypeOK
<1>6. TypeOK'
  BY <1>1, <1>2, <1>3, <1>4 DEF TypeOK, Label
<1>7. Frame(r)
  BY <1>1, <1>2, <1>3 DEF Frame, TypeOK
<1>8. RequestInv(r)'
  BY <1>1, <1>3, <1>5 DEF RequestInv, Consistent, Holds
<1> QED
  BY <1>3, <1>4, <1>6, <1>7, <1>8, LocalStep

LEMMA SelectRowStep ==
    ASSUME StoreInv, NEW r \in Requests, SelectRow(r)
    PROVE  StoreInv'
<1>1. TypeOK /\ RequestInv(r) /\ pc[r] = "selectrow"
  BY DEF StoreInv, SelectRow
<1>2. CASE stored = NULL
  <2>1. "SESSION_NOT_FOUND" \in ErrorCode
    BY DEF ErrorCode
  <2>2. /\ Finish(r, "SESSION_NOT_FOUND")
        /\ UNCHANGED <<now, stored, outbox, lock, cache>>
    BY <1>2 DEF SelectRow, database
  <2> QED
    BY <1>1, <2>1, <2>2, FinishStep DEF Holds
<1>3. CASE stored # NULL
  <2>1. /\ loaded' = [loaded EXCEPT ![r] = stored]
        /\ pc' = [pc EXCEPT ![r] = "selectmessages"]
        /\ UNCHANGED <<now, stored, outbox, lock, cache, input, entity, expected,
                       maxSeq, outcome>>
    BY <1>3 DEF SelectRow, Goto, database
  <2>2. loaded'[r] = stored /\ pc'[r] = "selectmessages"
    BY <1>1, <2>1 DEF TypeOK
  <2>3. TypeOK'
    BY <1>1, <2>1 DEF TypeOK, Label
  <2>4. Frame(r)
    BY <1>1, <2>1 DEF Frame, TypeOK
  <2>5. RequestInv(r)'
    BY <1>1, <1>3, <2>1, <2>2 DEF RequestInv, Consistent, Holds, StoreInv
  <2> QED
    BY <2>1, <2>3, <2>4, <2>5, LocalStep DEF StoreInv
<1> QED
  BY <1>2, <1>3

LEMMA SelectMessagesStep ==
    ASSUME StoreInv, NEW r \in Requests, SelectMessages(r)
    PROVE  StoreInv'
<1> DEFINE e == [loaded[r] EXCEPT !.messages = stored.messages]
<1>1. TypeOK /\ RequestInv(r) /\ pc[r] = "selectmessages"
  BY DEF StoreInv, SelectMessages
<1>2. Sound(loaded[r]) /\ Sound(stored)
  BY <1>1 DEF StoreInv, RequestInv, Consistent
<1>3. Sound(e)
  BY <1>2, RowWithMessagesIsSound
<1> HIDE DEF e
<1>4. /\ entity' = [entity EXCEPT ![r] = e]
      /\ pc' = [pc EXCEPT ![r] = "fill"]
      /\ UNCHANGED <<now, stored, outbox, lock, cache, input, loaded, expected,
                     maxSeq, outcome>>
  BY DEF SelectMessages, Goto, database, e
<1>5. entity'[r] = e /\ pc'[r] = "fill" /\ e # NULL
  BY <1>1, <1>3, <1>4, StoreAssumption DEF TypeOK, Sound
<1>6. TypeOK'
  BY <1>1, <1>3, <1>4 DEF TypeOK, Label, Sound
<1>7. Frame(r)
  BY <1>1, <1>4 DEF Frame, TypeOK
<1>8. RequestInv(r)'
  BY <1>1, <1>3, <1>4, <1>5 DEF RequestInv, Consistent, Holds
<1> QED
  BY <1>4, <1>6, <1>7, <1>8, LocalStep DEF StoreInv

LEMMA FillCacheStep ==
    ASSUME StoreInv, NEW r \in Requests, FillCache(r)
    PROVE  StoreInv'
<1>1. TypeOK /\ RequestInv(r) /\ pc[r] = "fill"
  BY DEF StoreInv, FillCache
<1>2. Sound(entity[r]) /\ entity[r] # NULL
  BY <1>1 DEF RequestInv, Consistent
<1>3. /\ CacheSet(entity[r])
      /\ pc' = [pc EXCEPT ![r] = "handle"]
      /\ UNCHANGED <<now, stored, outbox, lock, input, entity, loaded, expected,
                     maxSeq, outcome>>
  BY DEF FillCache, Goto, database, memory
<1>4. /\ cache' \in CacheEntry \cup {NULL}
      /\ cache' = NULL \/ Sound(cache'.session)
  BY <1>2, <1>3, CacheSetTypes
<1>5. pc'[r] = "handle"
  BY <1>1, <1>3 DEF TypeOK
<1>6. TypeOK'
  BY <1>1, <1>3, <1>4 DEF TypeOK, Label
<1>7. Frame(r)
  BY <1>1, <1>3 DEF Frame, TypeOK
<1>8. RequestInv(r)'
  BY <1>1, <1>2, <1>3, <1>5 DEF RequestInv, Consistent, Holds
<1> QED
  BY <1>3, <1>4, <1>6, <1>7, <1>8, LocalStep

LEMMA AnswerGetStep ==
    ASSUME StoreInv, NEW r \in Requests, AnswerGet(r)
    PROVE  StoreInv'
<1>1. /\ pc[r] = "handle"
      /\ UNCHANGED <<now, stored, outbox, lock, cache>>
  BY DEF AnswerGet, database
<1>2. PICK code \in {"ok", "INTERNAL_ERROR"} : Finish(r, code)
  BY DEF AnswerGet
<1>3. code \in ErrorCode \cup {"ok"}
  BY DEF ErrorCode
<1> QED
  BY <1>1, <1>2, <1>3, FinishStep DEF Holds

LEMMA MessageErrorType ==
    ASSUME NEW r
    PROVE  MessageError(r) \in ErrorCode \cup {"none"}
<1>1. \A s, t, length, rich : AppendError(s, t, length, rich) \in
          {"INVALID_SESSION_STATE", "SESSION_EXPIRED", "INVALID_MESSAGE", "none"}
  BY DEF AppendError
<1> QED
  BY <1>1 DEF MessageError, ErrorCode

\* A command of the service that succeeds: the new entity e goes to save().
LEMMA HandledStep ==
    ASSUME StoreInv, NEW r \in Requests, pc[r] = "handle",
           input[r].op \in {"message", "transition"}, NEW e, Sound(e),
           expected' = [expected EXCEPT ![r] = entity[r].revision],
           entity' = [entity EXCEPT ![r] = e],
           pc' = [pc EXCEPT ![r] = "check"],
           UNCHANGED <<now, stored, outbox, lock, cache, input, loaded, maxSeq,
                       outcome>>
    PROVE  StoreInv'
<1>1. TypeOK /\ RequestInv(r)
  BY DEF StoreInv
<1>2. entity[r].revision \in Nat
  BY <1>1 DEF RequestInv, Consistent, Sound, Session
<1>3. entity'[r] = e /\ pc'[r] = "check" /\ e # NULL
  BY <1>1, StoreAssumption DEF TypeOK, Sound
<1>4. TypeOK'
  BY <1>1, <1>2 DEF TypeOK, Label, Sound
<1>5. Frame(r)
  BY <1>1 DEF Frame, TypeOK
<1>6. RequestInv(r)'
  BY <1>1, <1>3 DEF RequestInv, Consistent, Holds
<1> QED
  BY <1>4, <1>5, <1>6, LocalStep DEF StoreInv

LEMMA HandleUserMessageStep ==
    ASSUME StoreInv, NEW r \in Requests, HandleUserMessage(r)
    PROVE  StoreInv'
<1>1. /\ TypeOK
      /\ RequestInv(r)
      /\ pc[r] = "handle"
      /\ input[r].op = "message"
      /\ UNCHANGED <<now, stored, outbox, lock, cache>>
  BY DEF StoreInv, HandleUserMessage, database
<1>2. CASE Finish(r, MessageError(r))
  BY <1>1, <1>2, FinishStep, MessageErrorType DEF Holds
<1>3. CASE ~Finish(r, MessageError(r))
  <2> DEFINE asked == AppendMessage(entity[r], "user", r, now)
             answered == AppendMessage(asked, "assistant", r, now)
  <2>1. Sound(entity[r])
    BY <1>1 DEF RequestInv, Consistent
  <2>2. now \in Time /\ "user" \in MessageRole /\ "assistant" \in MessageRole
    BY <1>1 DEF TypeOK, MessageRole
  <2>3. Sound(asked)
    BY <2>1, <2>2, AppendMessageIsSound
  <2> HIDE DEF asked
  <2>4. Sound(answered)
    BY <2>2, <2>3, AppendMessageIsSound
  <2>5. /\ expected' = [expected EXCEPT ![r] = entity[r].revision]
        /\ entity' = [entity EXCEPT ![r] = answered]
        /\ pc' = [pc EXCEPT ![r] = "check"]
        /\ UNCHANGED <<input, loaded, maxSeq, outcome>>
    BY <1>3 DEF HandleUserMessage, Goto, asked
  <2> HIDE DEF answered
  <2> QED
    BY <1>1, <2>4, <2>5, HandledStep
<1> QED
  BY <1>2, <1>3

LEMMA HandleTransitionStep ==
    ASSUME StoreInv, NEW r \in Requests, HandleTransition(r)
    PROVE  StoreInv'
<1>1. /\ TypeOK
      /\ RequestInv(r)
      /\ pc[r] = "handle"
      /\ input[r].op = "transition"
      /\ UNCHANGED <<now, stored, outbox, lock, cache>>
  BY DEF StoreInv, HandleTransition, database
<1> DEFINE target == input[r].target
<1>2. CASE ~CanTransition(entity[r], target)
  <2>1. Finish(r, "INVALID_SESSION_STATE")
    BY <1>2 DEF HandleTransition
  <2>2. "INVALID_SESSION_STATE" \in ErrorCode
    BY DEF ErrorCode
  <2> QED
    BY <1>1, <2>1, <2>2, FinishStep DEF Holds
<1>3. CASE CanTransition(entity[r], target)
  <2>1. Sound(entity[r]) /\ now \in Time
    BY <1>1 DEF RequestInv, Consistent, TypeOK
  <2>2. target \in SessionState
    <3>1. entity[r].state \in SessionState
      BY <2>1 DEF Sound, Session
    <3> QED
      BY <1>3, <3>1, TransitionsType DEF CanTransition
  <2>3. Sound(TransitionTo(entity[r], target, now))
    BY <2>1, <2>2, TransitionToIsSound
  <2>4. /\ expected' = [expected EXCEPT ![r] = entity[r].revision]
        /\ entity' = [entity EXCEPT ![r] = TransitionTo(entity[r], target, now)]
        /\ pc' = [pc EXCEPT ![r] = "check"]
        /\ UNCHANGED <<input, loaded, maxSeq, outcome>>
    BY <1>3 DEF HandleTransition, Goto
  <2> HIDE DEF target
  <2> QED
    BY <1>1, <2>3, <2>4, HandledStep
<1> QED
  BY <1>2, <1>3

LEMMA CheckRevisionStep ==
    ASSUME StoreInv, NEW r \in Requests, CheckRevision(r)
    PROVE  StoreInv'
<1>1. /\ TypeOK
      /\ RequestInv(r)
      /\ pc[r] = "check"
      /\ UNCHANGED <<now, stored, outbox, lock, cache>>
  BY DEF StoreInv, CheckRevision, database
<1>2. CASE stored = NULL
  <2>1. Finish(r, "STALE_REVISION")
    BY <1>2 DEF CheckRevision
  <2>2. "STALE_REVISION" \in ErrorCode
    BY DEF ErrorCode
  <2> QED
    BY <1>1, <2>1, <2>2, FinishStep DEF Holds
<1>3. CASE stored # NULL /\ stored.revision # expected[r]
  <2>1. /\ pc' = [pc EXCEPT ![r] = "invalidate"]
        /\ UNCHANGED <<input, entity, loaded, expected, maxSeq, outcome>>
    BY <1>3 DEF CheckRevision, Goto, memory
  <2>2. pc'[r] = "invalidate"
    BY <1>1, <2>1 DEF TypeOK
  <2>3. TypeOK'
    BY <1>1, <2>1 DEF TypeOK, Label
  <2>4. Frame(r)
    BY <1>1, <2>1 DEF Frame, TypeOK
  <2>5. RequestInv(r)'
    BY <1>1, <2>1, <2>2 DEF RequestInv, Consistent, Holds
  <2> QED
    BY <1>1, <2>3, <2>4, <2>5, LocalStep DEF StoreInv
<1>4. CASE stored # NULL /\ stored.revision = expected[r]
  <2>1. /\ loaded' = [loaded EXCEPT ![r] = stored]
        /\ pc' = [pc EXCEPT ![r] = "maxseq"]
        /\ UNCHANGED <<input, entity, expected, maxSeq, outcome>>
    BY <1>4 DEF CheckRevision, Goto
  <2>2. loaded'[r] = stored /\ pc'[r] = "maxseq"
    BY <1>1, <2>1 DEF TypeOK
  <2>3. TypeOK'
    BY <1>1, <2>1 DEF TypeOK, Label
  <2>4. Frame(r)
    BY <1>1, <2>1 DEF Frame, TypeOK
  <2>5. RequestInv(r)'
    BY <1>1, <1>4, <2>1, <2>2 DEF RequestInv, Consistent, Holds, StoreInv
  <2> QED
    BY <1>1, <2>3, <2>4, <2>5, LocalStep DEF StoreInv
<1> QED
  BY <1>2, <1>3, <1>4

LEMMA InvalidateStaleStep ==
    ASSUME StoreInv, NEW r \in Requests, InvalidateStale(r)
    PROVE  StoreInv'
<1>1. "STALE_REVISION" \in ErrorCode
  BY DEF ErrorCode
<1>2. /\ pc[r] = "invalidate"
      /\ Finish(r, "STALE_REVISION")
      /\ UNCHANGED <<now, stored, outbox, lock>>
      /\ cache' = cache \/ cache' = NULL
  BY CacheInvalidateTypes DEF InvalidateStale, database
<1> QED
  BY <1>1, <1>2, FinishStep DEF Holds

LEMMA SelectMaxSequenceStep ==
    ASSUME StoreInv, NEW r \in Requests, SelectMaxSequence(r)
    PROVE  StoreInv'
<1> DEFINE mx == MaxSequence(stored.messages)
<1>1. TypeOK /\ RequestInv(r) /\ pc[r] = "maxseq"
  BY DEF StoreInv, SelectMaxSequence
<1>2. input[r].op # "start" /\ Sound(stored)
  BY <1>1 DEF RequestInv, Consistent, StoreInv
<1>3. mx \in Nat \cup {-1} /\ mx < Cardinality(stored.messages)
  <2>1. stored.messages \in SUBSET Message
    BY <1>2 DEF Sound, Session
  <2> QED
    BY <1>2, <2>1, MaxSequenceIsBelow DEF Sound
<1> HIDE DEF mx
<1>4. /\ maxSeq' = [maxSeq EXCEPT ![r] = mx]
      /\ pc' = [pc EXCEPT ![r] = "flush"]
      /\ UNCHANGED <<now, stored, outbox, lock, cache, input, entity, loaded,
                     expected, outcome>>
  BY DEF SelectMaxSequence, Goto, database, mx
<1>5. maxSeq'[r] = mx /\ pc'[r] = "flush"
  BY <1>1, <1>4 DEF TypeOK
<1>6. TypeOK'
  BY <1>1, <1>3, <1>4 DEF TypeOK, Label
<1>7. Frame(r)
  BY <1>1, <1>4 DEF Frame, TypeOK
<1>8. RequestInv(r)'
  BY <1>1, <1>2, <1>3, <1>4, <1>5 DEF RequestInv, Consistent, Holds
<1> QED
  BY <1>4, <1>6, <1>7, <1>8, LocalStep DEF StoreInv

LEMMA FlushStep ==
    ASSUME StoreInv, NEW r \in Requests, Flush(r)
    PROVE  StoreInv'
<1>1. /\ TypeOK
      /\ RequestInv(r)
      /\ pc[r] = "flush"
      /\ lock = NULL
      /\ UNCHANGED <<now, stored, outbox, cache>>
  BY DEF StoreInv, Flush
<1>2. CASE Finish(r, "SESSION_ALREADY_EXISTS") /\ UNCHANGED lock
  <2>1. "SESSION_ALREADY_EXISTS" \in ErrorCode
    BY DEF ErrorCode
  <2> QED
    BY <1>1, <1>2, <2>1, FinishStep DEF Holds
<1>3. CASE Finish(r, "INTERNAL_ERROR") /\ UNCHANGED lock
  <2>1. "INTERNAL_ERROR" \in ErrorCode
    BY DEF ErrorCode
  <2> QED
    BY <1>1, <1>3, <2>1, FinishStep DEF Holds
<1>4. CASE /\ IF input[r].op = "start" THEN stored = NULL
              ELSE ~ViolatesUnique(NewMessages(r))
           /\ lock' = r
           /\ Goto(r, "writecache")
           /\ UNCHANGED <<memory, outcome>>
  <2>1. /\ pc' = [pc EXCEPT ![r] = "writecache"]
        /\ UNCHANGED <<input, entity, loaded, expected, maxSeq, outcome>>
    BY <1>4 DEF Goto, memory
  <2>2. pc'[r] = "writecache"
    BY <1>1, <2>1 DEF TypeOK
  <2>3. TypeOK'
    BY <1>1, <1>4, <2>1 DEF TypeOK, Label
  <2>4. Frame(r)
    BY <1>1, <2>1 DEF Frame, TypeOK
  <2>5. input[r].op # "start" => Fresh(entity[r], maxSeq[r], stored)
    BY <1>4 DEF ViolatesUnique, NewMessages, Fresh
  <2>6. RequestInv(r)'
    BY <1>1, <1>4, <2>1, <2>2, <2>5 DEF RequestInv, Consistent, Holds
  <2> QED
    BY <1>1, <1>4, <2>3, <2>4, <2>6, LockStep DEF StoreInv
<1> QED
  BY <1>2, <1>3, <1>4 DEF Flush

LEMMA WriteCacheStep ==
    ASSUME StoreInv, NEW r \in Requests, WriteCache(r)
    PROVE  StoreInv'
<1>1. TypeOK /\ RequestInv(r) /\ pc[r] = "writecache"
  BY DEF StoreInv, WriteCache
<1>2. Sound(entity[r])
  BY <1>1 DEF RequestInv, Consistent, Holds
<1>3. PICK label \in {"commit", "respond"} :
          /\ label = "respond" => ~CommitFirst
          /\ pc' = [pc EXCEPT ![r] = label]
  BY DEF WriteCache, Goto
<1>4. /\ CacheSet(entity[r])
      /\ UNCHANGED <<now, stored, outbox, lock, input, entity, loaded, expected,
                     maxSeq, outcome>>
  BY DEF WriteCache, database, memory
<1>5. /\ cache' \in CacheEntry \cup {NULL}
      /\ cache' = NULL \/ Sound(cache'.session)
  BY <1>2, <1>4, CacheSetTypes
<1>6. pc'[r] = label
  BY <1>1, <1>3 DEF TypeOK
<1>7. TypeOK'
  BY <1>1, <1>3, <1>4, <1>5 DEF TypeOK, Label
<1>8. Frame(r)
  BY <1>1, <1>3, <1>4 DEF Frame, TypeOK
<1>9. RequestInv(r)'
  BY <1>1, <1>3, <1>4, <1>6 DEF RequestInv, Consistent, Holds
<1> QED
  BY <1>4, <1>5, <1>7, <1>8, <1>9, LocalStep

\* The transaction of r becomes visible: a new row, or a row with no message less.
LEMMA ApplyTransactionEffect ==
    ASSUME StoreInv, NEW r \in Requests, Holds(pc[r]), ApplyTransaction(r)
    PROVE  /\ Sound(stored')
           /\ stored' \in Session
           /\ outbox' \in SUBSET Event
           /\ stored # NULL =>
                 Cardinality(stored.messages) <= Cardinality(stored'.messages)
<1>1. TypeOK /\ RequestInv(r)
  BY DEF StoreInv
<1>2. Sound(entity[r]) /\ input[r].op \in {"start", "message", "transition"}
  BY <1>1 DEF RequestInv, Consistent
<1>3. EventsOf(r) \subseteq Event
  <2>1. \A m \in entity[r].messages : m.sequence \in Nat
    BY <1>2 DEF Sound, Session, Message
  <2>2. CASE input[r].op = "start"
    BY <2>2 DEF EventsOf, Event
  <2>3. CASE input[r].op = "message"
    BY <2>1, <2>3 DEF EventsOf, Event
  <2>4. CASE input[r].op = "transition"
    BY <2>4 DEF EventsOf, Event
  <2> QED
    BY <1>2, <2>2, <2>3, <2>4
<1>4. outbox' \in SUBSET Event
  BY <1>1, <1>3 DEF ApplyTransaction, TypeOK
<1>5. CASE input[r].op = "start"
  <2>1. stored = NULL
    BY <1>1, <1>5 DEF RequestInv, Consistent
  <2>2. stored' = entity[r]
    BY <1>5 DEF ApplyTransaction
  <2> QED
    BY <1>2, <1>4, <2>1, <2>2 DEF Sound
<1>6. CASE input[r].op # "start"
  <2>1. /\ Sound(stored)
        /\ Sound(loaded[r])
        /\ maxSeq[r] < Cardinality(stored.messages)
        /\ Fresh(entity[r], maxSeq[r], stored)
    BY <1>1, <1>6 DEF RequestInv, Consistent, StoreInv
  <2>2. maxSeq[r] \in Nat \cup {-1}
    BY <1>1 DEF TypeOK
  <2>3. stored' = UpdatedRow(r)
    BY <1>6 DEF ApplyTransaction
  <2>4. /\ Sound(UpdatedRow(r))
        /\ Cardinality(stored.messages) <= Cardinality(UpdatedRow(r).messages)
    BY <1>2, <2>1, <2>2, UpdatedRowIsSound
  <2> QED
    BY <1>4, <2>3, <2>4 DEF Sound
<1> QED
  BY <1>5, <1>6

\* A transaction that ends with the request.
LEMMA EndOfTransaction ==
    ASSUME StoreInv, NEW r \in Requests, Holds(pc[r]),
           ApplyTransaction(r) \/ UNCHANGED <<stored, outbox>>,
           lock' = NULL,
           NEW code \in ErrorCode \cup {"none", "ok"}, Finish(r, code),
           UNCHANGED <<now, cache>>
    PROVE  StoreInv'
<1>1. TypeOK /\ RequestInv(r) /\ lock = r
  BY DEF StoreInv, RequestInv, Consistent
<1>2. lock' # r
  BY StoreAssumption
<1>3. Frame(r) /\ RequestInv(r)'
  BY <1>1, <1>2, Finished
<1>4. stored' \in Session \cup {NULL} /\ outbox' \in SUBSET Event
  BY <1>1, ApplyTransactionEffect DEF TypeOK
<1>5. TypeOK'
  BY <1>1, <1>4, FinishTypes DEF TypeOK
<1>6. \/ UNCHANGED stored
      \/ stored = NULL /\ Sound(stored')
      \/ /\ stored # NULL
         /\ Sound(stored')
         /\ Cardinality(stored.messages) <= Cardinality(stored'.messages)
  BY ApplyTransactionEffect
<1>7. cache' = NULL \/ Sound(cache'.session)
  BY DEF StoreInv
<1> QED
  BY <1>1, <1>3, <1>5, <1>6, <1>7, LockStep

LEMMA CommitStep ==
    ASSUME StoreInv, NEW r \in Requests, Commit(r)
    PROVE  StoreInv'
<1>1. /\ TypeOK
      /\ RequestInv(r)
      /\ Holds(pc[r])
      /\ ApplyTransaction(r)
      /\ lock' = NULL
      /\ UNCHANGED <<now, cache>>
  BY DEF StoreInv, Commit, Holds
<1>2. CASE ~CommitFirst
  <2>1. Finish(r, "ok")
    BY <1>2 DEF Commit
  <2> QED
    BY <1>1, <2>1, EndOfTransaction
<1>3. CASE CommitFirst
  <2>1. /\ pc' = [pc EXCEPT ![r] = "respond"]
        /\ UNCHANGED <<input, entity, loaded, expected, maxSeq, outcome>>
    BY <1>3 DEF Commit, Goto, memory
  <2>2. pc'[r] = "respond"
    BY <1>1, <2>1 DEF TypeOK
  <2>3. /\ Sound(stored')
        /\ stored' \in Session
        /\ outbox' \in SUBSET Event
        /\ stored # NULL =>
              Cardinality(stored.messages) <= Cardinality(stored'.messages)
    BY <1>1, ApplyTransactionEffect
  <2>4. TypeOK'
    BY <1>1, <2>1, <2>3 DEF TypeOK, Label
  <2>5. Frame(r)
    BY <1>1, <2>1 DEF Frame, TypeOK
  <2>6. lock = r /\ lock' # r
    BY <1>1, StoreAssumption DEF RequestInv, Consistent
  <2>7. RequestInv(r)'
    BY <1>1, <1>3, <2>1, <2>2, <2>6 DEF RequestInv, Consistent, Holds
  <2>8. cache' = NULL \/ Sound(cache'.session)
    BY <1>1 DEF StoreInv
  <2> QED
    BY <1>1, <2>3, <2>4, <2>5, <2>6, <2>7, <2>8, LockStep
<1> QED
  BY <1>2, <1>3

LEMMA CommitFailsStep ==
    ASSUME StoreInv, NEW r \in Requests, CommitFails(r)
    PROVE  StoreInv'
<1>1. "INTERNAL_ERROR" \in ErrorCode
  BY DEF ErrorCode
<1>2. /\ Holds(pc[r])
      /\ ApplyTransaction(r) \/ UNCHANGED <<stored, outbox>>
      /\ lock' = NULL
      /\ Finish(r, "INTERNAL_ERROR")
      /\ UNCHANGED <<now, cache>>
  BY DEF CommitFails, Holds
<1> QED
  BY <1>1, <1>2, EndOfTransaction

LEMMA RespondStep ==
    ASSUME StoreInv, NEW r \in Requests, Respond(r)
    PROVE  StoreInv'
<1>1. /\ TypeOK
      /\ RequestInv(r)
      /\ pc[r] = "respond"
      /\ UNCHANGED <<now, stored, outbox, lock, cache>>
  BY DEF StoreInv, Respond, database
<1>2. CASE CommitFirst
  <2>1. Finish(r, "ok") /\ ~Holds(pc[r])
    BY <1>1, <1>2 DEF Respond, Holds
  <2> QED
    BY <1>1, <2>1, FinishStep
<1>3. CASE ~CommitFirst
  <2>1. /\ pc' = [pc EXCEPT ![r] = "commit"]
        /\ outcome' = [outcome EXCEPT ![r] = "ok"]
        /\ UNCHANGED <<input, entity, loaded, expected, maxSeq>>
    BY <1>3 DEF Respond, Goto, memory
  <2>2. pc'[r] = "commit"
    BY <1>1, <2>1 DEF TypeOK
  <2>3. TypeOK'
    BY <1>1, <2>1 DEF TypeOK, Label
  <2>4. Frame(r)
    BY <1>1, <2>1 DEF Frame, TypeOK
  <2>5. RequestInv(r)'
    BY <1>1, <1>3, <2>1, <2>2 DEF RequestInv, Consistent, Holds
  <2> QED
    BY <1>1, <2>3, <2>4, <2>5, LocalStep DEF StoreInv
<1> QED
  BY <1>2, <1>3

\* A Redis or SQL command or a conversion that raises before the flush.
LEMMA FailureStep ==
    ASSUME StoreInv, NEW r \in Requests,
           CacheGetFails(r) \/ DeserializeFails(r) \/ QueryFails(r)
    PROVE  StoreInv'
<1>1. {"INTERNAL_ERROR", "INVALID_MESSAGE"} \subseteq ErrorCode
  BY DEF ErrorCode
<1>2. /\ ~Holds(pc[r])
      /\ \E code \in {"INTERNAL_ERROR", "INVALID_MESSAGE"} : Finish(r, code)
      /\ UNCHANGED <<now, stored, outbox, lock, cache>>
  BY DEF CacheGetFails, DeserializeFails, QueryFails, Holds, database
<1> QED
  BY <1>1, <1>2, FinishStep

LEMMA CrashStep ==
    ASSUME StoreInv, Crash
    PROVE  StoreInv'
<1>1. TypeOK
  BY DEF StoreInv
<1>2. /\ pc' = [r \in Requests |-> IF InFlight(r) THEN "done" ELSE pc[r]]
      /\ outcome' = [r \in Requests |->
                        IF r \in Unanswered THEN "DISCONNECTED" ELSE outcome[r]]
      /\ entity' = [r \in Requests |-> NULL]
      /\ loaded' = [r \in Requests |-> NULL]
      /\ lock' = NULL
      /\ UNCHANGED <<now, stored, outbox, cache, input, expected, maxSeq>>
  BY DEF Crash
<1>3. TypeOK'
  BY <1>1, <1>2 DEF TypeOK, Label, ErrorCode
<1>4. ASSUME NEW r \in Requests PROVE RequestInv(r)'
  <2>1. pc'[r] \in {"idle", "done"} /\ entity'[r] = NULL /\ loaded'[r] = NULL
    BY <1>2 DEF InFlight
  <2>2. lock' # r
    BY <1>2, StoreAssumption
  <2> QED
    BY <2>1, <2>2 DEF RequestInv, Consistent, Holds
<1> QED
  BY <1>2, <1>3, <1>4 DEF StoreInv

\* Lost cache entries, the clock, and the end of a run.
LEMMA EnvironmentStep ==
    ASSUME StoreInv, LoseCacheEntry \/ Tick \/ UNCHANGED vars
    PROVE  StoreInv'
<1>1. TypeOK
  BY DEF StoreInv
<1>2. /\ UNCHANGED <<stored, outbox, lock, pc, input, entity, loaded, expected,
                     maxSeq, outcome>>
      /\ cache' = cache \/ cache' = NULL
      /\ now' = now \/ now' = now + 1
  BY DEF LoseCacheEntry, Tick, vars, database, memory
<1>3. TypeOK'
  BY <1>1, <1>2 DEF TypeOK, Time
<1>4. ASSUME NEW r \in Requests PROVE RequestInv(r)'
  BY <1>2 DEF StoreInv, RequestInv
<1> QED
  BY <1>2, <1>3, <1>4 DEF StoreInv

-----------------------------------------------------------------------------
(* The theorems. *)

LEMMA InitStore == Init => StoreInv
<1> SUFFICES ASSUME Init PROVE StoreInv
  OBVIOUS
<1>1. TypeOK
  BY DEF Init, TypeOK, Time, Label, Input, NoInput
<1>2. ASSUME NEW r \in Requests PROVE RequestInv(r)
  BY StoreAssumption DEF Init, RequestInv, Consistent, Holds
<1> QED
  BY <1>1, <1>2 DEF Init, StoreInv

LEMMA NextStore == StoreInv /\ [Next]_vars => StoreInv'
<1> SUFFICES ASSUME StoreInv, [Next]_vars PROVE StoreInv'
  OBVIOUS
<1>1. ASSUME NEW r \in Requests, Arrive(r) PROVE StoreInv'
  BY <1>1, ArriveStep
<1>2. ASSUME NEW r \in Requests, Serve(r) PROVE StoreInv'
  BY <1>2, CacheHitStep, CachePathStep, SelectRowStep, SelectMessagesStep,
     FillCacheStep, AnswerGetStep, HandleUserMessageStep, HandleTransitionStep,
     CheckRevisionStep, InvalidateStaleStep, SelectMaxSequenceStep, FlushStep,
     WriteCacheStep, CommitStep, RespondStep DEF Serve
<1>3. ASSUME NEW r \in Requests, Disturb(r) PROVE StoreInv'
  BY <1>3, FailureStep, CachePathStep, CommitFailsStep DEF Disturb
<1>4. CASE Crash
  BY <1>4, CrashStep
<1>5. CASE LoseCacheEntry \/ Tick \/ AllServed \/ UNCHANGED vars
  BY <1>5, EnvironmentStep DEF AllServed
<1> QED
  BY <1>1, <1>2, <1>3, <1>4, <1>5 DEF Next

LEMMA AlwaysStore == Spec => []StoreInv
  BY InitStore, NextStore, PTL DEF Spec

\* The variables of the store keep their types.
THEOREM StoreTypeCorrect == Spec => []TypeOK
<1>1. StoreInv => TypeOK
  BY DEF StoreInv
<1> QED
  BY <1>1, AlwaysStore, PTL

\* The committed messages are numbered 0, 1, 2, ..., whatever requests run
\* concurrently, whatever copies they start from and whatever fails.
THEOREM ConversationStaysNumbered == Spec => []MessagesNumbered
<1>1. StoreInv => MessagesNumbered
  BY DEF StoreInv, MessagesNumbered, Sound
<1> QED
  BY <1>1, AlwaysStore, PTL
=============================================================================
