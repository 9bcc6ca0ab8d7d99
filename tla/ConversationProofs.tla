------------------------- MODULE ConversationProofs --------------------------
(***************************************************************************)
(* Who wrote what: turns are stored whole, and a refused request leaves no *)
(* message and no event behind, for any requests and any failures.         *)
(*                                                                         *)
(* Both follow messages as they are copied between the database, the cache *)
(* and the objects of the requests.  Copies keep a reply next to its       *)
(* message; so does a save, because what it leaves out is numbered below   *)
(* what it keeps.  And the messages of a request stay in its own entity    *)
(* until it has flushed, after which no code path refuses it.              *)
(***************************************************************************)
EXTENDS SessionStoreProofs

Messages(s) == IF s = NULL THEN {} ELSE s.messages
Cached == IF cache = NULL THEN {} ELSE cache.session.messages

Everywhere ==
    Messages(stored) \cup Cached \cup
        UNION {Messages(entity[q]) \cup Messages(loaded[q]) : q \in Requests}

\* Client and assistant take turns: the odd numbers are the client's, and a message
\* has its counterpart next to it.
Paired(messages) ==
    \A m \in messages :
        IF m.role = "user"
        THEN /\ m.sequence % 2 = 1
             /\ [sequence |-> m.sequence + 1, role |-> "assistant", by |-> m.by]
                    \in messages
        ELSE /\ m.sequence % 2 = 0
             /\ m.sequence > 0 =>
                    [sequence |-> m.sequence - 1, role |-> "user", by |-> m.by]
                        \in messages

\* A request has written at most one message of each role.
Once(messages) ==
    \A m, n \in messages : m.by = n.by /\ m.role = n.role => m = n

\* Where the entity of a request may have messages of its own ...
Drafting == {"check", "invalidate", "maxseq", "flush"}

\* ... and where the request has flushed nothing yet.
Early == {"idle", "getcache", "discard", "selectrow", "selectmessages", "fill",
          "handle"} \cup Drafting

Traceless(v) == pc[v] \in Early \/ Refused(v)

NoTrace(v) ==
    /\ \A e \in outbox : e.by # v
    /\ \A m \in Messages(stored) \cup Cached : m.by # v
    /\ \A q \in Requests :
           /\ \A m \in Messages(loaded[q]) : m.by # v
           /\ q # v \/ pc[v] \notin Drafting =>
                  \A m \in Messages(entity[q]) : m.by # v

AllPaired ==
    /\ Paired(Messages(stored)) /\ Paired(Cached)
    /\ \A q \in Requests : Paired(Messages(entity[q])) /\ Paired(Messages(loaded[q]))

\* Every session that exists has been greeted.
AllGreeted ==
    /\ stored # NULL => Messages(stored) # {}
    /\ cache # NULL => Cached # {}
    /\ \A q \in Requests :
           /\ entity[q] # NULL => Messages(entity[q]) # {}
           /\ loaded[q] # NULL => Messages(loaded[q]) # {}

\* The inductive invariant, next to StoreInv.
ConversationInv ==
    /\ AllPaired
    /\ AllGreeted
    /\ Once(Everywhere)
    /\ \A v \in Requests :
           /\ pc[v] \in Early => outcome[v] = "none"
           /\ Refused(v) => pc[v] = "done"
           /\ Traceless(v) => NoTrace(v)

-----------------------------------------------------------------------------
(* What a step of r does to the copies. *)

\* The other requests keep what they have.
OthersWait(r) ==
    \A q \in Requests \ {r} :
        /\ pc'[q] = pc[q]
        /\ entity'[q] = entity[q]
        /\ loaded'[q] = loaded[q]
        /\ outcome'[q] = outcome[q]

\* How far r is afterwards, and with which answer.
Progress(r) ==
    /\ pc'[r] \in Early => pc[r] \in Early /\ outcome'[r] = outcome[r]
    /\ Refused(r)' => pc'[r] = "done" /\ pc[r] \in Early
    /\ pc[r] \in Drafting /\ pc'[r] \in Early \cup {"done"}
           => pc'[r] \in Drafting \/ entity'[r] = NULL

\* The entity of r with r's own messages added.
IsDraft(r, messages) ==
    /\ Paired(messages)
    /\ \A m \in messages : m \in Messages(entity[r]) \/ m.by = r
    /\ Once({m \in messages : m.by = r})

\* The entity of r is a copy of what was there, or a draft.
EntityFrom(r) ==
    \/ Messages(entity'[r]) \in {{}, Messages(entity[r]), Cached, Messages(stored)}
    \/ /\ pc[r] \notin Drafting /\ pc'[r] \in Drafting
       /\ IsDraft(r, Messages(entity'[r]))

\* A step that commits nothing.
Copies(r) ==
    /\ OthersWait(r)
    /\ Progress(r)
    /\ UNCHANGED <<stored, outbox>>
    /\ Messages(loaded'[r]) \in {{}, Messages(loaded[r]), Messages(stored)}
    /\ EntityFrom(r)
    /\ \/ Cached' \in {{}, Cached}
       \/ pc[r] \notin Drafting /\ Cached' = Messages(entity[r])
    /\ entity'[r] # NULL => Messages(entity'[r]) # {}
    /\ loaded'[r] # NULL => Messages(loaded'[r]) # {}
    /\ cache' # NULL => Cached' # {}

\* A step that commits nothing makes no message but in the entity of its request.
LEMMA CopiesComeFrom ==
    ASSUME NEW r \in Requests, Copies(r)
    PROVE  \A m \in Everywhere' :
               m \in Everywhere \/ (m \in Messages(entity'[r]) /\ m.by = r)
<1>1. /\ Messages(stored') \subseteq Everywhere
      /\ Messages(loaded'[r]) \subseteq Everywhere
      /\ Cached' \subseteq Everywhere
      /\ \A q \in Requests \ {r} :
             Messages(entity'[q]) \cup Messages(loaded'[q]) \subseteq Everywhere
  BY DEF Copies, OthersWait, Everywhere
<1>2. \A m \in Messages(entity'[r]) : m \in Everywhere \/ m.by = r
  BY DEF Copies, EntityFrom, IsDraft, Everywhere
<1> QED
  BY <1>1, <1>2 DEF Everywhere

\* It writes no message twice: who drafts has no message yet.
LEMMA CopiesAreOnce ==
    ASSUME ConversationInv, NEW r \in Requests, Copies(r)
    PROVE  Once(Everywhere')
<1>1. Once(Everywhere)
  BY DEF ConversationInv
<1>2. CASE Messages(entity'[r]) \in {{}, Messages(entity[r]), Cached, Messages(stored)}
  <2>1. Messages(entity'[r]) \subseteq Everywhere
    BY <1>2 DEF Everywhere
  <2>2. Everywhere' \subseteq Everywhere
    BY <2>1, CopiesComeFrom
  <2> QED
    BY <1>1, <2>2 DEF Once
<1>3. CASE /\ pc[r] \notin Drafting /\ pc'[r] \in Drafting
           /\ IsDraft(r, Messages(entity'[r]))
  <2>1. pc[r] \in Early
    BY <1>3 DEF Copies, Progress, Early
  <2>2. NoTrace(r)
    BY <2>1 DEF ConversationInv, Traceless
  <2>3. \A m \in Everywhere : m.by # r
    BY <1>3, <2>2 DEF NoTrace, Everywhere
  <2>4. \A m, n \in Messages(entity'[r]) :
            m.by = r /\ n.by = r /\ m.role = n.role => m = n
    BY <1>3 DEF IsDraft, Once
  <2> QED
    BY <1>1, <2>3, <2>4, CopiesComeFrom DEF Once
<1> QED
  BY <1>2, <1>3 DEF Copies, EntityFrom

LEMMA CopiesKeep ==
    ASSUME ConversationInv, NEW r \in Requests, Copies(r)
    PROVE  ConversationInv'
<1>1. Paired({})
  BY DEF Paired
<1>2. AllPaired'
  BY <1>1 DEF ConversationInv, AllPaired, Copies, OthersWait, EntityFrom, IsDraft
<1>5. AllGreeted'
  BY DEF ConversationInv, AllGreeted, Copies, OthersWait
<1>6. Once(Everywhere')
  BY CopiesAreOnce
<1>3. ASSUME NEW v \in Requests \ {r}
      PROVE  /\ (pc[v] \in Early => outcome[v] = "none")'
             /\ (Refused(v) => pc[v] = "done")'
             /\ (Traceless(v) => NoTrace(v))'
  <2>1. /\ pc'[v] = pc[v]
        /\ outcome'[v] = outcome[v]
        /\ Refused(v)' <=> Refused(v)
    BY DEF Copies, OthersWait, Refused
  <2>2. ASSUME Traceless(v)' PROVE NoTrace(v)'
    <3>1. NoTrace(v)
      BY <2>1, <2>2 DEF ConversationInv, Traceless
    <3>2. \A m \in Messages(entity'[r]) : m.by # v
      BY <3>1 DEF Copies, EntityFrom, IsDraft, NoTrace
    <3>3. \A m \in Messages(loaded'[r]) : m.by # v
      BY <3>1 DEF Copies, NoTrace
    <3>4. \A m \in Cached' : m.by # v
      BY <3>1 DEF Copies, NoTrace
    <3> QED
      BY <2>1, <3>1, <3>2, <3>3, <3>4 DEF Copies, OthersWait, NoTrace
  <2> QED
    BY <2>1, <2>2 DEF ConversationInv
<1>4. /\ (pc[r] \in Early => outcome[r] = "none")'
      /\ (Refused(r) => pc[r] = "done")'
      /\ (Traceless(r) => NoTrace(r))'
  <2>1. ASSUME Traceless(r)' PROVE NoTrace(r)'
    <3>1. pc[r] \in Early /\ NoTrace(r)
      BY <2>1 DEF ConversationInv, Traceless, Copies, Progress
    <3>2. pc'[r] \in Early \cup {"done"}
      BY <2>1 DEF Traceless, Copies, Progress
    <3>3. \A m \in Messages(loaded'[r]) : m.by # r
      BY <3>1 DEF Copies, NoTrace
    <3>4. \A m \in Cached' : m.by # r
      BY <3>1 DEF Copies, NoTrace
    <3>5. ASSUME pc'[r] \notin Drafting
          PROVE  \A m \in Messages(entity'[r]) : m.by # r
      <4>1. CASE pc[r] \in Drafting
        <5>1. entity'[r] = NULL
          BY <3>2, <3>5, <4>1 DEF Copies, Progress
        <5> QED
          BY <5>1 DEF Messages
      <4>2. CASE pc[r] \notin Drafting
        BY <3>1, <3>5, <4>2 DEF Copies, EntityFrom, NoTrace
      <4> QED
        BY <4>1, <4>2
    <3>6. ASSUME NEW q \in Requests \ {r}
          PROVE  /\ \A m \in Messages(loaded'[q]) : m.by # r
                 /\ \A m \in Messages(entity'[q]) : m.by # r
      BY <3>1 DEF Copies, OthersWait, NoTrace
    <3> QED
      BY <3>1, <3>3, <3>4, <3>5, <3>6 DEF Copies, NoTrace
  <2> QED
    BY <2>1 DEF ConversationInv, Copies, Progress
<1> QED
  BY <1>2, <1>3, <1>4, <1>5, <1>6 DEF ConversationInv

-----------------------------------------------------------------------------
(* One lemma per group of actions: they copy. *)

\* The end of a request, by an answer of 400 to 499 only before the flush.
LEMMA FinishCopies ==
    ASSUME StoreInv, ConversationInv, NEW r \in Requests, NEW code,
           Finish(r, code), UNCHANGED <<stored, outbox>>,
           pc[r] # "done",
           pc[r] \in Early \/ HttpStatus(code) \notin 400 .. 499,
           cache' \in {cache, NULL}
    PROVE  Copies(r)
<1>1. TypeOK
  BY DEF StoreInv
<1>2. /\ pc' = [pc EXCEPT ![r] = "done"]
      /\ outcome' = [outcome EXCEPT ![r] = IF @ = "none" THEN code ELSE @]
      /\ entity' = [entity EXCEPT ![r] = NULL]
      /\ loaded' = [loaded EXCEPT ![r] = NULL]
  BY DEF Finish, Goto
<1>3. /\ pc'[r] = "done" /\ entity'[r] = NULL /\ loaded'[r] = NULL
      /\ outcome'[r] = IF outcome[r] = "none" THEN code ELSE outcome[r]
  BY <1>1, <1>2 DEF TypeOK
<1>4. OthersWait(r)
  BY <1>1, <1>2 DEF OthersWait, TypeOK
<1>5. Progress(r)
  <2>1. "done" \notin Early
    BY DEF Early, Drafting
  <2>2. ASSUME Refused(r)' PROVE pc[r] \in Early
    <3>1. CASE outcome[r] = "none"
      BY <1>3, <2>2, <3>1 DEF Refused
    <3>2. CASE outcome[r] # "none"
      <4>1. Refused(r)
        BY <1>3, <2>2, <3>2 DEF Refused
      <4> QED
        BY <4>1 DEF ConversationInv
    <3> QED
      BY <3>1, <3>2
  <2> QED
    BY <1>3, <2>1, <2>2 DEF Progress
<1>6. Cached' \in {{}, Cached} /\ (cache' # NULL => Cached' # {})
  BY DEF Cached, ConversationInv, AllGreeted
<1> QED
  BY <1>3, <1>4, <1>5, <1>6 DEF Copies, EntityFrom, Messages

\* A step to another label, with the entity and the row given.
LEMMA MoveCopies ==
    ASSUME StoreInv, ConversationInv, NEW r \in Requests,
           NEW label \in Early, pc[r] \in Early,
           pc[r] \in Drafting => label \in Drafting,
           pc' = [pc EXCEPT ![r] = label],
           NEW e, entity' = [entity EXCEPT ![r] = e],
           NEW l, loaded' = [loaded EXCEPT ![r] = l],
           UNCHANGED <<stored, outbox, outcome>>,
           Messages(l) \in {{}, Messages(loaded[r]), Messages(stored)},
           \/ Messages(e) \in {{}, Messages(entity[r]), Cached, Messages(stored)}
           \/ /\ pc[r] \notin Drafting /\ label \in Drafting
              /\ IsDraft(r, Messages(e)),
           \/ Cached' \in {{}, Cached}
           \/ pc[r] \notin Drafting /\ Cached' = Messages(entity[r]),
           e \in {NULL, entity[r]} \/ Messages(e) # {},
           l \in {NULL, loaded[r]} \/ Messages(l) # {},
           cache' \in {NULL, cache} \/ (cache' # NULL => Cached' # {})
    PROVE  Copies(r)
<1>1. TypeOK
  BY DEF StoreInv
<1>2. pc'[r] = label /\ entity'[r] = e /\ loaded'[r] = l
  BY <1>1 DEF TypeOK
<1>3. OthersWait(r)
  BY <1>1 DEF OthersWait, TypeOK
<1>4. Progress(r)
  <2>1. ~Refused(r)'
    <3>1. outcome'[r] = "none"
      BY DEF ConversationInv
    <3> QED
      BY <3>1 DEF Refused, HttpStatus
  <2> QED
    BY <1>2, <2>1 DEF Progress
<1>5. EntityFrom(r)
  BY <1>2 DEF EntityFrom
<1>6. /\ entity'[r] # NULL => Messages(entity'[r]) # {}
      /\ loaded'[r] # NULL => Messages(loaded'[r]) # {}
      /\ cache' # NULL => Cached' # {}
  BY <1>2 DEF ConversationInv, AllGreeted, Cached
<1> QED
  BY <1>2, <1>3, <1>4, <1>5, <1>6 DEF Copies

\* A conversation ends with a message of the assistant, of an even number.
LEMMA ClientIsNext ==
    ASSUME NEW M \in SUBSET Message, IsFiniteSet(M), IsNumbered(M), M # {},
           Paired(M)
    PROVE  /\ Cardinality(M) \in Nat \ {0}
           /\ Cardinality(M) % 2 = 1
           /\ \A m \in M : m.sequence < Cardinality(M)
<1>1. PICK n : n = Cardinality(M)
  OBVIOUS
<1>2. n \in Nat /\ n # 0
  BY <1>1, FS_CardinalityType, FS_EmptySet
<1>3. {m.sequence : m \in M} = 0 .. n - 1
  BY <1>1 DEF IsNumbered
<1>4. \A m \in M : m.sequence \in 0 .. n - 1
  BY <1>3
<1>5. PICK m \in M : m.sequence = n - 1
  <2>1. n - 1 \in 0 .. n - 1
    BY <1>2
  <2> QED
    BY <1>3, <2>1
<1>6. m.role # "user"
  <2>1. ASSUME m.role = "user" PROVE FALSE
    <3>1. PICK reply \in M : reply.sequence = m.sequence + 1
      BY <2>1 DEF Paired
    <3>2. n \in 0 .. n - 1
      BY <1>2, <1>4, <1>5, <3>1
    <3> QED
      BY <1>2, <3>2
  <2> QED
    BY <2>1
<1>7. (n - 1) % 2 = 0
  BY <1>5, <1>6 DEF Paired
<1>8. n % 2 = 1
  BY <1>2, <1>7
<1> QED
  BY <1>1, <1>2, <1>4, <1>8

\* A turn: the messages added are r's own, one of each role, and face each other.
LEMMA TurnIsPaired ==
    ASSUME NEW s, Sound(s), Paired(s.messages), s.messages # {}, NEW now0 \in Time,
           NEW r \in Requests, \A m \in s.messages : m.by # r
    PROVE  LET asked == AppendMessage(s, "user", r, now0)
               answered == AppendMessage(asked, "assistant", r, now0)
           IN  /\ Paired(answered.messages)
               /\ \A m \in answered.messages : m \in s.messages \/ m.by = r
               /\ Once({m \in answered.messages : m.by = r})
               /\ answered.messages # {}
<1>1. "user" \in MessageRole /\ "assistant" \in MessageRole
  BY DEF MessageRole
<1>2. PICK asked : asked = AppendMessage(s, "user", r, now0)
  OBVIOUS
<1>3. PICK answered : answered = AppendMessage(asked, "assistant", r, now0)
  OBVIOUS
<1> DEFINE n == Cardinality(s.messages)
<1>4. Sound(asked)
  BY <1>1, <1>2, AppendMessageIsSound
<1>5. answered.messages = asked.messages \cup
        {[sequence |-> Cardinality(asked.messages), role |-> "assistant", by |-> r]}
  BY <1>1, <1>3, <1>4, AppendMessageIsSound
<1>6. /\ asked.messages =
           s.messages \cup {[sequence |-> n, role |-> "user", by |-> r]}
      /\ Cardinality(asked.messages) = n + 1
  BY <1>1, <1>2, AppendMessageIsSound
<1>7. n \in Nat \ {0} /\ n % 2 = 1
  <2>1. s.messages \in SUBSET Message
    BY DEF Sound, Session
  <2> QED
    BY <2>1, ClientIsNext DEF Sound
<1> HIDE DEF n
<1>8. PICK question : question = [sequence |-> n, role |-> "user", by |-> r]
  OBVIOUS
<1>9. PICK reply : reply = [sequence |-> n + 1, role |-> "assistant", by |-> r]
  OBVIOUS
<1>10. answered.messages = s.messages \cup {question, reply}
  BY <1>5, <1>6, <1>8, <1>9
<1>11. /\ question.sequence % 2 = 1 /\ question.role = "user"
       /\ reply.sequence % 2 = 0 /\ reply.role # "user"
       /\ [sequence |-> question.sequence + 1, role |-> "assistant",
           by |-> question.by] = reply
       /\ [sequence |-> reply.sequence - 1, role |-> "user",
           by |-> reply.by] = question
  BY <1>7, <1>8, <1>9
<1>12. Paired(answered.messages)
  BY <1>10, <1>11 DEF Paired
<1>13. /\ \A m \in answered.messages : m \in s.messages \/ m.by = r
       /\ Once({m \in answered.messages : m.by = r})
       /\ answered.messages # {}
  BY <1>8, <1>9, <1>10 DEF Once
<1> QED
  BY <1>2, <1>3, <1>12, <1>13

\* SessionCache.set, as far as messages are concerned.
LEMMA CacheSetCopies ==
    ASSUME NEW s, s # NULL, CacheSet(s)
    PROVE  Cached' \in {{}, Cached, Messages(s)}
<1>1. CASE cache' = cache
  BY <1>1 DEF Cached
<1>2. CASE cache' = [session |-> s, until |-> now + RedisTtl]
  <2>1. cache'.session = s
    BY <1>2
  <2> QED
    BY <2>1 DEF Cached, Messages
<1> QED
  BY <1>1, <1>2 DEF CacheSet

LEMMA CacheSetGreeted ==
    ASSUME ConversationInv, NEW r \in Requests, entity[r] # NULL,
           CacheSet(entity[r])
    PROVE  cache' # NULL => Cached' # {}
<1>1. Messages(entity[r]) # {}
  BY DEF ConversationInv, AllGreeted
<1>2. CASE cache' = cache
  BY <1>2 DEF ConversationInv, AllGreeted, Cached
<1>3. CASE cache' = [session |-> entity[r], until |-> now + RedisTtl]
  <2>1. cache'.session = entity[r]
    BY <1>3
  <2> QED
    BY <1>1, <2>1 DEF Cached, Messages
<1> QED
  BY <1>2, <1>3 DEF CacheSet

LEMMA ArriveCopies ==
    ASSUME StoreInv, ConversationInv, NEW r \in Requests, Arrive(r)
    PROVE  Copies(r)
<1>1. TypeOK
  BY DEF StoreInv
<1>2. CASE StartSession(r)
  <2> DEFINE e == AppendMessage(NewSession(now), "assistant", r, now)
             greeting == [sequence |-> 0, role |-> "assistant", by |-> r]
  <2>1. now \in Time
    BY <1>1 DEF TypeOK
  <2>3. Sound(e) /\ e.messages = {greeting}
    BY <2>1, GreetingIsSound
  <2>4. e # NULL
    BY <2>3, StoreAssumption DEF Sound
  <2>5. Paired({greeting}) /\ Once({m \in {greeting} : m.by = r})
    BY DEF Paired, Once
  <2> HIDE DEF e
  <2>6. Messages(e) # {} /\ IsDraft(r, Messages(e))
    <3>1. \A m \in {greeting} : m.by = r
      OBVIOUS
    <3> HIDE DEF greeting
    <3> QED
      BY <2>3, <2>4, <2>5, <3>1 DEF Messages, IsDraft
  <2>7. /\ pc[r] = "idle"
        /\ pc' = [pc EXCEPT ![r] = "flush"]
        /\ entity' = [entity EXCEPT ![r] = e]
        /\ UNCHANGED <<stored, outbox, cache, loaded, outcome>>
    BY <1>2 DEF StartSession, Goto, database, e
  <2>8. /\ loaded' = [loaded EXCEPT ![r] = loaded[r]]
        /\ Cached' = Cached
    BY <1>1, <2>7 DEF TypeOK, Cached
  <2> QED
    BY <2>6, <2>7, <2>8, MoveCopies DEF Early, Drafting
<1>3. ASSUME NEW op, NEW length, NEW target, Receive(r, op, length, target)
      PROVE  Copies(r)
  <2>1. /\ pc[r] = "idle"
        /\ pc' = [pc EXCEPT ![r] = "getcache"]
        /\ UNCHANGED <<stored, outbox, cache, entity, loaded, outcome>>
    BY <1>3 DEF Receive, Goto, database
  <2>2. /\ loaded' = [loaded EXCEPT ![r] = loaded[r]]
        /\ entity' = [entity EXCEPT ![r] = entity[r]]
        /\ Cached' = Cached
    BY <1>1, <2>1 DEF TypeOK, Cached
  <2> QED
    BY <2>1, <2>2, MoveCopies DEF Early, Drafting
<1> QED
  BY <1>2, <1>3 DEF Arrive

\* Everything get() does, when no command raises.
LEMMA GetCopies ==
    ASSUME StoreInv, ConversationInv, NEW r \in Requests,
           \/ CacheHit(r) \/ CacheMiss(r) \/ CacheIsCorrupt(r) \/ DiscardCorrupt(r)
           \/ SelectRow(r) \/ SelectMessages(r) \/ FillCache(r)
    PROVE  Copies(r)
<1>1. TypeOK /\ RequestInv(r)
  BY DEF StoreInv
<1>2. /\ loaded = [loaded EXCEPT ![r] = loaded[r]]
      /\ entity = [entity EXCEPT ![r] = entity[r]]
  BY <1>1 DEF TypeOK
<1>3. CASE CacheHit(r)
  <2>1. /\ pc[r] = "getcache"
        /\ cache # NULL
        /\ entity' = [entity EXCEPT ![r] = cache.session]
        /\ pc' = [pc EXCEPT ![r] = "handle"]
        /\ UNCHANGED <<stored, outbox, cache, loaded, outcome>>
    BY <1>3 DEF CacheHit, CacheIsLive, Goto, database
  <2>2. cache.session # NULL
    BY <2>1, StoreAssumption DEF StoreInv, Sound
  <2>3. Messages(cache.session) = Cached /\ Cached' = Cached /\ Cached # {}
    BY <2>1, <2>2 DEF Messages, Cached, ConversationInv, AllGreeted
  <2> QED
    BY <1>2, <2>1, <2>3, MoveCopies DEF Early, Drafting
<1>4. CASE CacheMiss(r) \/ CacheIsCorrupt(r) \/ DiscardCorrupt(r)
  <2>1. PICK label \in {"selectrow", "discard"} :
            pc' = [pc EXCEPT ![r] = label]
    BY <1>4 DEF CacheMiss, CacheIsCorrupt, DiscardCorrupt, Goto
  <2>2. /\ pc[r] \in {"getcache", "discard"}
        /\ UNCHANGED <<stored, outbox, entity, loaded, outcome>>
        /\ cache' \in {cache, NULL}
    BY <1>4 DEF CacheMiss, CacheIsCorrupt, DiscardCorrupt, CacheInvalidate,
                database, memory
  <2>3. Cached' \in {{}, Cached}
    BY <2>2 DEF Cached
  <2> QED
    BY <1>2, <2>1, <2>2, <2>3, MoveCopies DEF Early, Drafting
<1>5. CASE SelectRow(r) /\ stored = NULL
  <2>1. /\ pc[r] = "selectrow"
        /\ Finish(r, "SESSION_NOT_FOUND")
        /\ UNCHANGED <<stored, outbox, cache>>
    BY <1>5 DEF SelectRow, database
  <2> QED
    BY <2>1, FinishCopies DEF Early
<1>6. CASE SelectRow(r) /\ stored # NULL
  <2>1. /\ pc[r] = "selectrow"
        /\ loaded' = [loaded EXCEPT ![r] = stored]
        /\ pc' = [pc EXCEPT ![r] = "selectmessages"]
        /\ UNCHANGED <<stored, outbox, cache, entity, outcome>>
    BY <1>6 DEF SelectRow, Goto, database
  <2>2. Cached' = Cached /\ Messages(stored) # {}
    BY <1>6, <2>1 DEF Cached, ConversationInv, AllGreeted
  <2> QED
    BY <1>2, <2>1, <2>2, MoveCopies DEF Early, Drafting
<1>7. CASE SelectMessages(r)
  <2> DEFINE e == [loaded[r] EXCEPT !.messages = stored.messages]
  <2>1. /\ pc[r] = "selectmessages"
        /\ entity' = [entity EXCEPT ![r] = e]
        /\ pc' = [pc EXCEPT ![r] = "fill"]
        /\ UNCHANGED <<stored, outbox, cache, loaded, outcome>>
    BY <1>7 DEF SelectMessages, Goto, database
  <2>2. Sound(loaded[r]) /\ Sound(stored) /\ stored # NULL
    BY <1>1, <2>1 DEF StoreInv, RequestInv, Consistent
  <2>3. Sound(e) /\ e.messages = stored.messages
    BY <2>2, RowWithMessagesIsSound DEF Sound, Session
  <2> HIDE DEF e
  <2>4. Messages(e) = Messages(stored) /\ Cached' = Cached
    BY <2>1, <2>2, <2>3, StoreAssumption DEF Messages, Cached, Sound
  <2>5. Messages(stored) # {}
    BY <2>2 DEF ConversationInv, AllGreeted
  <2> QED
    BY <1>2, <2>1, <2>4, <2>5, MoveCopies DEF Early, Drafting
<1>8. CASE FillCache(r)
  <2>1. /\ pc[r] = "fill"
        /\ pc' = [pc EXCEPT ![r] = "handle"]
        /\ CacheSet(entity[r])
        /\ UNCHANGED <<stored, outbox, entity, loaded, outcome>>
    BY <1>8 DEF FillCache, Goto, database, memory
  <2>2. entity[r] # NULL
    BY <1>1, <2>1 DEF RequestInv, Consistent
  <2>3. Cached' \in {{}, Cached, Messages(entity[r])}
    BY <2>1, <2>2, CacheSetCopies
  <2>4. pc[r] \notin Drafting /\ (cache' # NULL => Cached' # {})
    BY <2>1, <2>2, CacheSetGreeted DEF Drafting
  <2> QED
    BY <1>2, <2>1, <2>3, <2>4, MoveCopies DEF Early, Drafting
<1> QED
  BY <1>3, <1>4, <1>5, <1>6, <1>7, <1>8

\* The service: an answer, a refusal, or an entity with r's own messages added.
LEMMA HandleCopies ==
    ASSUME StoreInv, ConversationInv, NEW r \in Requests,
           AnswerGet(r) \/ HandleUserMessage(r) \/ HandleTransition(r)
    PROVE  Copies(r)
<1>1. TypeOK /\ RequestInv(r) /\ now \in Time
  BY DEF StoreInv, TypeOK
<1>2. /\ loaded = [loaded EXCEPT ![r] = loaded[r]]
      /\ entity = [entity EXCEPT ![r] = entity[r]]
  BY <1>1 DEF TypeOK
<1>3. /\ pc[r] = "handle"
      /\ UNCHANGED <<stored, outbox, cache>>
      /\ Cached' = Cached
  BY DEF AnswerGet, HandleUserMessage, HandleTransition, database, Cached
<1>4. Sound(entity[r]) /\ entity[r] # NULL
  BY <1>1, <1>3 DEF RequestInv, Consistent
<1>5. ASSUME NEW code, Finish(r, code) PROVE Copies(r)
  BY <1>3, <1>5, FinishCopies DEF Early
<1>6. ASSUME NEW e, Sound(e), e.messages # {}, IsDraft(r, e.messages),
             entity' = [entity EXCEPT ![r] = e],
             pc' = [pc EXCEPT ![r] = "check"],
             UNCHANGED <<loaded, outcome>>
      PROVE  Copies(r)
  <2>1. e # NULL
    BY <1>6, StoreAssumption DEF Sound
  <2>2. Messages(e) # {} /\ IsDraft(r, Messages(e))
    BY <1>6, <2>1 DEF Messages
  <2> QED
    BY <1>2, <1>3, <1>6, <2>2, MoveCopies DEF Early, Drafting
<1>7. /\ Messages(entity[r]) = entity[r].messages
      /\ Paired(entity[r].messages)
      /\ entity[r].messages # {}
      /\ \A m \in entity[r].messages : m.by # r
  <2>1. Messages(entity[r]) = entity[r].messages
    BY <1>4 DEF Messages
  <2>2. NoTrace(r) /\ pc[r] \notin Drafting
    BY <1>3 DEF ConversationInv, Traceless, Early, Drafting
  <2> QED
    BY <1>4, <2>1, <2>2 DEF ConversationInv, AllPaired, AllGreeted, NoTrace
<1>8. CASE AnswerGet(r)
  BY <1>5, <1>8 DEF AnswerGet
<1>9. CASE HandleUserMessage(r)
  <2> DEFINE asked == AppendMessage(entity[r], "user", r, now)
             answered == AppendMessage(asked, "assistant", r, now)
  <2>1. CASE Finish(r, MessageError(r))
    BY <1>5, <2>1
  <2>2. CASE ~Finish(r, MessageError(r))
    <3>1. /\ entity' = [entity EXCEPT ![r] = answered]
          /\ pc' = [pc EXCEPT ![r] = "check"]
          /\ UNCHANGED <<loaded, outcome>>
      BY <1>9, <2>2 DEF HandleUserMessage, Goto
    <3>2. Sound(answered)
      <4>1. "user" \in MessageRole /\ "assistant" \in MessageRole
        BY DEF MessageRole
      <4>2. Sound(asked)
        BY <1>1, <1>4, <4>1, AppendMessageIsSound
      <4> HIDE DEF asked
      <4> QED
        BY <1>1, <4>1, <4>2, AppendMessageIsSound
    <3>3. IsDraft(r, answered.messages) /\ answered.messages # {}
      <4>1. /\ Paired(answered.messages)
            /\ \A m \in answered.messages : m \in entity[r].messages \/ m.by = r
            /\ Once({m \in answered.messages : m.by = r})
            /\ answered.messages # {}
        BY <1>1, <1>4, <1>7, TurnIsPaired
      <4> HIDE DEF asked, answered
      <4> QED
        BY <1>7, <4>1 DEF IsDraft
    <3> HIDE DEF asked, answered
    <3> QED
      BY <3>1, <3>2, <3>3, <1>6
  <2> QED
    BY <2>1, <2>2
<1>10. CASE HandleTransition(r)
  <2> DEFINE target == input[r].target
             moved == TransitionTo(entity[r], target, now)
  <2>1. CASE ~CanTransition(entity[r], target)
    <3>1. Finish(r, "INVALID_SESSION_STATE")
      BY <1>10, <2>1 DEF HandleTransition
    <3> QED
      BY <1>5, <3>1
  <2>2. CASE CanTransition(entity[r], target)
    <3>1. /\ entity' = [entity EXCEPT ![r] = moved]
          /\ pc' = [pc EXCEPT ![r] = "check"]
          /\ UNCHANGED <<loaded, outcome>>
      BY <1>10, <2>2 DEF HandleTransition, Goto
    <3>2. target \in SessionState
      <4>1. entity[r].state \in SessionState
        BY <1>4 DEF Sound, Session
      <4> QED
        BY <2>2, <4>1, TransitionsType DEF CanTransition
    <3>3. Sound(moved) /\ moved.messages = entity[r].messages
      BY <1>1, <1>4, <3>2, TransitionToIsSound
    <3> HIDE DEF moved
    <3>4. IsDraft(r, moved.messages) /\ moved.messages # {}
      BY <1>7, <3>3 DEF IsDraft, Once
    <3> QED
      BY <3>1, <3>3, <3>4, <1>6
  <2> QED
    BY <2>1, <2>2
<1> QED
  BY <1>8, <1>9, <1>10

\* save() and add() up to the flush.
LEMMA SaveCopies ==
    ASSUME StoreInv, ConversationInv, NEW r \in Requests,
           CheckRevision(r) \/ InvalidateStale(r) \/ SelectMaxSequence(r)
    PROVE  Copies(r)
<1>1. TypeOK
  BY DEF StoreInv
<1>2. /\ loaded = [loaded EXCEPT ![r] = loaded[r]]
      /\ entity = [entity EXCEPT ![r] = entity[r]]
  BY <1>1 DEF TypeOK
<1>3. CASE CheckRevision(r)
  <2>1. /\ pc[r] = "check"
        /\ UNCHANGED <<stored, outbox, cache>>
        /\ Cached' = Cached
    BY <1>3 DEF CheckRevision, database, Cached
  <2>2. CASE stored = NULL
    <3>1. Finish(r, "STALE_REVISION")
      BY <1>3, <2>2 DEF CheckRevision
    <3> QED
      BY <2>1, <3>1, FinishCopies DEF Early, Drafting
  <2>3. CASE stored # NULL /\ stored.revision # expected[r]
    <3>1. /\ pc' = [pc EXCEPT ![r] = "invalidate"]
          /\ UNCHANGED <<entity, loaded, outcome>>
      BY <1>3, <2>3 DEF CheckRevision, Goto, memory
    <3> QED
      BY <1>2, <2>1, <3>1, MoveCopies DEF Early, Drafting
  <2>4. CASE stored # NULL /\ stored.revision = expected[r]
    <3>1. /\ pc' = [pc EXCEPT ![r] = "maxseq"]
          /\ loaded' = [loaded EXCEPT ![r] = stored]
          /\ UNCHANGED <<entity, outcome>>
      BY <1>3, <2>4 DEF CheckRevision, Goto
    <3>2. Messages(stored) # {}
      BY <2>4 DEF ConversationInv, AllGreeted
    <3> QED
      BY <1>2, <2>1, <3>1, <3>2, MoveCopies DEF Early, Drafting
  <2> QED
    BY <2>2, <2>3, <2>4
<1>4. CASE InvalidateStale(r)
  <2>1. /\ pc[r] = "invalidate"
        /\ Finish(r, "STALE_REVISION")
        /\ UNCHANGED <<stored, outbox>>
        /\ cache' \in {cache, NULL}
    BY <1>4 DEF InvalidateStale, CacheInvalidate, database
  <2> QED
    BY <2>1, FinishCopies DEF Early, Drafting
<1>5. CASE SelectMaxSequence(r)
  <2>1. /\ pc[r] = "maxseq"
        /\ pc' = [pc EXCEPT ![r] = "flush"]
        /\ UNCHANGED <<stored, outbox, cache, entity, loaded, outcome>>
        /\ Cached' = Cached
    BY <1>5 DEF SelectMaxSequence, Goto, database, Cached
  <2> QED
    BY <1>2, <2>1, MoveCopies DEF Early, Drafting
<1> QED
  BY <1>3, <1>4, <1>5

\* A step beyond the flush that changes neither the entity nor the tables.
LEMMA LateCopies ==
    ASSUME StoreInv, ConversationInv, NEW r \in Requests,
           NEW label \in {"writecache", "commit", "respond"},
           pc' = [pc EXCEPT ![r] = label],
           pc[r] # "done",
           \A q \in Requests \ {r} : outcome'[q] = outcome[q],
           outcome'[r] \in {outcome[r], "ok"},
           UNCHANGED <<stored, outbox, entity, loaded>>,
           \/ Cached' \in {{}, Cached}
           \/ pc[r] \notin Drafting /\ Cached' = Messages(entity[r]),
           cache' = cache \/ (cache' # NULL => Cached' # {})
    PROVE  Copies(r)
<1>1. TypeOK
  BY DEF StoreInv
<1>2. pc'[r] = label /\ label \notin Early \cup {"done"}
  BY <1>1 DEF TypeOK, Early, Drafting
<1>3. OthersWait(r)
  BY <1>1 DEF OthersWait, TypeOK
<1>4. Progress(r)
  <2>1. ~Refused(r)
    BY DEF ConversationInv
  <2>2. HttpStatus("ok") \notin 400 .. 499
    BY DEF HttpStatus
  <2>3. ~Refused(r)'
    BY <2>1, <2>2 DEF Refused
  <2> QED
    BY <1>2, <2>3 DEF Progress
<1>5. /\ entity'[r] # NULL => Messages(entity'[r]) # {}
      /\ loaded'[r] # NULL => Messages(loaded'[r]) # {}
      /\ cache' # NULL => Cached' # {}
  BY DEF ConversationInv, AllGreeted, Cached
<1> QED
  BY <1>3, <1>4, <1>5 DEF Copies, EntityFrom

\* The flush, the cache write and the response.
LEMMA FlushCopies ==
    ASSUME StoreInv, ConversationInv, NEW r \in Requests,
           Flush(r) \/ WriteCache(r) \/ Respond(r)
    PROVE  Copies(r)
<1>1. TypeOK /\ RequestInv(r)
  BY DEF StoreInv
<1>2. CASE Flush(r)
  <2>1. /\ pc[r] = "flush"
        /\ UNCHANGED <<stored, outbox, cache>>
        /\ Cached' = Cached
    BY <1>2 DEF Flush, Cached
  <2>2. ASSUME NEW code, Finish(r, code) PROVE Copies(r)
    BY <2>1, <2>2, FinishCopies DEF Early, Drafting
  <2>3. CASE Goto(r, "writecache") /\ UNCHANGED <<memory, outcome>>
    BY <2>1, <2>3, LateCopies DEF Goto, memory
  <2> QED
    BY <1>2, <2>2, <2>3 DEF Flush
<1>3. CASE WriteCache(r)
  <2>1. PICK label \in {"commit", "respond"} : pc' = [pc EXCEPT ![r] = label]
    BY <1>3 DEF WriteCache, Goto
  <2>2. /\ pc[r] = "writecache"
        /\ CacheSet(entity[r])
        /\ UNCHANGED <<stored, outbox, entity, loaded, outcome>>
    BY <1>3 DEF WriteCache, database, memory
  <2>3. entity[r] # NULL
    BY <1>1, <2>2 DEF RequestInv, Consistent, Holds
  <2>4. Cached' \in {{}, Cached, Messages(entity[r])}
    BY <2>2, <2>3, CacheSetCopies
  <2>5. pc[r] \notin Drafting /\ (cache' # NULL => Cached' # {})
    BY <2>2, <2>3, CacheSetGreeted DEF Drafting
  <2> QED
    BY <2>1, <2>2, <2>4, <2>5, LateCopies
<1>4. CASE Respond(r)
  <2>1. /\ pc[r] = "respond"
        /\ UNCHANGED <<stored, outbox, cache>>
        /\ Cached' = Cached
    BY <1>4 DEF Respond, database, Cached
  <2>2. CASE CommitFirst
    <3>1. Finish(r, "ok")
      BY <1>4, <2>2 DEF Respond
    <3>2. HttpStatus("ok") \notin 400 .. 499
      BY DEF HttpStatus
    <3> QED
      BY <2>1, <3>1, <3>2, FinishCopies
  <2>3. CASE ~CommitFirst
    <3>1. /\ pc' = [pc EXCEPT ![r] = "commit"]
          /\ outcome' = [outcome EXCEPT ![r] = "ok"]
          /\ UNCHANGED <<entity, loaded>>
      BY <1>4, <2>3 DEF Respond, Goto, memory
    <3>2. /\ outcome'[r] = "ok"
          /\ \A q \in Requests \ {r} : outcome'[q] = outcome[q]
      BY <1>1, <3>1 DEF TypeOK
    <3> QED
      BY <2>1, <3>1, <3>2, LateCopies
  <2> QED
    BY <2>2, <2>3
<1> QED
  BY <1>2, <1>3, <1>4

\* A Redis or SQL command or a conversion that raises before the flush.
LEMMA FailureCopies ==
    ASSUME StoreInv, ConversationInv, NEW r \in Requests,
           CacheGetFails(r) \/ DeserializeFails(r) \/ QueryFails(r)
    PROVE  Copies(r)
<1>1. /\ \E code \in {"INTERNAL_ERROR", "INVALID_MESSAGE"} : Finish(r, code)
      /\ pc[r] \in Early
      /\ pc[r] # "done"
      /\ UNCHANGED <<stored, outbox, cache>>
  BY DEF CacheGetFails, DeserializeFails, QueryFails, Early, Drafting, database
<1> QED
  BY <1>1, FinishCopies

-----------------------------------------------------------------------------
(* The commit. *)

\* The messages a save adds to the row continue the conversation: a reply it keeps
\* is not the reply to a message it leaves out, since the row ends with a message of
\* the assistant and its next number is the client's.
LEMMA MergeIsPaired ==
    ASSUME NEW old \in SUBSET Message, IsFiniteSet(old), IsNumbered(old),
           NEW mine \in SUBSET Message, IsFiniteSet(mine), IsNumbered(mine),
           old # {}, Paired(old), Paired(mine),
           NEW mx \in Nat \cup {-1}, mx < Cardinality(old),
           \A m \in mine, o \in old :
               m.sequence > mx => m.sequence # o.sequence
    PROVE  Paired(old \cup {m \in mine : m.sequence > mx})
<1> DEFINE new == {m \in mine : m.sequence > mx}
<1>1. PICK k : k = Cardinality(old)
  OBVIOUS
<1>2. k \in Nat /\ k % 2 = 1 /\ {o.sequence : o \in old} = 0 .. k - 1
  BY <1>1, ClientIsNext DEF IsNumbered
<1>3. \A m \in mine : m.sequence \in Nat
  BY DEF Message
<1>4. \A m \in new : m.sequence >= k
  <2> SUFFICES ASSUME NEW m \in new, m.sequence < k PROVE FALSE
    BY <1>2, <1>3
  <2>1. m.sequence \in 0 .. k - 1
    BY <1>2, <1>3
  <2>2. PICK o \in old : o.sequence = m.sequence
    BY <1>2, <2>1
  <2> QED
    BY <2>2
<1>5. ASSUME NEW m \in new, m.role = "user"
      PROVE  [sequence |-> m.sequence + 1, role |-> "assistant", by |-> m.by]
                 \in new
  <2>1. PICK reply : reply = [sequence |-> m.sequence + 1, role |-> "assistant",
                              by |-> m.by]
    OBVIOUS
  <2>2. m \in mine /\ m.sequence \in Nat /\ m.sequence > mx
    BY <1>3
  <2>3. reply \in mine
    BY <1>5, <2>1, <2>2 DEF Paired
  <2>4. reply.sequence > mx
    BY <2>1, <2>2
  <2> QED
    BY <2>1, <2>3, <2>4
<1>6. ASSUME NEW m \in new, m.role # "user"
      PROVE  [sequence |-> m.sequence - 1, role |-> "user", by |-> m.by] \in new
  <2>1. m.sequence \in Nat /\ m.sequence % 2 = 0 /\ m.sequence >= k
    BY <1>3, <1>4, <1>6 DEF Paired
  <2>2. m.sequence > k /\ m.sequence > 0
    BY <1>2, <2>1
  <2>3. PICK question : question = [sequence |-> m.sequence - 1, role |-> "user",
                                    by |-> m.by]
    OBVIOUS
  <2>4. question \in mine
    <3>1. m \in mine
      OBVIOUS
    <3> HIDE DEF new
    <3> QED
      BY <1>6, <2>2, <2>3, <3>1 DEF Paired
  <2>5. question.sequence > mx
    BY <1>1, <1>2, <2>1, <2>2, <2>3
  <2> QED
    BY <2>3, <2>4, <2>5
<1>7. \A m \in new : IF m.role = "user" THEN m.sequence % 2 = 1
                                       ELSE m.sequence % 2 = 0
  BY DEF Paired
<1> HIDE DEF new
<1>8. Paired(old \cup new)
  BY <1>5, <1>6, <1>7 DEF Paired
<1> QED
  BY <1>8 DEF new

\* What becomes visible is paired, and new in it are only r's messages and those
\* of its entity.
LEMMA CommittedIsPaired ==
    ASSUME StoreInv, ConversationInv, NEW r \in Requests, Holds(pc[r]),
           ApplyTransaction(r)
    PROVE  /\ Paired(Messages(stored')) /\ Messages(stored') # {}
           /\ Messages(stored') \subseteq Messages(stored) \cup Messages(entity[r])
           /\ \A e \in outbox' : e \in outbox \/ e.by = r
<1>1. RequestInv(r) /\ Sound(stored') /\ stored' # NULL
  BY ApplyTransactionEffect, StoreAssumption DEF StoreInv, Sound
<1>2. entity[r] # NULL /\ Sound(entity[r])
  BY <1>1 DEF RequestInv, Consistent
<1>3. Paired(entity[r].messages) /\ Paired(Messages(stored))
  BY <1>2 DEF ConversationInv, AllPaired, Messages
<1>4. \A e \in EventsOf(r) : e.by = r
  <2>1. input[r].op \in {"start", "message", "transition"}
    BY <1>1 DEF RequestInv, Consistent
  <2> QED
    BY <2>1 DEF EventsOf
<1>5. CASE input[r].op = "start"
  <2>1. stored' = entity[r]
    BY <1>5 DEF ApplyTransaction
  <2>2. Messages(entity[r]) # {}
    BY <1>2 DEF ConversationInv, AllGreeted
  <2> QED
    BY <1>2, <1>3, <1>4, <2>1, <2>2 DEF ApplyTransaction, Messages
<1>6. CASE input[r].op # "start"
  <2>1. stored # NULL
    BY <1>1, <1>6 DEF RequestInv, Consistent
  <2>2. stored'.messages = stored.messages \cup NewMessages(r)
    BY <1>6 DEF ApplyTransaction, UpdatedRow
  <2>3. /\ Sound(stored) /\ stored.messages \in SUBSET Message
        /\ entity[r].messages \in SUBSET Message
        /\ stored.messages # {} /\ Paired(stored.messages)
    BY <1>2, <1>3, <2>1 DEF StoreInv, Sound, Session, ConversationInv, AllGreeted,
                            Messages
  <2>4. Paired(stored'.messages)
    <3>1. /\ maxSeq[r] \in Nat \cup {-1}
          /\ maxSeq[r] < Cardinality(stored.messages)
          /\ Fresh(entity[r], maxSeq[r], stored)
      BY <1>1, <1>6 DEF StoreInv, TypeOK, RequestInv, Consistent
    <3> QED
      BY <1>2, <1>3, <2>2, <2>3, <3>1, MergeIsPaired DEF Sound, NewMessages, Fresh
  <2>5. NewMessages(r) \subseteq entity[r].messages
    BY DEF NewMessages
  <2> QED
    BY <1>1, <1>2, <1>4, <2>1, <2>2, <2>3, <2>4, <2>5 DEF ApplyTransaction, Messages
<1> QED
  BY <1>5, <1>6

LEMMA CommitKeeps ==
    ASSUME StoreInv, ConversationInv, NEW r \in Requests, Holds(pc[r]),
           ApplyTransaction(r) \/ UNCHANGED <<stored, outbox>>,
           UNCHANGED cache,
           OthersWait(r), ~Refused(r)', pc'[r] \notin Early,
           entity'[r] \in {NULL, entity[r]}, loaded'[r] \in {NULL, loaded[r]}
    PROVE  ConversationInv'
<1>1. /\ Paired(Messages(stored'))
      /\ Messages(stored') \subseteq Messages(stored) \cup Messages(entity[r])
      /\ \A e \in outbox' : e \in outbox \/ e.by = r
  BY CommittedIsPaired DEF ConversationInv, AllPaired
<1>2. /\ Messages(entity'[r]) \in {{}, Messages(entity[r])}
      /\ Messages(loaded'[r]) \in {{}, Messages(loaded[r])}
      /\ Cached' = Cached
  BY DEF Messages, Cached
<1>3. AllPaired'
  <2>1. Paired({})
    BY DEF Paired
  <2> QED
    BY <1>1, <1>2, <2>1 DEF ConversationInv, AllPaired, OthersWait
<1>6. AllGreeted'
  <2>1. stored' # NULL => Messages(stored') # {}
    BY CommittedIsPaired DEF ConversationInv, AllGreeted
  <2> QED
    BY <1>2, <2>1 DEF ConversationInv, AllGreeted, OthersWait
<1>7. Once(Everywhere')
  <2>1. Everywhere' \subseteq Everywhere
    BY <1>1, <1>2 DEF Everywhere, OthersWait
  <2> QED
    BY <2>1 DEF ConversationInv, Once
<1>4. ASSUME NEW v \in Requests \ {r}
      PROVE  /\ (pc[v] \in Early => outcome[v] = "none")'
             /\ (Refused(v) => pc[v] = "done")'
             /\ (Traceless(v) => NoTrace(v))'
  <2>1. /\ pc'[v] = pc[v]
        /\ outcome'[v] = outcome[v]
        /\ Refused(v)' <=> Refused(v)
    BY DEF OthersWait, Refused
  <2>2. ASSUME Traceless(v)' PROVE NoTrace(v)'
    <3>1. NoTrace(v)
      BY <2>1, <2>2 DEF ConversationInv, Traceless
    <3>2. \A m \in Messages(entity[r]) : m.by # v
      BY <3>1 DEF NoTrace
    <3> QED
      BY <1>1, <1>2, <2>1, <3>1, <3>2 DEF OthersWait, NoTrace
  <2> QED
    BY <2>1, <2>2 DEF ConversationInv
<1>5. ~Traceless(r)'
  BY DEF Traceless
<1> QED
  BY <1>3, <1>4, <1>5, <1>6, <1>7 DEF ConversationInv

LEMMA CommitStepKeeps ==
    ASSUME StoreInv, ConversationInv, NEW r \in Requests,
           Commit(r) \/ CommitFails(r)
    PROVE  ConversationInv'
<1>1. TypeOK
  BY DEF StoreInv
<1>2. /\ pc[r] = "commit" /\ Holds(pc[r])
      /\ ApplyTransaction(r) \/ UNCHANGED <<stored, outbox>>
      /\ UNCHANGED cache
  BY DEF Commit, CommitFails, Holds
<1>3. ~Refused(r)
  BY <1>2 DEF ConversationInv
<1>4. ASSUME NEW code \in {"ok", "INTERNAL_ERROR"}, Finish(r, code)
      PROVE  ConversationInv'
  <2>1. /\ pc' = [pc EXCEPT ![r] = "done"]
        /\ outcome' = [outcome EXCEPT ![r] = IF @ = "none" THEN code ELSE @]
        /\ entity' = [entity EXCEPT ![r] = NULL]
        /\ loaded' = [loaded EXCEPT ![r] = NULL]
    BY <1>4 DEF Finish, Goto
  <2>2. /\ pc'[r] = "done" /\ entity'[r] = NULL /\ loaded'[r] = NULL
        /\ outcome'[r] \in {outcome[r], code}
    BY <1>1, <2>1 DEF TypeOK
  <2>3. OthersWait(r)
    BY <1>1, <2>1 DEF OthersWait, TypeOK
  <2>4. HttpStatus(code) \notin 400 .. 499
    BY DEF HttpStatus
  <2>5. ~Refused(r)'
    BY <1>3, <2>2, <2>4 DEF Refused
  <2> QED
    BY <1>2, <2>2, <2>3, <2>5, CommitKeeps DEF Early, Drafting
<1>5. CASE Goto(r, "respond") /\ UNCHANGED <<memory, outcome>>
  <2>1. /\ pc' = [pc EXCEPT ![r] = "respond"]
        /\ UNCHANGED <<outcome, entity, loaded>>
    BY <1>5 DEF Goto, memory
  <2>2. pc'[r] = "respond" /\ OthersWait(r)
    BY <1>1, <2>1 DEF OthersWait, TypeOK
  <2>3. ~Refused(r)'
    BY <1>3, <2>1 DEF Refused
  <2> QED
    BY <1>2, <2>1, <2>2, <2>3, CommitKeeps DEF Early, Drafting
<1> QED
  BY <1>4, <1>5 DEF Commit, CommitFails

-----------------------------------------------------------------------------
(* Crashes, the cache and the clock. *)

LEMMA CrashKeeps ==
    ASSUME StoreInv, ConversationInv, Crash
    PROVE  ConversationInv'
<1>1. /\ pc' = [r \in Requests |-> IF InFlight(r) THEN "done" ELSE pc[r]]
      /\ outcome' = [r \in Requests |->
                        IF r \in Unanswered THEN "DISCONNECTED" ELSE outcome[r]]
      /\ entity' = [r \in Requests |-> NULL]
      /\ loaded' = [r \in Requests |-> NULL]
      /\ UNCHANGED <<stored, outbox, cache>>
  BY DEF Crash
<1>2. Cached' = Cached /\ Messages(NULL) = {} /\ Paired({})
  BY <1>1 DEF Cached, Messages, Paired
<1>3. /\ AllPaired' /\ AllGreeted'
      /\ Once(Everywhere')
  <2>1. Everywhere' \subseteq Everywhere
    BY <1>1, <1>2 DEF Everywhere
  <2> QED
    BY <1>1, <1>2, <2>1 DEF ConversationInv, AllPaired, AllGreeted, Once
<1>4. ASSUME NEW v \in Requests
      PROVE  /\ (pc[v] \in Early => outcome[v] = "none")'
             /\ (Refused(v) => pc[v] = "done")'
             /\ (Traceless(v) => NoTrace(v))'
  <2>1. "done" \notin Early /\ "idle" \in Early
    BY DEF Early, Drafting
  <2>2. CASE pc[v] = "idle"
    <3>1. pc'[v] = "idle" /\ outcome'[v] = "none" /\ outcome[v] = "none"
      BY <1>1, <2>1, <2>2 DEF ConversationInv, InFlight, Unanswered
    <3>2. NoTrace(v)
      BY <2>1, <2>2 DEF ConversationInv, Traceless
    <3>3. NoTrace(v)'
      BY <1>1, <1>2, <3>2 DEF NoTrace
    <3>4. ~Refused(v)'
      BY <3>1 DEF Refused, HttpStatus
    <3> QED
      BY <3>1, <3>3, <3>4
  <2>3. CASE pc[v] # "idle"
    <3>1. pc'[v] = "done"
      BY <1>1, <2>3 DEF InFlight
    <3>2. ASSUME Refused(v)' PROVE NoTrace(v)'
      <4>1. HttpStatus("DISCONNECTED") \notin 400 .. 499
        BY DEF HttpStatus
      <4>2. outcome'[v] = outcome[v]
        BY <1>1, <3>2, <4>1 DEF Refused
      <4>3. NoTrace(v)
        BY <3>2, <4>2 DEF ConversationInv, Traceless, Refused
      <4> QED
        BY <1>1, <1>2, <4>3 DEF NoTrace
    <3> QED
      BY <2>1, <3>1, <3>2 DEF Traceless
  <2> QED
    BY <2>2, <2>3
<1> QED
  BY <1>3, <1>4 DEF ConversationInv

LEMMA EnvironmentKeeps ==
    ASSUME ConversationInv, LoseCacheEntry \/ Tick \/ UNCHANGED vars
    PROVE  ConversationInv'
<1>1. /\ UNCHANGED <<stored, outbox, pc, entity, loaded, outcome>>
      /\ cache' \in {cache, NULL}
  BY DEF LoseCacheEntry, Tick, vars, database, memory
<1>2. Cached' \in {{}, Cached} /\ Paired({}) /\ (cache' # NULL => Cached' # {})
  BY <1>1 DEF Cached, Paired, ConversationInv, AllGreeted
<1>3. /\ AllPaired' /\ AllGreeted'
      /\ Once(Everywhere')
  <2>1. Everywhere' \subseteq Everywhere
    BY <1>1, <1>2 DEF Everywhere
  <2> QED
    BY <1>1, <1>2, <2>1 DEF ConversationInv, AllPaired, AllGreeted, Once
<1>4. ASSUME NEW v \in Requests
      PROVE  /\ (pc[v] \in Early => outcome[v] = "none")'
             /\ (Refused(v) => pc[v] = "done")'
             /\ (Traceless(v) => NoTrace(v))'
  BY <1>1, <1>2 DEF ConversationInv, Traceless, NoTrace, Refused
<1> QED
  BY <1>3, <1>4 DEF ConversationInv

-----------------------------------------------------------------------------
(* The theorems. *)

LEMMA InitConversation == Init => ConversationInv
<1> SUFFICES ASSUME Init PROVE ConversationInv
  OBVIOUS
<1>1. /\ Messages(stored) = {} /\ Cached = {} /\ outbox = {}
      /\ \A q \in Requests : Messages(entity[q]) = {} /\ Messages(loaded[q]) = {}
  BY DEF Init, Messages, Cached
<1>2. \A q \in Requests : outcome[q] = "none" /\ ~Refused(q)
  BY DEF Init, Refused, HttpStatus
<1>3. Paired({}) /\ AllGreeted /\ Everywhere = {}
  BY <1>1 DEF Init, Paired, AllGreeted, Everywhere
<1> QED
  BY <1>1, <1>2, <1>3 DEF ConversationInv, AllPaired, NoTrace, Once

LEMMA NextConversation ==
    StoreInv /\ ConversationInv /\ [Next]_vars => ConversationInv'
<1> SUFFICES ASSUME StoreInv, ConversationInv, [Next]_vars
             PROVE  ConversationInv'
  OBVIOUS
<1>1. ASSUME NEW r \in Requests, Arrive(r) PROVE ConversationInv'
  BY <1>1, ArriveCopies, CopiesKeep
<1>2. ASSUME NEW r \in Requests, Serve(r) PROVE ConversationInv'
  <2>1. CASE Commit(r)
    BY <2>1, CommitStepKeeps
  <2>2. CASE ~Commit(r)
    <3>1. Copies(r)
      BY <1>2, <2>2, GetCopies, HandleCopies, SaveCopies, FlushCopies DEF Serve
    <3> QED
      BY <3>1, CopiesKeep
  <2> QED
    BY <2>1, <2>2
<1>3. ASSUME NEW r \in Requests, Disturb(r) PROVE ConversationInv'
  <2>1. CASE CommitFails(r)
    BY <2>1, CommitStepKeeps
  <2>2. CASE ~CommitFails(r)
    <3>1. Copies(r)
      BY <1>3, <2>2, GetCopies, FailureCopies DEF Disturb
    <3> QED
      BY <3>1, CopiesKeep
  <2> QED
    BY <2>1, <2>2
<1>4. CASE Crash
  BY <1>4, CrashKeeps
<1>5. CASE LoseCacheEntry \/ Tick \/ AllServed \/ UNCHANGED vars
  BY <1>5, EnvironmentKeeps DEF AllServed
<1> QED
  BY <1>1, <1>2, <1>3, <1>4, <1>5 DEF Next

LEMMA AlwaysConversation == Spec => []ConversationInv
<1>1. Init => ConversationInv
  BY InitConversation
<1>2. StoreInv /\ ConversationInv /\ [Next]_vars => ConversationInv'
  BY NextConversation
<1> QED
  BY <1>1, <1>2, AlwaysStore, PTL DEF Spec

\* Stored messages come in turns, whatever requests run concurrently and whatever
\* fails.
THEOREM TurnsAreStoredWhole == Spec => []TurnsStayTogether
<1>1. ConversationInv => TurnsStayTogether
  BY DEF ConversationInv, AllPaired, Paired, Messages, TurnsStayTogether
<1> QED
  BY <1>1, AlwaysConversation, PTL

\* ... and no message of a request is stored under two numbers.
THEOREM TurnsAreWrittenOnce == Spec => []TurnsAreStoredOnce
<1>1. ConversationInv => TurnsAreStoredOnce
  BY DEF ConversationInv, Once, Everywhere, Messages, TurnsAreStoredOnce
<1> QED
  BY <1>1, AlwaysConversation, PTL

\* A request that was answered with 400 to 499 has no message in the tables or in
\* the cache and no event in the outbox.
THEOREM RefusalsLeaveNoTrace == Spec => []RefusedRequestsLeaveNoTrace
<1>1. ConversationInv => RefusedRequestsLeaveNoTrace
  BY DEF ConversationInv, Traceless, NoTrace, Messages, Cached,
         RefusedRequestsLeaveNoTrace
<1> QED
  BY <1>1, AlwaysConversation, PTL
=============================================================================
