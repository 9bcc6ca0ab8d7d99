---------------------------- MODULE OutboxProofs -----------------------------
(***************************************************************************)
(* The outbox tells of the conversation, for any clients and any failures, *)
(* when the commit comes before the response.                              *)
(*                                                                         *)
(* The events go with the commit of the request that wrote the messages,   *)
(* but the messages may get into the database earlier or later, with the   *)
(* save of another request that read them in the cache.  Earlier cannot    *)
(* be: that save would hold the row lock which the author still holds.     *)
(* Later, the author is over: it has committed its events, or its client   *)
(* was told that it failed.                                                *)
(***************************************************************************)
EXTENDS ConversationProofs

\* Where a request has messages whose events are not committed yet.
Open == Drafting \cup {"writecache", "commit"}

Lost(v) == outcome[v] \in {"INTERNAL_ERROR", "DISCONNECTED"}

Told(m) == m.sequence = 0 \/ AppendedEvent(m.by, m.sequence) \in outbox

TurnIsTold(v) ==
    \E e \in outbox : {AppendedEvent(v, e.sequence),
                       AppendedEvent(v, e.sequence + 1)} \subseteq outbox

Answered(v) ==
    /\ pc[v] = "respond" \/ outcome[v] = "ok"
    /\ input[v].op = "message"

\* What an entity e has of v's own, which asked for op: a turn, if op is a message,
\* and else at most the greeting.
TurnIn(e, op, v) ==
    /\ \A m \in Messages(e) : m.by = v => m.sequence = 0 \/ op = "message"
    /\ op = "message" =>
           \E n \in Nat :
               {[sequence |-> n, role |-> "user", by |-> v],
                [sequence |-> n + 1, role |-> "assistant", by |-> v]}
                   \subseteq Messages(e)

HasTurn(v) == TurnIn(entity[v], input[v].op, v)

\* The inductive invariant, next to StoreInv and ConversationInv.
OutboxInv ==
    /\ \A m \in Everywhere : Told(m) \/ Lost(m.by) \/ pc[m.by] \in Open
    /\ \A m \in Messages(stored) : Told(m) \/ Lost(m.by)
    /\ \A v \in Requests :
           /\ pc[v] # "done" => outcome[v] = "none"
           /\ pc[v] \in Open =>
                  /\ HasTurn(v)
                  /\ \A m \in Everywhere : m.by = v => m \in Messages(entity[v])
           /\ Answered(v) => TurnIsTold(v)

-----------------------------------------------------------------------------
(* Steps that commit nothing. *)

LEMMA EverywhereType ==
    ASSUME StoreInv
    PROVE  \A m \in Everywhere : m.by \in Requests
<1>1. \A s : Sound(s) => s.messages \subseteq Message
  BY DEF Sound, Session
<1>2. Messages(stored) \subseteq Message /\ Cached \subseteq Message
  BY <1>1 DEF StoreInv, Messages, Cached
<1>3. \A q \in Requests : Messages(entity[q]) \cup Messages(loaded[q]) \subseteq Message
  BY <1>1 DEF StoreInv, RequestInv, Consistent, Messages
<1>4. Everywhere \subseteq Message
  BY <1>2, <1>3 DEF Everywhere
<1> QED
  BY <1>4 DEF Message

\* A step of r that copies, answers nobody a message that is not committed, and
\* leaves an open request open with what it has, or drops that.
Quiet(r) ==
    /\ Copies(r)
    /\ \A q \in Requests \ {r} : input'[q] = input[q]
    /\ pc[r] # "done"
    /\ pc'[r] # "done" => outcome'[r] = outcome[r]
    /\ Answered(r)' => Answered(r)
    /\ pc[r] \in {"writecache", "commit"} => pc'[r] \in Open
    /\ pc[r] \in Open /\ pc'[r] \notin Open => pc'[r] = "done"
    /\ pc'[r] \in Open =>
           IF pc[r] \in Open
           THEN entity'[r] = entity[r] /\ input'[r] = input[r]
           ELSE pc'[r] \in Drafting /\ TurnIn(entity'[r], input'[r].op, r)

\* An open request that ends without a commit takes its messages with it.
LEMMA DroppedMessages ==
    ASSUME ConversationInv, NEW r \in Requests, Quiet(r),
           pc[r] \in Open, pc'[r] \notin Open
    PROVE  \A m \in Everywhere' : m.by # r
<1>1. Copies(r) /\ OthersWait(r)
  BY DEF Quiet, Copies
<1>2. pc'[r] = "done" /\ pc[r] \in Drafting
  BY DEF Quiet, Open
<1>3. entity'[r] = NULL
  BY <1>1, <1>2 DEF Copies, Progress, Drafting
<1>4. NoTrace(r)
  BY <1>2 DEF ConversationInv, Traceless, Early
<1>5. /\ \A m \in Messages(stored') \cup Cached' : m.by # r
      /\ \A m \in Messages(loaded'[r]) : m.by # r
  BY <1>1, <1>2, <1>4 DEF Copies, NoTrace
<1>6. Messages(entity'[r]) = {}
  BY <1>3 DEF Messages
<1>7. \A q \in Requests \ {r} :
          \A m \in Messages(entity'[q]) \cup Messages(loaded'[q]) : m.by # r
  BY <1>1, <1>4 DEF OthersWait, NoTrace
<1> QED
  BY <1>5, <1>6, <1>7 DEF Everywhere

LEMMA QuietKeeps ==
    ASSUME StoreInv, ConversationInv, OutboxInv, NEW r \in Requests, Quiet(r)
    PROVE  OutboxInv'
<1>1. Copies(r) /\ OthersWait(r) /\ UNCHANGED <<stored, outbox>>
  BY DEF Quiet, Copies
<1>2. \A m \in Everywhere : m.by \in Requests
  BY EverywhereType
<1>3. \A m \in Everywhere' :
          m \in Everywhere \/ (m \in Messages(entity'[r]) /\ m.by = r)
  BY <1>1, CopiesComeFrom
<1>4. \A m : Told(m)' <=> Told(m)
  BY <1>1 DEF Told
<1>5. \A v \in Requests \ {r} :
          /\ Lost(v)' <=> Lost(v)
          /\ pc'[v] = pc[v]
          /\ outcome'[v] = outcome[v]
          /\ Answered(v)' <=> Answered(v)
          /\ TurnIsTold(v)' <=> TurnIsTold(v)
          /\ HasTurn(v)' <=> HasTurn(v)
          /\ entity'[v] = entity[v]
  BY <1>1 DEF Quiet, OthersWait, Lost, Answered, TurnIsTold, HasTurn
<1>6. outcome[r] = "none" /\ ~Lost(r)
  BY DEF Quiet, OutboxInv, Lost
<1>7. ASSUME NEW m \in Everywhere'
      PROVE  Told(m)' \/ Lost(m.by)' \/ pc'[m.by] \in Open
  <2>1. CASE m.by # r
    <3>1. m \in Everywhere /\ m.by \in Requests \ {r}
      BY <1>2, <1>3, <2>1
    <3>2. Told(m) \/ Lost(m.by) \/ pc[m.by] \in Open
      BY <3>1 DEF OutboxInv
    <3> QED
      BY <1>4, <1>5, <3>1, <3>2
  <2>2. CASE m.by = r /\ pc'[r] \notin Open
    <3>1. pc[r] \notin Open
      BY <2>2, DroppedMessages
    <3>2. pc'[r] \notin Drafting
      BY <2>2 DEF Open
    <3>3. Messages(entity'[r]) \subseteq Everywhere
      BY <1>1, <3>2 DEF Copies, EntityFrom, Everywhere
    <3>4. m \in Everywhere
      BY <1>3, <3>3
    <3>5. Told(m)
      BY <1>6, <2>2, <3>1, <3>4 DEF OutboxInv
    <3> QED
      BY <1>4, <3>5
  <2> QED
    BY <2>1, <2>2
<1>8. ASSUME NEW m \in Messages(stored)' PROVE Told(m)' \/ Lost(m.by)'
  <2>1. m \in Messages(stored) /\ m \in Everywhere
    BY <1>1 DEF Everywhere
  <2>2. Told(m) \/ Lost(m.by)
    BY <2>1 DEF OutboxInv
  <2> QED
    BY <1>2, <1>4, <1>5, <1>6, <2>1, <2>2
<1>9. ASSUME NEW v \in Requests \ {r}
      PROVE  /\ (pc[v] # "done" => outcome[v] = "none")'
             /\ pc'[v] \in Open =>
                    /\ HasTurn(v)'
                    /\ \A m \in Everywhere' : m.by = v => m \in Messages(entity'[v])
             /\ (Answered(v) => TurnIsTold(v))'
  BY <1>3, <1>5 DEF OutboxInv
<1>10. /\ (pc[r] # "done" => outcome[r] = "none")'
       /\ pc'[r] \in Open =>
              /\ HasTurn(r)'
              /\ \A m \in Everywhere' : m.by = r => m \in Messages(entity'[r])
       /\ (Answered(r) => TurnIsTold(r))'
  <2>1. (pc[r] # "done" => outcome[r] = "none")'
    BY <1>6 DEF Quiet
  <2>2. (Answered(r) => TurnIsTold(r))'
    BY <1>1 DEF Quiet, OutboxInv, TurnIsTold
  <2>3. CASE pc'[r] \in Open /\ pc[r] \in Open
    <3>1. entity'[r] = entity[r] /\ input'[r] = input[r]
      BY <2>3 DEF Quiet
    <3>2. HasTurn(r) /\ \A m \in Everywhere : m.by = r => m \in Messages(entity[r])
      BY <2>3 DEF OutboxInv
    <3>3. HasTurn(r)'
      BY <3>1, <3>2 DEF HasTurn
    <3> QED
      BY <1>3, <2>1, <2>2, <3>1, <3>2, <3>3
  <2>4. CASE pc'[r] \in Open /\ pc[r] \notin Open
    <3>1. HasTurn(r)' /\ pc'[r] \in Drafting /\ pc[r] \notin Drafting
      BY <2>4 DEF Quiet, Open, HasTurn
    <3>2. pc[r] \in Early
      BY <1>1, <3>1 DEF Copies, Progress, Early
    <3>3. NoTrace(r)
      BY <3>2 DEF ConversationInv, Traceless
    <3>4. \A m \in Everywhere : m.by # r
      BY <3>1, <3>3 DEF NoTrace, Everywhere
    <3> QED
      BY <1>3, <2>1, <2>2, <3>1, <3>4
  <2> QED
    BY <2>1, <2>2, <2>3, <2>4
<1> QED
  BY <1>7, <1>8, <1>9, <1>10 DEF OutboxInv

LEMMA FinishQuiet ==
    ASSUME StoreInv, NEW r \in Requests, NEW code, Finish(r, code), Copies(r),
           pc[r] \notin {"done", "writecache", "commit"},
           code = "ok" /\ input[r].op = "message" => pc[r] = "respond"
    PROVE  Quiet(r)
<1>1. TypeOK
  BY DEF StoreInv
<1>2. /\ pc' = [pc EXCEPT ![r] = "done"]
      /\ outcome' = [outcome EXCEPT ![r] = IF @ = "none" THEN code ELSE @]
      /\ UNCHANGED input
  BY DEF Finish, Goto
<1>3. pc'[r] = "done" /\ outcome'[r] \in {outcome[r], code} /\ "done" \notin Open
  BY <1>1, <1>2 DEF TypeOK, Open, Drafting
<1>4. Answered(r)' => Answered(r)
  BY <1>2, <1>3 DEF Answered
<1> QED
  BY <1>2, <1>3, <1>4 DEF Quiet

\* A request goes on: where it goes, and with which input.
Moves(r, label, i) ==
    /\ pc[r] # "done"
    /\ pc' = [pc EXCEPT ![r] = label]
    /\ input' = [input EXCEPT ![r] = i]
    /\ UNCHANGED outcome

LEMMA MoveQuiet ==
    ASSUME StoreInv, OutboxInv, NEW r \in Requests, NEW label, NEW i,
           Moves(r, label, i),
           label \notin {"done", "respond"},
           label \in Open <=> pc[r] \in Open,
           pc[r] \in Open => entity'[r] = entity[r] /\ i = input[r],
           Copies(r)
    PROVE  Quiet(r)
<1>1. TypeOK
  BY DEF StoreInv
<1>2. /\ pc'[r] = label /\ input'[r] = i
      /\ \A q \in Requests \ {r} : input'[q] = input[q]
  BY <1>1 DEF TypeOK, Moves
<1>3. ~Answered(r)'
  BY <1>2 DEF OutboxInv, Answered, Moves
<1>4. "writecache" \in Open /\ "commit" \in Open
  BY DEF Open
<1> QED
  BY <1>2, <1>3, <1>4 DEF Quiet, Moves

LEMMA DraftQuiet ==
    ASSUME StoreInv, OutboxInv, NEW r \in Requests, NEW label \in Drafting, NEW i,
           Moves(r, label, i),
           pc[r] \notin Open,
           TurnIn(entity'[r], i.op, r),
           Copies(r)
    PROVE  Quiet(r)
<1>1. TypeOK
  BY DEF StoreInv
<1>2. /\ pc'[r] = label /\ input'[r] = i
      /\ \A q \in Requests \ {r} : input'[q] = input[q]
  BY <1>1 DEF TypeOK, Moves
<1>3. ~Answered(r)'
  BY <1>2 DEF OutboxInv, Answered, Drafting, Moves
<1>4. "writecache" \in Open /\ "commit" \in Open /\ label \in Open /\ label # "done"
  BY DEF Open, Drafting
<1> QED
  BY <1>2, <1>3, <1>4 DEF Quiet, Moves

-----------------------------------------------------------------------------
(* One lemma per group of actions: they are quiet. *)

LEMMA ArriveQuiet ==
    ASSUME StoreInv, ConversationInv, OutboxInv, NEW r \in Requests, Arrive(r)
    PROVE  Quiet(r)
<1>a. Copies(r)
  BY ArriveCopies
<1>1. TypeOK
  BY DEF StoreInv
<1>2. CASE StartSession(r)
  <2>a. PICK i : i = [NoInput EXCEPT !.op = "start"]
    OBVIOUS
  <2>b. PICK e : e = AppendMessage(NewSession(now), "assistant", r, now)
    OBVIOUS
  <2>1. /\ pc[r] = "idle"
        /\ Moves(r, "flush", i)
        /\ entity' = [entity EXCEPT ![r] = e]
    BY <1>2, <2>a, <2>b DEF StartSession, Goto, Moves
  <2>2. i.op = "start"
    BY <2>a DEF NoInput
  <2>3. entity'[r] = e
    BY <1>1, <2>1 DEF TypeOK
  <2>4. \A m \in e.messages : m.sequence = 0
    <3>1. now \in Time
      BY <1>1 DEF TypeOK
    <3>2. e.messages = {[sequence |-> 0, role |-> "assistant", by |-> r]}
      BY <2>b, <3>1, GreetingIsSound
    <3> QED
      BY <3>2
  <2>5. TurnIn(entity'[r], i.op, r)
    BY <2>2, <2>3, <2>4 DEF TurnIn, Messages
  <2>6. pc[r] \notin Open /\ "flush" \in Drafting
    BY <2>1 DEF Open, Drafting
  <2> QED
    BY <1>a, <2>1, <2>5, <2>6, DraftQuiet
<1>3. ASSUME NEW op, NEW length, NEW target, Receive(r, op, length, target)
      PROVE  Quiet(r)
  <2>a. PICK i : i = [op |-> op, length |-> length, target |-> target]
    OBVIOUS
  <2>1. /\ pc[r] = "idle"
        /\ Moves(r, "getcache", i)
    BY <1>3, <2>a DEF Receive, Goto, Moves
  <2>2. pc[r] \notin Open /\ "getcache" \notin Open
    BY <2>1 DEF Open, Drafting
  <2> QED
    BY <1>a, <2>1, <2>2, MoveQuiet
<1> QED
  BY <1>2, <1>3 DEF Arrive

LEMMA GetQuiet ==
    ASSUME StoreInv, ConversationInv, OutboxInv, NEW r \in Requests,
           \/ CacheHit(r) \/ CacheMiss(r) \/ CacheIsCorrupt(r) \/ DiscardCorrupt(r)
           \/ SelectRow(r) \/ SelectMessages(r) \/ FillCache(r)
    PROVE  Quiet(r)
<1>1. TypeOK /\ Copies(r)
  BY GetCopies DEF StoreInv
<1>2. input = [input EXCEPT ![r] = input[r]]
  BY <1>1 DEF TypeOK
<1>3. /\ pc[r] \in {"getcache", "discard", "selectrow", "selectmessages", "fill"}
      /\ \/ Finish(r, "SESSION_NOT_FOUND")
         \/ \E label \in {"handle", "discard", "selectrow", "selectmessages",
                          "fill"} :
                /\ pc' = [pc EXCEPT ![r] = label]
                /\ UNCHANGED <<input, outcome>>
  BY DEF CacheHit, CacheMiss, CacheIsCorrupt, DiscardCorrupt, SelectRow,
         SelectMessages, FillCache, Goto, memory
<1>4. CASE Finish(r, "SESSION_NOT_FOUND")
  BY <1>1, <1>3, <1>4, FinishQuiet
<1>5. ASSUME NEW label \in {"handle", "discard", "selectrow", "selectmessages",
                            "fill"},
             pc' = [pc EXCEPT ![r] = label],
             UNCHANGED <<input, outcome>>
      PROVE  Quiet(r)
  <2>1. Moves(r, label, input[r])
    BY <1>2, <1>3, <1>5 DEF Moves
  <2> QED
    BY <1>1, <1>3, <2>1, MoveQuiet DEF Open, Drafting
<1> QED
  BY <1>3, <1>4, <1>5

\* The service leaves a whole turn in the entity, or nothing of its request's own.
LEMMA HandleQuiet ==
    ASSUME StoreInv, ConversationInv, OutboxInv, NEW r \in Requests,
           AnswerGet(r) \/ HandleUserMessage(r) \/ HandleTransition(r)
    PROVE  Quiet(r)
<1>a. Copies(r)
  BY HandleCopies
<1>1. /\ TypeOK /\ RequestInv(r) /\ now \in Time
      /\ pc[r] = "handle"
  BY DEF StoreInv, TypeOK, AnswerGet, HandleUserMessage,
                      HandleTransition
<1>2. input = [input EXCEPT ![r] = input[r]]
  BY <1>1 DEF TypeOK
<1>3. /\ entity[r] # NULL /\ Sound(entity[r])
      /\ \A m \in entity[r].messages : m.by # r
  <2>1. entity[r] # NULL /\ Sound(entity[r])
    BY <1>1 DEF RequestInv, Consistent
  <2>2. NoTrace(r) /\ pc[r] \notin Drafting
    BY <1>1 DEF ConversationInv, Traceless, Early, Drafting
  <2> QED
    BY <2>1, <2>2 DEF NoTrace, Messages
<1>4. ASSUME NEW code, Finish(r, code), code = "ok" => input[r].op # "message"
      PROVE  Quiet(r)
  BY <1>a, <1>1, <1>4, FinishQuiet
<1>5. ASSUME NEW e, entity' = [entity EXCEPT ![r] = e],
             pc' = [pc EXCEPT ![r] = "check"],
             UNCHANGED <<input, outcome>>,
             e # NULL,
             \A m \in e.messages : m.by = r => input[r].op = "message",
             input[r].op = "message" =>
                 \E n \in Nat :
                     {[sequence |-> n, role |-> "user", by |-> r],
                      [sequence |-> n + 1, role |-> "assistant", by |-> r]}
                         \subseteq e.messages
      PROVE  Quiet(r)
  <2>1. entity'[r] = e /\ Messages(e) = e.messages
    BY <1>1, <1>5 DEF TypeOK, Messages
  <2>2. TurnIn(entity'[r], input[r].op, r)
    BY <1>5, <2>1 DEF TurnIn
  <2>3. pc[r] \notin Open /\ "check" \in Drafting
    BY <1>1 DEF Open, Drafting
  <2>4. Moves(r, "check", input[r])
    BY <1>1, <1>2, <1>5 DEF Moves
  <2> QED
    BY <1>a, <2>2, <2>3, <2>4, DraftQuiet
<1>6. CASE AnswerGet(r)
  BY <1>4, <1>6 DEF AnswerGet
<1>7. CASE HandleUserMessage(r)
  <2>1. CASE Finish(r, MessageError(r))
    <3>1. MessageError(r) # "ok"
      BY MessageErrorType DEF ErrorCode
    <3> QED
      BY <1>4, <2>1, <3>1
  <2>2. CASE ~Finish(r, MessageError(r))
    <3>1. PICK asked : asked = AppendMessage(entity[r], "user", r, now)
      OBVIOUS
    <3>2. PICK answered : answered = AppendMessage(asked, "assistant", r, now)
      OBVIOUS
    <3>3. PICK n : n = Cardinality(entity[r].messages)
      OBVIOUS
    <3>4. "user" \in MessageRole /\ "assistant" \in MessageRole
      BY DEF MessageRole
    <3>5. Sound(asked)
      BY <1>1, <1>3, <3>1, <3>4, AppendMessageIsSound
    <3>6. /\ asked.messages = entity[r].messages \cup
                 {[sequence |-> n, role |-> "user", by |-> r]}
          /\ Cardinality(asked.messages) = n + 1
      BY <1>1, <1>3, <3>1, <3>3, <3>4, AppendMessageIsSound
    <3>7. /\ Sound(answered)
          /\ answered.messages = asked.messages \cup
                 {[sequence |-> Cardinality(asked.messages),
                   role |-> "assistant", by |-> r]}
      BY <1>1, <3>2, <3>4, <3>5, AppendMessageIsSound
    <3>8. n \in Nat /\ answered # NULL
      BY <1>3, <3>3, <3>7, FS_CardinalityType, StoreAssumption DEF Sound
    <3>9. /\ entity' = [entity EXCEPT ![r] = answered]
          /\ pc' = [pc EXCEPT ![r] = "check"]
          /\ input[r].op = "message"
          /\ UNCHANGED <<input, outcome>>
      BY <1>7, <2>2, <3>1, <3>2 DEF HandleUserMessage, Goto
    <3>10. {[sequence |-> n, role |-> "user", by |-> r],
           [sequence |-> n + 1, role |-> "assistant", by |-> r]}
              \subseteq answered.messages
      BY <3>6, <3>7
    <3> QED
      BY <1>5, <3>8, <3>9, <3>10
  <2> QED
    BY <2>1, <2>2
<1>8. CASE HandleTransition(r)
  <2>1. CASE ~CanTransition(entity[r], input[r].target)
    BY <1>4, <1>8, <2>1 DEF HandleTransition
  <2>2. CASE CanTransition(entity[r], input[r].target)
    <3>1. PICK moved : moved = TransitionTo(entity[r], input[r].target, now)
      OBVIOUS
    <3>2. input[r].target \in SessionState
      <4>1. entity[r].state \in SessionState
        BY <1>3 DEF Sound, Session
      <4> QED
        BY <2>2, <4>1, TransitionsType DEF CanTransition
    <3>3. Sound(moved) /\ moved.messages = entity[r].messages
      BY <1>1, <1>3, <3>1, <3>2, TransitionToIsSound
    <3>4. moved # NULL
      BY <3>3, StoreAssumption DEF Sound
    <3>5. /\ entity' = [entity EXCEPT ![r] = moved]
          /\ pc' = [pc EXCEPT ![r] = "check"]
          /\ input[r].op = "transition"
          /\ UNCHANGED <<input, outcome>>
      BY <1>8, <2>2, <3>1 DEF HandleTransition, Goto
    <3> QED
      BY <1>3, <1>5, <3>3, <3>4, <3>5
  <2> QED
    BY <2>1, <2>2
<1> QED
  BY <1>6, <1>7, <1>8

\* save() and add() up to the cache write leave the entity alone.
LEMMA SaveQuiet ==
    ASSUME StoreInv, ConversationInv, OutboxInv, CommitFirst, NEW r \in Requests,
           \/ CheckRevision(r) \/ InvalidateStale(r) \/ SelectMaxSequence(r)
           \/ Flush(r) \/ WriteCache(r)
    PROVE  Quiet(r)
<1>1. TypeOK /\ Copies(r)
  BY SaveCopies, FlushCopies DEF StoreInv
<1>2. input = [input EXCEPT ![r] = input[r]]
  BY <1>1 DEF TypeOK
<1>3. /\ pc[r] \in Open /\ pc[r] \notin {"done", "commit"}
      /\ \/ /\ pc[r] # "writecache"
            /\ \E code \in {"STALE_REVISION", "SESSION_ALREADY_EXISTS",
                            "INTERNAL_ERROR"} : Finish(r, code)
         \/ \E label \in {"invalidate", "maxseq", "flush", "writecache",
                          "commit"} :
                /\ pc' = [pc EXCEPT ![r] = label]
                /\ UNCHANGED <<input, outcome, entity>>
  <2>1. CASE CheckRevision(r) \/ InvalidateStale(r) \/ SelectMaxSequence(r)
    BY <2>1 DEF CheckRevision, InvalidateStale, SelectMaxSequence, Goto, memory,
                Open, Drafting
  <2>2. CASE Flush(r) \/ WriteCache(r)
    BY <2>2 DEF Flush, WriteCache, Goto, memory, Open, Drafting
  <2> QED
    BY <2>1, <2>2
<1>4. ASSUME NEW code \in {"STALE_REVISION", "SESSION_ALREADY_EXISTS",
                           "INTERNAL_ERROR"}, Finish(r, code),
             pc[r] # "writecache"
      PROVE  Quiet(r)
  BY <1>1, <1>3, <1>4, FinishQuiet
<1>5. ASSUME NEW label \in {"invalidate", "maxseq", "flush", "writecache",
                            "commit"},
             pc' = [pc EXCEPT ![r] = label],
             UNCHANGED <<input, outcome, entity>>
      PROVE  Quiet(r)
  <2>1. Moves(r, label, input[r])
    BY <1>2, <1>3, <1>5 DEF Moves
  <2>2. label \in Open /\ entity'[r] = entity[r] /\ label \notin {"done", "respond"}
    BY <1>5 DEF Open, Drafting
  <2> QED
    BY <1>1, <1>3, <2>1, <2>2, MoveQuiet
<1> QED
  BY <1>3, <1>4, <1>5

LEMMA EndQuiet ==
    ASSUME StoreInv, ConversationInv, OutboxInv, CommitFirst, NEW r \in Requests,
           \/ Respond(r)
           \/ CacheGetFails(r) \/ DeserializeFails(r) \/ QueryFails(r)
    PROVE  Quiet(r)
<1>1. Copies(r)
  BY FlushCopies, FailureCopies
<1>2. PICK code \in {"ok", "INTERNAL_ERROR", "INVALID_MESSAGE"} :
          /\ Finish(r, code)
          /\ pc[r] \notin {"done", "writecache", "commit"}
          /\ code = "ok" => pc[r] = "respond"
  BY DEF Respond, CacheGetFails, DeserializeFails, QueryFails
<1> QED
  BY <1>1, <1>2, FinishQuiet

-----------------------------------------------------------------------------
(* The commit. *)

\* The events of a request go with its messages.
LEMMA AppliedTells ==
    ASSUME StoreInv, OutboxInv, NEW r \in Requests,
           pc[r] = "commit", ApplyTransaction(r)
    PROVE  /\ \A m \in Messages(entity[r]) : m.by = r => Told(m)'
           /\ input[r].op = "message" => TurnIsTold(r)'
<1>1. entity[r] # NULL /\ Messages(entity[r]) = entity[r].messages
  BY DEF StoreInv, RequestInv, Consistent, Holds, Messages
<1>2. TurnIn(entity[r], input[r].op, r)
  BY DEF OutboxInv, HasTurn, Open
<1>3. outbox' = outbox \cup EventsOf(r)
  BY DEF ApplyTransaction
<1>4. ASSUME input[r].op = "message", NEW m \in Messages(entity[r]), m.by = r
      PROVE  AppendedEvent(r, m.sequence) \in outbox'
  <2>1. EventsOf(r) = {AppendedEvent(r, n.sequence) :
                           n \in {n \in entity[r].messages : n.by = r}}
    BY <1>4 DEF EventsOf, AppendedEvent
  <2> QED
    BY <1>1, <1>3, <1>4, <2>1
<1>5. \A m \in Messages(entity[r]) : m.by = r => Told(m)'
  BY <1>2, <1>4 DEF TurnIn, Told
<1>6. ASSUME input[r].op = "message" PROVE TurnIsTold(r)'
  <2>1. PICK n \in Nat :
            {[sequence |-> n, role |-> "user", by |-> r],
             [sequence |-> n + 1, role |-> "assistant", by |-> r]}
                \subseteq Messages(entity[r])
    BY <1>2, <1>6 DEF TurnIn
  <2>2. PICK asked : asked = [sequence |-> n, role |-> "user", by |-> r]
    OBVIOUS
  <2>3. PICK told : told = [sequence |-> n + 1, role |-> "assistant", by |-> r]
    OBVIOUS
  <2>4. /\ asked \in Messages(entity[r]) /\ asked.by = r /\ asked.sequence = n
        /\ told \in Messages(entity[r]) /\ told.by = r /\ told.sequence = n + 1
    BY <2>1, <2>2, <2>3
  <2>5. AppendedEvent(r, n) \in outbox' /\ AppendedEvent(r, n + 1) \in outbox'
    BY <1>4, <1>6, <2>4
  <2>6. AppendedEvent(r, n).sequence = n
    BY DEF AppendedEvent
  <2> QED
    BY <2>5, <2>6 DEF TurnIsTold
<1> QED
  BY <1>5, <1>6

\* Whose messages are in an entity about to be committed is the committer, or over.
LEMMA OthersAreOver ==
    ASSUME StoreInv, ConversationInv, OutboxInv, NEW r \in Requests,
           pc[r] = "commit", NEW m \in Messages(entity[r]), m.by # r
    PROVE  Told(m) \/ Lost(m.by)
<1>1. m \in Everywhere
  BY DEF Everywhere
<1>2. m.by \in Requests
  BY <1>1, EverywhereType
<1>3. pc[m.by] \notin Drafting
  BY <1>2 DEF ConversationInv, Traceless, Early, NoTrace
<1>4. ~Holds(pc[m.by])
  <2>1. Holds(pc[r])
    BY DEF Holds
  <2>2. \A q \in Requests : lock = q <=> Holds(pc[q])
    BY DEF StoreInv, RequestInv, Consistent
  <2> QED
    BY <1>2, <2>1, <2>2
<1>5. pc[m.by] \notin Open
  BY <1>3, <1>4 DEF Open, Holds
<1> QED
  BY <1>1, <1>5 DEF OutboxInv

LEMMA CommitTells ==
    ASSUME StoreInv, ConversationInv, OutboxInv, CommitFirst, NEW r \in Requests,
           Commit(r) \/ CommitFails(r)
    PROVE  OutboxInv'
<1>1. TypeOK /\ pc[r] = "commit" /\ Holds(pc[r]) /\ pc[r] \in Open
  BY DEF StoreInv, Commit, CommitFails, Holds, Open
<1>2. /\ UNCHANGED <<cache, input>>
      /\ OthersWait(r)
      /\ entity'[r] \in {NULL, entity[r]} /\ loaded'[r] \in {NULL, loaded[r]}
      /\ pc'[r] \in {"respond", "done"}
  <2>1. \/ Finish(r, "INTERNAL_ERROR")
        \/ Goto(r, "respond") /\ UNCHANGED <<memory, outcome>>
    BY DEF Commit, CommitFails
  <2> QED
    BY <1>1, <2>1 DEF Finish, Goto, memory, OthersWait, TypeOK,
                      Commit, CommitFails
<1>3. \/ /\ ApplyTransaction(r)
         /\ (Answered(r) => input[r].op = "message")'
      \/ Lost(r)' /\ UNCHANGED <<stored, outbox>>
  BY <1>1 DEF Commit, CommitFails, Finish, Goto, TypeOK, OutboxInv, Lost, Answered
<1>4. (pc[r] # "done" => outcome[r] = "none")' /\ outcome[r] = "none"
  BY <1>1 DEF Commit, CommitFails, Finish, Goto, TypeOK, OutboxInv
<1>5. outbox \subseteq outbox'
  BY <1>3 DEF ApplyTransaction
<1>6. Messages(stored') \subseteq Messages(stored) \cup Messages(entity[r])
  BY <1>1, <1>3, CommittedIsPaired
<1>7. Everywhere' \subseteq Everywhere
  <2>1. /\ Messages(entity'[r]) \in {{}, Messages(entity[r])}
        /\ Messages(loaded'[r]) \in {{}, Messages(loaded[r])}
        /\ Cached' = Cached
    BY <1>2 DEF Messages, Cached
  <2> QED
    BY <1>2, <1>6, <2>1 DEF Everywhere, OthersWait
<1>8. \A m : Told(m) => Told(m)'
  BY <1>5 DEF Told
<1>9. \A v \in Requests \ {r} :
          /\ Lost(v)' <=> Lost(v)
          /\ pc'[v] = pc[v]
          /\ outcome'[v] = outcome[v]
          /\ Answered(v)' <=> Answered(v)
          /\ TurnIsTold(v) => TurnIsTold(v)'
          /\ HasTurn(v)' <=> HasTurn(v)
          /\ entity'[v] = entity[v]
  BY <1>2, <1>5 DEF OthersWait, Lost, Answered, TurnIsTold, HasTurn
<1>10. ASSUME NEW m \in Everywhere, m.by = r PROVE Told(m)' \/ Lost(r)'
  <2>1. m \in Messages(entity[r])
    BY <1>1, <1>10 DEF OutboxInv
  <2> QED
    BY <1>1, <1>3, <1>10, <2>1, AppliedTells
<1>11. \A m \in Everywhere : m.by \in Requests
  BY EverywhereType
<1>12. ASSUME NEW m \in Everywhere'
       PROVE  Told(m)' \/ Lost(m.by)' \/ pc'[m.by] \in Open
  <2>1. m \in Everywhere /\ m.by \in Requests
    BY <1>7, <1>11
  <2>2. m.by # r => Told(m) \/ Lost(m.by) \/ pc[m.by] \in Open
    BY <2>1 DEF OutboxInv
  <2> QED
    BY <1>8, <1>9, <1>10, <2>1, <2>2
<1>13. ASSUME NEW m \in Messages(stored') PROVE Told(m)' \/ Lost(m.by)'
  <2>1. m \in Everywhere /\ m.by \in Requests
    BY <1>6, <1>11 DEF Everywhere
  <2>2. m.by # r => Told(m) \/ Lost(m.by)
    BY <1>1, <1>6, OthersAreOver DEF OutboxInv
  <2> QED
    BY <1>8, <1>9, <1>10, <2>1, <2>2
<1>14. ASSUME NEW v \in Requests \ {r}
       PROVE  /\ (pc[v] # "done" => outcome[v] = "none")'
              /\ pc'[v] \in Open =>
                     /\ HasTurn(v)'
                     /\ \A m \in Everywhere' : m.by = v => m \in Messages(entity'[v])
              /\ (Answered(v) => TurnIsTold(v))'
  BY <1>7, <1>9 DEF OutboxInv
<1>15. pc'[r] \notin Open
  BY <1>2 DEF Open, Drafting
<1>16. (Answered(r) => TurnIsTold(r))'
  <2>1. CASE ApplyTransaction(r)
    BY <1>1, <1>2, <2>1, AppliedTells DEF Answered
  <2>2. CASE Lost(r)' /\ UNCHANGED <<stored, outbox>>
    <3>1. outcome'[r] # "none" /\ outcome'[r] # "ok"
      BY <2>2 DEF Lost
    <3> QED
      BY <1>4, <3>1 DEF Answered
  <2> QED
    BY <1>3, <2>1, <2>2
<1> QED
  BY <1>4, <1>12, <1>13, <1>14, <1>15, <1>16 DEF OutboxInv

-----------------------------------------------------------------------------
(* Crashes, the cache and the clock. *)

LEMMA CrashTells ==
    ASSUME StoreInv, OutboxInv, Crash
    PROVE  OutboxInv'
<1>1. /\ pc' = [r \in Requests |-> IF InFlight(r) THEN "done" ELSE pc[r]]
      /\ outcome' = [r \in Requests |->
                        IF r \in Unanswered THEN "DISCONNECTED" ELSE outcome[r]]
      /\ entity' = [r \in Requests |-> NULL]
      /\ loaded' = [r \in Requests |-> NULL]
      /\ UNCHANGED <<stored, outbox, cache, input>>
  BY DEF Crash
<1>2. Cached' = Cached /\ Messages(NULL) = {}
  BY <1>1 DEF Cached, Messages
<1>3. Everywhere' \subseteq Everywhere
  BY <1>1, <1>2 DEF Everywhere
<1>4. \A m : Told(m)' <=> Told(m)
  BY <1>1 DEF Told
<1>5. ASSUME NEW v \in Requests
      PROVE  /\ pc[v] \in Open \/ Lost(v) => Lost(v)'
             /\ pc'[v] \notin Open
             /\ (pc[v] # "done" => outcome[v] = "none")'
             /\ Answered(v)' => Answered(v)
  <2>1. "idle" \notin Open /\ "done" \notin Open
    BY DEF Open, Drafting
  <2>2. pc'[v] = IF InFlight(v) THEN "done" ELSE pc[v]
    BY <1>1
  <2>3. outcome'[v] = IF v \in Unanswered THEN "DISCONNECTED" ELSE outcome[v]
    BY <1>1
  <2>4. pc[v] # "done" => outcome[v] = "none"
    BY DEF OutboxInv
  <2>5. v \in Unanswered <=> InFlight(v)
    BY <2>4 DEF Unanswered, InFlight
  <2> QED
    BY <1>1, <2>1, <2>2, <2>3, <2>4, <2>5 DEF Lost, Answered, InFlight
<1>6. \A m \in Everywhere : m.by \in Requests
  BY EverywhereType
<1>7. \A m \in Everywhere' : Told(m)' \/ Lost(m.by)'
  <2> SUFFICES ASSUME NEW m \in Everywhere' PROVE Told(m)' \/ Lost(m.by)'
    OBVIOUS
  <2>1. m \in Everywhere /\ m.by \in Requests
    BY <1>3, <1>6
  <2>2. Told(m) \/ Lost(m.by) \/ pc[m.by] \in Open
    BY <2>1 DEF OutboxInv
  <2> QED
    BY <1>4, <1>5, <2>1, <2>2
<1>8. Messages(stored') \subseteq Everywhere'
  BY DEF Everywhere
<1>9. \A v \in Requests : (Answered(v) => TurnIsTold(v))'
  BY <1>1, <1>5 DEF OutboxInv, TurnIsTold
<1> QED
  BY <1>5, <1>7, <1>8, <1>9 DEF OutboxInv

LEMMA EnvironmentTells ==
    ASSUME OutboxInv, LoseCacheEntry \/ Tick \/ UNCHANGED vars
    PROVE  OutboxInv'
<1>1. /\ UNCHANGED <<stored, outbox, pc, input, entity, loaded, outcome>>
      /\ cache' \in {cache, NULL}
  BY DEF LoseCacheEntry, Tick, vars, database, memory
<1>2. Cached' \in {{}, Cached}
  BY <1>1 DEF Cached
<1>3. Everywhere' \subseteq Everywhere
  BY <1>1, <1>2 DEF Everywhere
<1>4. /\ \A m : Told(m)' <=> Told(m)
      /\ \A v : /\ Lost(v)' <=> Lost(v)
                /\ HasTurn(v)' <=> HasTurn(v)
                /\ Answered(v)' <=> Answered(v)
                /\ TurnIsTold(v)' <=> TurnIsTold(v)
  BY <1>1 DEF Told, Lost, HasTurn, Answered, TurnIsTold
<1>5. Messages(stored') = Messages(stored)
  BY <1>1
<1> QED
  BY <1>1, <1>3, <1>4, <1>5 DEF OutboxInv

-----------------------------------------------------------------------------
(* The theorems. *)

LEMMA InitOutbox == Init => OutboxInv
<1> SUFFICES ASSUME Init PROVE OutboxInv
  OBVIOUS
<1>1. /\ Messages(stored) = {} /\ Cached = {}
      /\ \A q \in Requests : Messages(entity[q]) = {} /\ Messages(loaded[q]) = {}
  BY DEF Init, Messages, Cached
<1>2. Everywhere = {}
  BY <1>1 DEF Everywhere
<1>3. \A q \in Requests : pc[q] = "idle" /\ outcome[q] = "none"
  BY DEF Init
<1> QED
  BY <1>1, <1>2, <1>3 DEF OutboxInv, Open, Drafting, Answered

LEMMA NextOutbox ==
    CommitFirst /\ StoreInv /\ ConversationInv /\ OutboxInv /\ [Next]_vars
        => OutboxInv'
<1> SUFFICES ASSUME CommitFirst, StoreInv, ConversationInv, OutboxInv, [Next]_vars
             PROVE  OutboxInv'
  OBVIOUS
<1>1. ASSUME NEW r \in Requests, Arrive(r) PROVE OutboxInv'
  BY <1>1, ArriveQuiet, QuietKeeps
<1>2. ASSUME NEW r \in Requests, Serve(r) PROVE OutboxInv'
  <2>1. CASE Commit(r)
    BY <2>1, CommitTells
  <2>2. CASE ~Commit(r)
    <3>1. Quiet(r)
      BY <1>2, <2>2, GetQuiet, HandleQuiet, SaveQuiet, EndQuiet DEF Serve
    <3> QED
      BY <3>1, QuietKeeps
  <2> QED
    BY <2>1, <2>2
<1>3. ASSUME NEW r \in Requests, Disturb(r) PROVE OutboxInv'
  <2>1. CASE CommitFails(r)
    BY <2>1, CommitTells
  <2>2. CASE ~CommitFails(r)
    <3>1. Quiet(r)
      BY <1>3, <2>2, GetQuiet, EndQuiet DEF Disturb
    <3> QED
      BY <3>1, QuietKeeps
  <2> QED
    BY <2>1, <2>2
<1>4. CASE Crash
  BY <1>4, CrashTells
<1>5. CASE LoseCacheEntry \/ Tick \/ AllServed \/ UNCHANGED vars
  BY <1>5, EnvironmentTells DEF AllServed
<1> QED
  BY <1>1, <1>2, <1>3, <1>4, <1>5 DEF Next

LEMMA AlwaysOutbox == CommitFirst => (Spec => []OutboxInv)
<1> SUFFICES ASSUME CommitFirst PROVE Spec => []OutboxInv
  OBVIOUS
<1>1. Init => OutboxInv
  BY InitOutbox
<1>2. StoreInv /\ ConversationInv /\ OutboxInv /\ [Next]_vars => OutboxInv'
  BY NextOutbox
<1> QED
  BY <1>1, <1>2, AlwaysStore, AlwaysConversation, PTL DEF Spec

\* Whoever is told that a message was answered finds both of its events in the
\* outbox, whatever other clients did to the session and whatever failed.
THEOREM AnswersAreTold == CommitFirst => (Spec => []AnsweredTurnsAreTold)
<1> SUFFICES ASSUME CommitFirst PROVE Spec => []AnsweredTurnsAreTold
  OBVIOUS
<1>1. OutboxInv => AnsweredTurnsAreTold
  BY DEF OutboxInv, Answered, TurnIsTold, AnsweredTurnsAreTold
<1> QED
  BY <1>1, AlwaysOutbox, PTL

\* A stored message without an event belongs to a request whose client was told
\* that it failed.
THEOREM StoredIsTold == CommitFirst => (Spec => []StoredMessagesAreTold)
<1> SUFFICES ASSUME CommitFirst PROVE Spec => []StoredMessagesAreTold
  OBVIOUS
<1>1. OutboxInv => StoredMessagesAreTold
  BY DEF OutboxInv, Told, Lost, Messages, StoredMessagesAreTold
<1> QED
  BY <1>1, AlwaysOutbox, PTL
=============================================================================
