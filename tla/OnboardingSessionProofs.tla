----------------------- MODULE OnboardingSessionProofs -----------------------
(***************************************************************************)
(* Lemmas about the commands of the aggregate, for any session: what they  *)
(* return is a session, its messages are finite and numbered 0, 1, 2, ..., *)
(* its revision and deadline move as the code says, and it moved along the *)
(* transition table or kept its state and milestones (Effect).             *)
(***************************************************************************)
EXTENDS OnboardingSession, FiniteSetTheorems, TLAPS

\* A session as the code can hold one: a list of messages is finite, and its
\* elements are numbered by their position.
Sound(s) ==
    /\ s \in Session
    /\ IsFiniteSet(s.messages)
    /\ IsNumbered(s.messages)

-----------------------------------------------------------------------------
\* A state of the transition table leads to states only.
LEMMA TransitionsType ==
    ASSUME NEW s \in SessionState
    PROVE  AllowedTransitions[s] \subseteq SessionState
  BY DEF AllowedTransitions, SessionState, TerminalStates

\* create() returns a session.
LEMMA NewSessionIsSound ==
    ASSUME NEW now \in Time
    PROVE  Sound(NewSession(now))
<1>1. NewSession(now) \in Session
  BY TtlAssumption DEF NewSession, Session, SessionState, Time, NoTime, NoStep
<1>2. NewSession(now).messages = {}
  BY DEF NewSession
<1>3. IsFiniteSet({}) /\ Cardinality({}) = 0
  BY FS_EmptySet
<1>4. IsNumbered({})
  BY <1>3 DEF IsNumbered
<1> QED
  BY <1>1, <1>2, <1>3, <1>4 DEF Sound

\* _bump_activity keeps a session a session and its messages as they are.
LEMMA BumpActivityIsSound ==
    ASSUME NEW s, Sound(s), NEW now \in Time
    PROVE  /\ Sound(BumpActivity(s, now))
           /\ BumpActivity(s, now).messages = s.messages
           /\ BumpActivity(s, now).state = s.state
           /\ BumpActivity(s, now).revision = s.revision + 1
<1>1. s \in Session /\ IsFiniteSet(s.messages) /\ IsNumbered(s.messages)
  BY DEF Sound
<1>2. /\ now \in Nat
      /\ now + Ttl \in Nat
      /\ s.revision + 1 \in Nat
      /\ s.expires_at \in Nat
  BY <1>1, TtlAssumption DEF Session, Time
<1>3. BumpActivity(s, now) \in Session
  BY <1>1, <1>2 DEF BumpActivity, Session, Time
<1>4. /\ BumpActivity(s, now).messages = s.messages
      /\ BumpActivity(s, now).state = s.state
      /\ BumpActivity(s, now).revision = s.revision + 1
  BY <1>1 DEF BumpActivity, Session
<1> QED
  BY <1>1, <1>3, <1>4 DEF Sound

\* So does transition_to, which ends in the target state.
LEMMA TransitionToIsSound ==
    ASSUME NEW s, Sound(s), NEW now \in Time, NEW target \in SessionState
    PROVE  /\ Sound(TransitionTo(s, target, now))
           /\ TransitionTo(s, target, now).messages = s.messages
           /\ TransitionTo(s, target, now).state = target
           /\ TransitionTo(s, target, now).revision = s.revision + 1
<1> DEFINE moved ==
        [s EXCEPT
            !.confirmed_at = IF target = "awaiting_confirmation" THEN now ELSE @,
            !.submitted_at = IF target = "submitted" THEN now ELSE @,
            !.completed_at = IF target = "completed" THEN now ELSE @,
            !.state = target]
<1>1. /\ moved \in Session
      /\ moved.messages = s.messages
      /\ moved.state = target
      /\ moved.revision = s.revision
  BY DEF Sound, Session, Time
<1>2. Sound(moved)
  BY <1>1 DEF Sound
<1> HIDE DEF moved
<1>3. TransitionTo(s, target, now) = BumpActivity(moved, now)
  BY DEF TransitionTo, moved
<1> QED
  BY <1>1, <1>2, <1>3, BumpActivityIsSound

LEMMA AutoAdvanceIsSound ==
    ASSUME NEW s, Sound(s), NEW now \in Time, NEW role
    PROVE  /\ Sound(AutoAdvance(s, role, now))
           /\ AutoAdvance(s, role, now).messages = s.messages
           /\ AutoAdvance(s, role, now).revision >= s.revision
           /\ AutoAdvance(s, role, now) = s
                \/ AutoAdvance(s, role, now).revision > s.revision
<1>1. "in_progress" \in SessionState
  BY DEF SessionState
<1>2. s.revision \in Nat
  BY DEF Sound, Session
<1>3. CASE s.state = "new" /\ role = "user"
  BY <1>1, <1>2, <1>3, TransitionToIsSound DEF AutoAdvance
<1>4. CASE ~(s.state = "new" /\ role = "user")
  BY <1>2, <1>4 DEF AutoAdvance
<1> QED
  BY <1>3, <1>4

\* One more message, numbered by the length of the list, keeps the numbering.
LEMMA OneMoreIsNumbered ==
    ASSUME NEW messages \in SUBSET Message, IsFiniteSet(messages),
           IsNumbered(messages),
           NEW m \in Message, m.sequence = Cardinality(messages)
    PROVE  /\ IsFiniteSet(messages \cup {m})
           /\ Cardinality(messages \cup {m}) = Cardinality(messages) + 1
           /\ IsNumbered(messages \cup {m})
<1>1. Cardinality(messages) \in Nat
  BY FS_CardinalityType
<1>2. m \notin messages
  BY <1>1 DEF IsNumbered
<1>3. /\ IsFiniteSet(messages \cup {m})
      /\ Cardinality(messages \cup {m}) = Cardinality(messages) + 1
  BY <1>2, FS_AddElement
<1>4. {x.sequence : x \in messages \cup {m}}
        = {x.sequence : x \in messages} \cup {Cardinality(messages)}
  OBVIOUS
<1>5. 0 .. (Cardinality(messages) + 1) - 1
        = (0 .. Cardinality(messages) - 1) \cup {Cardinality(messages)}
  BY <1>1
<1> QED
  BY <1>3, <1>4, <1>5 DEF IsNumbered

\* append_message adds one message, next in number.
LEMMA AppendMessageIsSound ==
    ASSUME NEW s, Sound(s), NEW now \in Time, NEW role \in MessageRole,
           NEW by \in Requests
    PROVE  /\ Sound(AppendMessage(s, role, by, now))
           /\ AppendMessage(s, role, by, now).messages =
                s.messages \cup {[sequence |-> Cardinality(s.messages),
                                  role |-> role, by |-> by]}
           /\ Cardinality(AppendMessage(s, role, by, now).messages)
                = Cardinality(s.messages) + 1
           /\ AppendMessage(s, role, by, now).revision > s.revision
<1> DEFINE advanced == AutoAdvance(s, role, now)
           message == [sequence |-> Cardinality(s.messages),
                       role |-> role, by |-> by]
           appended == [advanced EXCEPT !.messages = @ \cup {message}]
<1>1. /\ Sound(advanced)
      /\ advanced.messages = s.messages
      /\ advanced.revision >= s.revision
  BY AutoAdvanceIsSound
<1> HIDE DEF advanced
<1>2. message \in Message
  BY FS_CardinalityType DEF Sound, Message
<1>3. /\ IsFiniteSet(s.messages \cup {message})
      /\ Cardinality(s.messages \cup {message}) = Cardinality(s.messages) + 1
      /\ IsNumbered(s.messages \cup {message})
  <2>1. s.messages \in SUBSET Message
    BY DEF Sound, Session
  <2>2. message.sequence = Cardinality(s.messages)
    OBVIOUS
  <2> HIDE DEF message
  <2> QED
    BY <2>1, <2>2, <1>2, OneMoreIsNumbered DEF Sound
<1> HIDE DEF message
<1>4. /\ appended \in Session
      /\ appended.messages = s.messages \cup {message}
      /\ appended.revision = advanced.revision
  BY <1>1, <1>2 DEF Sound, Session
<1>5. Sound(appended)
  BY <1>3, <1>4 DEF Sound
<1> HIDE DEF appended
<1>6. AppendMessage(s, role, by, now) = BumpActivity(appended, now)
  BY <1>1 DEF AppendMessage, NextMessageSequence, advanced, message, appended
<1>7. s.revision \in Nat /\ advanced.revision \in Nat
  BY <1>1 DEF Sound, Session
<1>8. /\ Sound(AppendMessage(s, role, by, now))
      /\ AppendMessage(s, role, by, now).messages = s.messages \cup {message}
      /\ AppendMessage(s, role, by, now).revision = appended.revision + 1
  BY <1>4, <1>5, <1>6, BumpActivityIsSound
<1>9. AppendMessage(s, role, by, now).revision > s.revision
  BY <1>1, <1>4, <1>7, <1>8
<1> QED
  BY <1>3, <1>8, <1>9 DEF message

\* A new session that is greeted has that message, number 0, and no other.
LEMMA GreetingIsSound ==
    ASSUME NEW now \in Time, NEW by \in Requests
    PROVE  /\ Sound(AppendMessage(NewSession(now), "assistant", by, now))
           /\ AppendMessage(NewSession(now), "assistant", by, now).messages =
                {[sequence |-> 0, role |-> "assistant", by |-> by]}
<1>1. PICK new : new = NewSession(now)
  OBVIOUS
<1>2. PICK role : role = "assistant"
  OBVIOUS
<1>3. role \in MessageRole
  BY <1>2 DEF MessageRole
<1>4. Sound(new)
  BY <1>1, NewSessionIsSound
<1>5. new.messages = {} /\ Cardinality({}) = 0
  BY <1>1, FS_EmptySet DEF NewSession
<1>6. /\ Sound(AppendMessage(new, role, by, now))
      /\ AppendMessage(new, role, by, now).messages = new.messages \cup
           {[sequence |-> Cardinality(new.messages), role |-> role, by |-> by]}
  BY <1>3, <1>4, AppendMessageIsSound
<1> QED
  BY <1>1, <1>2, <1>5, <1>6

LEMMA UpdateCurrentStepIsSound ==
    ASSUME NEW s, Sound(s), NEW now \in Time, NEW step \in Steps \cup {NoStep}
    PROVE  /\ Sound(UpdateCurrentStep(s, step, now))
           /\ UpdateCurrentStep(s, step, now).revision > s.revision
<1> DEFINE stepped == [s EXCEPT !.current_step = step]
<1>1. Sound(stepped) /\ stepped.revision = s.revision /\ s.revision \in Nat
  BY DEF Sound, Session
<1> HIDE DEF stepped
<1>2. UpdateCurrentStep(s, step, now) = BumpActivity(stepped, now)
  BY DEF UpdateCurrentStep, stepped
<1> QED
  BY <1>1, <1>2, BumpActivityIsSound

LEMMA ExtendTtlIsSound ==
    ASSUME NEW s, Sound(s), NEW now \in Time
    PROVE  /\ Sound(ExtendTtl(s, now))
           /\ ExtendTtl(s, now) = s \/ ExtendTtl(s, now).revision > s.revision
<1>1. CASE IsTerminal(s)
  BY <1>1 DEF ExtendTtl
<1>2. CASE ~IsTerminal(s)
  <2> DEFINE extended == [s EXCEPT !.expires_at = now + Ttl]
  <2>1. Sound(extended) /\ extended.revision = s.revision /\ s.revision \in Nat
    BY TtlAssumption DEF Sound, Session, Time
  <2> HIDE DEF extended
  <2>2. ExtendTtl(s, now) = BumpActivity(extended, now)
    BY <1>2 DEF ExtendTtl, extended
  <2> QED
    BY <2>1, <2>2, BumpActivityIsSound
<1> QED
  BY <1>1, <1>2

-----------------------------------------------------------------------------
(* What a command does to the state, the milestones and the deadline: it    *)
(* moves along the transition table, or keeps them.                        *)

\* What a command made of s, at time t, gives u: `Moved' along the table, or not.
Moved(s, t, u) ==
    \E target \in SessionState :
        /\ CanTransition(s, target)
        /\ u.state = target
        /\ u.confirmed_at =
               IF target = "awaiting_confirmation" THEN t ELSE s.confirmed_at
        /\ u.submitted_at = IF target = "submitted" THEN t ELSE s.submitted_at
        /\ u.completed_at = IF target = "completed" THEN t ELSE s.completed_at
        /\ u.expires_at =
               IF target \in TerminalStates THEN s.expires_at ELSE t + Ttl

Kept(s, t, u) ==
    /\ u.state = s.state
    /\ u.confirmed_at = s.confirmed_at
    /\ u.submitted_at = s.submitted_at
    /\ u.completed_at = s.completed_at
    /\ u.expires_at = t + Ttl

Effect(s, t, u) ==
    /\ ~IsTerminal(s)
    /\ Sound(u)
    /\ u.revision > s.revision
    /\ u.last_active_at = t
    /\ Moved(s, t, u) \/ Kept(s, t, u)

LEMMA TransitionToEffect ==
    ASSUME NEW s, Sound(s), NEW t \in Time, NEW target \in SessionState,
           CanTransition(s, target)
    PROVE  Effect(s, t, TransitionTo(s, target, t))
<1> DEFINE u == TransitionTo(s, target, t)
<1>1. Sound(u) /\ u.state = target /\ u.revision = s.revision + 1
  BY TransitionToIsSound
<1>2. s.revision \in Nat
  BY DEF Sound, Session
<1>3. /\ u.last_active_at = t
      /\ u.confirmed_at =
             IF target = "awaiting_confirmation" THEN t ELSE s.confirmed_at
      /\ u.submitted_at = IF target = "submitted" THEN t ELSE s.submitted_at
      /\ u.completed_at = IF target = "completed" THEN t ELSE s.completed_at
      /\ u.expires_at =
             IF target \in TerminalStates THEN s.expires_at ELSE t + Ttl
  BY DEF TransitionTo, BumpActivity, IsTerminal, Sound, Session
<1>4. ~IsTerminal(s)
  BY DEF CanTransition
<1>5. Moved(s, t, u)
  BY <1>1, <1>3 DEF Moved
<1> HIDE DEF u
<1>6. u.revision > s.revision
  BY <1>1, <1>2
<1>7. Effect(s, t, u)
  BY <1>1, <1>3, <1>4, <1>5, <1>6 DEF Effect
<1> QED
  BY <1>7 DEF u

\* An activity that only adds messages or sets the step keeps the rest.
LEMMA BumpActivityEffect ==
    ASSUME NEW s, Sound(s), NEW t \in Time, ~IsTerminal(s), NEW v, Sound(v),
           v.state = s.state, v.revision = s.revision,
           v.confirmed_at = s.confirmed_at, v.submitted_at = s.submitted_at,
           v.completed_at = s.completed_at
    PROVE  Effect(s, t, BumpActivity(v, t)) /\ Kept(s, t, BumpActivity(v, t))
<1> DEFINE u == BumpActivity(v, t)
<1>1. Sound(u) /\ u.state = v.state /\ u.revision = v.revision + 1
  BY BumpActivityIsSound
<1>2. s.revision \in Nat
  BY DEF Sound, Session
<1>3. /\ u.last_active_at = t
      /\ u.confirmed_at = v.confirmed_at
      /\ u.submitted_at = v.submitted_at
      /\ u.completed_at = v.completed_at
      /\ u.expires_at = t + Ttl
  BY DEF BumpActivity, IsTerminal, Sound, Session
<1> HIDE DEF u
<1>4. Kept(s, t, u)
  BY <1>1, <1>3 DEF Kept
<1>5. u.revision > s.revision
  BY <1>1, <1>2
<1>6. Effect(s, t, u)
  BY <1>1, <1>3, <1>4, <1>5 DEF Effect
<1> QED
  BY <1>4, <1>6 DEF u

\* The advance of append_message moves to a state from which messages go on.
LEMMA AdvanceEffect ==
    ASSUME NEW s, Sound(s), NEW t \in Time, ~IsTerminal(s), NEW role
    PROVE  LET a == AutoAdvance(s, role, t)
           IN  /\ a = s \/ Effect(s, t, a)
               /\ a # s => a.state = "in_progress" /\ s.state = "new"
<1>1. CASE s.state = "new" /\ role = "user"
  <2>1. "in_progress" \in SessionState /\ "new" \in SessionState
    BY DEF SessionState
  <2>2. CanTransition(s, "in_progress")
    <3>1. "in_progress" \in AllowedTransitions["new"]
      BY <2>1 DEF AllowedTransitions, TerminalStates
    <3> QED
      BY <1>1, <3>1 DEF CanTransition
  <2>3. AutoAdvance(s, role, t) = TransitionTo(s, "in_progress", t)
    BY <1>1 DEF AutoAdvance
  <2>4. AutoAdvance(s, role, t).state = "in_progress"
    BY <2>1, <2>3, TransitionToIsSound
  <2> QED
    BY <1>1, <2>1, <2>2, <2>3, <2>4, TransitionToEffect
<1>2. CASE ~(s.state = "new" /\ role = "user")
  BY <1>2 DEF AutoAdvance
<1> QED
  BY <1>1, <1>2

LEMMA AppendMessageEffect ==
    ASSUME NEW s, Sound(s), NEW t \in Time, ~IsTerminal(s),
           NEW role \in MessageRole, NEW by \in Requests
    PROVE  /\ Effect(s, t, AppendMessage(s, role, by, t))
           /\ ~IsTerminal(AppendMessage(s, role, by, t))
<1> DEFINE a == AutoAdvance(s, role, t)
           message == [sequence |-> NextMessageSequence(a),
                       role |-> role, by |-> by]
           v == [a EXCEPT !.messages = @ \cup {message}]
           u == AppendMessage(s, role, by, t)
<1>1. u = BumpActivity(v, t)
  BY DEF AppendMessage
<1>2. Sound(u) /\ u.revision > s.revision
  BY AppendMessageIsSound
<1>3. Sound(a) /\ (a = s \/ Effect(s, t, a))
  <2>1. a = s \/ Effect(s, t, a)
    BY AdvanceEffect
  <2> QED
    BY <2>1 DEF Effect
<1>4. a # s => a.state = "in_progress" /\ s.state = "new"
  BY AdvanceEffect
<1>5. ~IsTerminal(a)
  BY <1>4 DEF IsTerminal, TerminalStates
<1> HIDE DEF a, u
<1>6. a \in Session
  BY <1>3 DEF Effect, Sound
<1>7. /\ v.state = a.state
      /\ v.confirmed_at = a.confirmed_at
      /\ v.submitted_at = a.submitted_at
      /\ v.completed_at = a.completed_at
  BY <1>6 DEF Session
<1>8. /\ u.last_active_at = t
      /\ u.state = a.state
      /\ u.confirmed_at = a.confirmed_at
      /\ u.submitted_at = a.submitted_at
      /\ u.completed_at = a.completed_at
      /\ u.expires_at = t + Ttl
  BY <1>1, <1>5, <1>6 DEF BumpActivity, IsTerminal, Session
<1>9. ASSUME a = s PROVE Effect(s, t, u)
  BY <1>2, <1>8, <1>9 DEF Effect, Kept
<1>10. ASSUME a # s PROVE Effect(s, t, u)
  <2>1. Effect(s, t, a) /\ a.state = "in_progress" /\ s.state = "new"
    BY <1>3, <1>4, <1>10
  <2>2. Moved(s, t, a)
    <3>1. ~Kept(s, t, a)
      BY <2>1 DEF Kept
    <3> QED
      BY <2>1, <3>1 DEF Effect
  <2>3. PICK target \in SessionState :
            /\ CanTransition(s, target)
            /\ a.state = target
            /\ a.confirmed_at = IF target = "awaiting_confirmation" THEN t
                                ELSE s.confirmed_at
            /\ a.submitted_at =
                   IF target = "submitted" THEN t ELSE s.submitted_at
            /\ a.completed_at =
                   IF target = "completed" THEN t ELSE s.completed_at
    BY <2>2 DEF Moved
  <2>4. target \notin TerminalStates
    BY <2>1, <2>3 DEF TerminalStates
  <2>5. Moved(s, t, u)
    BY <1>8, <2>3, <2>4 DEF Moved
  <2> QED
    BY <1>2, <1>8, <2>1, <2>5 DEF Effect
<1>11. Effect(s, t, u) /\ ~IsTerminal(u)
  BY <1>5, <1>8, <1>9, <1>10 DEF IsTerminal
<1> QED
  BY <1>11 DEF u

LEMMA UpdateCurrentStepEffect ==
    ASSUME NEW s, Sound(s), NEW t \in Time, ~IsTerminal(s),
           NEW step \in Steps \cup {NoStep}
    PROVE  Effect(s, t, UpdateCurrentStep(s, step, t))
<1> DEFINE v == [s EXCEPT !.current_step = step]
<1>1. /\ Sound(v)
      /\ v.state = s.state
      /\ v.revision = s.revision
      /\ v.confirmed_at = s.confirmed_at
      /\ v.submitted_at = s.submitted_at
      /\ v.completed_at = s.completed_at
  BY DEF Sound, Session
<1>2. UpdateCurrentStep(s, step, t) = BumpActivity(v, t)
  BY DEF UpdateCurrentStep
<1> HIDE DEF v
<1> QED
  BY <1>1, <1>2, BumpActivityEffect

LEMMA ExtendTtlEffect ==
    ASSUME NEW s, Sound(s), NEW t \in Time
    PROVE  ExtendTtl(s, t) = s \/ Effect(s, t, ExtendTtl(s, t))
<1>1. CASE IsTerminal(s)
  BY <1>1 DEF ExtendTtl
<1>2. CASE ~IsTerminal(s)
  <2> DEFINE v == [s EXCEPT !.expires_at = t + Ttl]
  <2>1. /\ Sound(v)
        /\ v.state = s.state
        /\ v.revision = s.revision
        /\ v.confirmed_at = s.confirmed_at
        /\ v.submitted_at = s.submitted_at
        /\ v.completed_at = s.completed_at
    BY TtlAssumption DEF Sound, Session, Time
  <2>2. ExtendTtl(s, t) = BumpActivity(v, t)
    BY <1>2 DEF ExtendTtl
  <2> HIDE DEF v
  <2> QED
    BY <1>2, <2>1, <2>2, BumpActivityEffect
<1> QED
  BY <1>1, <1>2

\* What the transition table says of the way to the milestones.
LEMMA TableFacts ==
    ASSUME NEW s \in Session, NEW target \in SessionState,
           CanTransition(s, target)
    PROVE  /\ target = "completed" => s.state = "submitted"
           /\ target = "submitted" => s.state = "awaiting_confirmation"
           /\ s.state = "submitted" => target \in {"completed", "failed"}
           /\ s.state \notin {"completed", "failed"}
<1>1. s.state \in SessionState \ TerminalStates
  BY DEF CanTransition, IsTerminal, Session
<1>2. target \in AllowedTransitions[s.state]
  BY DEF CanTransition
<1>3. CASE s.state = "new"
  BY <1>2, <1>3 DEF AllowedTransitions, SessionState, TerminalStates
<1>4. CASE s.state = "in_progress"
  BY <1>2, <1>4 DEF AllowedTransitions, SessionState, TerminalStates
<1>5. CASE s.state = "awaiting_confirmation"
  BY <1>2, <1>5 DEF AllowedTransitions, SessionState, TerminalStates
<1>6. CASE s.state = "submitted"
  BY <1>2, <1>6 DEF AllowedTransitions, SessionState, TerminalStates
<1>7. CASE s.state = "paused"
  BY <1>2, <1>7 DEF AllowedTransitions, SessionState, TerminalStates
<1>8. CASE s.state = "abandoned"
  BY <1>2, <1>8 DEF AllowedTransitions, SessionState, TerminalStates
<1> QED
  BY <1>1, <1>3, <1>4, <1>5, <1>6, <1>7, <1>8 DEF SessionState, TerminalStates

-----------------------------------------------------------------------------
(* A history of commands whose times never go back. *)

\* The milestones are those of the state, in order, the deadline is that of the
\* last activity; the last three conjuncts make this inductive.
Legal(s) ==
    /\ s.state = "completed" <=> s.completed_at # NoTime
    /\ s.completed_at # NoTime =>
           s.submitted_at # NoTime /\ s.submitted_at <= s.completed_at
    /\ s.submitted_at # NoTime =>
           /\ s.state \in {"submitted", "completed", "failed"}
           /\ s.confirmed_at # NoTime
           /\ s.confirmed_at <= s.submitted_at
    /\ ~IsTerminal(s) => s.expires_at = s.last_active_at + Ttl
    /\ s.state = "awaiting_confirmation" => s.confirmed_at # NoTime
    /\ s.state = "submitted" => s.submitted_at # NoTime
    /\ s.confirmed_at <= s.last_active_at /\ s.submitted_at <= s.last_active_at

LEMMA NewSessionIsLegal ==
    ASSUME NEW t \in Time
    PROVE  /\ Legal(NewSession(t))
           /\ NewSession(t).last_active_at = t
           /\ ~IsTerminal(NewSession(t))
  BY DEF NewSession, Legal, IsTerminal, TerminalStates, NoTime, Time

LEMMA EffectIsLegal ==
    ASSUME NEW s, Sound(s), Legal(s), NEW t \in Time, s.last_active_at <= t,
           NEW u, Effect(s, t, u)
    PROVE  Legal(u) /\ u.last_active_at = t
<1>1. s \in Session /\ u \in Session
  BY DEF Sound, Effect
<1>2. /\ s.last_active_at \in Nat /\ t \in Nat
      /\ s.confirmed_at \in Nat \cup {-1}
      /\ s.submitted_at \in Nat \cup {-1}
      /\ s.completed_at \in Nat \cup {-1}
  BY <1>1 DEF Session, Time, NoTime
<1>3. u.last_active_at = t /\ ~IsTerminal(s)
  BY DEF Effect
<1>4. CASE Kept(s, t, u)
  BY <1>2, <1>3, <1>4 DEF Kept, Legal, IsTerminal, NoTime
<1>5. CASE Moved(s, t, u)
  <2>1. PICK target \in SessionState :
          /\ CanTransition(s, target)
          /\ u.state = target
          /\ u.confirmed_at =
                 IF target = "awaiting_confirmation" THEN t ELSE s.confirmed_at
          /\ u.submitted_at = IF target = "submitted" THEN t ELSE s.submitted_at
          /\ u.completed_at = IF target = "completed" THEN t ELSE s.completed_at
          /\ u.expires_at =
                 IF target \in TerminalStates THEN s.expires_at ELSE t + Ttl
    BY <1>5 DEF Moved
  <2>2. /\ target = "completed" => s.state = "submitted"
        /\ target = "submitted" => s.state = "awaiting_confirmation"
        /\ s.state = "submitted" => target \in {"completed", "failed"}
        /\ s.state \notin {"completed", "failed"}
    BY <1>1, <2>1, TableFacts
  <2>3. s.completed_at = NoTime
    BY <2>2 DEF Legal
  <2>4. s.submitted_at # NoTime => target \in {"completed", "failed"}
    BY <2>2 DEF Legal
  <2>5. ~IsTerminal(u) => u.expires_at = t + Ttl
    BY <2>1 DEF IsTerminal
  <2>6. CASE target = "completed"
    BY <1>2, <1>3, <2>1, <2>2, <2>3, <2>5, <2>6 DEF Legal, NoTime
  <2>7. CASE target = "submitted"
    BY <1>2, <1>3, <2>1, <2>2, <2>3, <2>4, <2>5, <2>7 DEF Legal, NoTime
  <2>8. CASE target \notin {"completed", "submitted"}
    BY <1>2, <1>3, <2>1, <2>2, <2>3, <2>4, <2>5, <2>8 DEF Legal, NoTime
  <2> QED
    BY <2>6, <2>7, <2>8
<1> QED
  BY <1>4, <1>5 DEF Effect
=============================================================================
