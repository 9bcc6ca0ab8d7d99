----------------------- MODULE SessionAggregateProofs -----------------------
(***************************************************************************)
(* The aggregate keeps its invariants for any requests, steps, contents,   *)
(* window and bounds.                                                      *)
(*                                                                         *)
(* The argument: whatever the command, a session that changes was not      *)
(* terminal and either moved along the transition table or kept its state  *)
(* and its milestones (Effect).  Every property follows from that.         *)
(***************************************************************************)
EXTENDS SessionAggregate, OnboardingSessionProofs

\* The type invariant, strengthened by the finiteness and numbering of messages.
SoundInv ==
    /\ Sound(session)
    /\ now \in Time
    /\ raised \in ErrorCode
    /\ setBack \in BOOLEAN

-----------------------------------------------------------------------------
(* The inductive step, one command at a time. *)

\* What a step may do to the session; `now' is the clock the command read.
StepEffect ==
    \/ session' = session
    \/ Effect(session, now, session') /\ now' = now /\ setBack' = setBack

\* The clock moves alone, backwards only in a step that records it.
ClockEffect ==
    /\ setBack => setBack'
    /\ now' # now => session' = session /\ (now' > now \/ setBack')

LEMMA InitIsSound == Init => SoundInv
<1> SUFFICES ASSUME Init PROVE SoundInv
  OBVIOUS
<1>1. now \in Time /\ raised \in ErrorCode /\ setBack \in BOOLEAN
  BY DEF Init, Time, ErrorCode
<1>2. Sound(session)
  BY <1>1, NewSessionIsSound DEF Init
<1> QED
  BY <1>1, <1>2 DEF SoundInv

LEMMA StepIsSound ==
    SoundInv /\ [Next]_vars => SoundInv' /\ StepEffect /\ ClockEffect
<1> SUFFICES ASSUME SoundInv, [Next]_vars
             PROVE  SoundInv' /\ StepEffect /\ ClockEffect
  OBVIOUS
<1>1. Sound(session) /\ now \in Time /\ raised \in ErrorCode /\ setBack \in BOOLEAN
  BY DEF SoundInv
<1>2. ASSUME Sound(session'), now' = now, setBack' = setBack,
             raised' \in ErrorCode,
             session' = session \/ Effect(session, now, session')
      PROVE  SoundInv' /\ StepEffect /\ ClockEffect
  BY <1>1, <1>2 DEF SoundInv, StepEffect, ClockEffect
<1>3. ASSUME NEW target \in SessionState, CommandTransitionTo(target)
      PROVE  SoundInv' /\ StepEffect /\ ClockEffect
  <2>1. CASE CanTransition(session, target)
    <3>1. Effect(session, now, TransitionTo(session, target, now))
      BY <1>1, <2>1, TransitionToEffect
    <3> QED
      BY <1>2, <1>3, <2>1, <3>1
      DEF CommandTransitionTo, Return, Effect, ErrorCode
  <2>2. CASE ~CanTransition(session, target)
    BY <1>1, <1>2, <1>3, <2>2 DEF CommandTransitionTo, Raise, ErrorCode
  <2> QED
    BY <2>1, <2>2
<1>4. ASSUME NEW role \in MessageRole, NEW by \in Requests,
             NEW length \in ContentLengths, NEW rich \in BOOLEAN,
             CommandAppendMessage(role, by, length, rich)
      PROVE  SoundInv' /\ StepEffect /\ ClockEffect
  <2> DEFINE error == AppendError(session, now, length, rich)
  <2>1. CASE error = "none" /\ Return(AppendMessage(session, role, by, now))
    <3>1. ~IsTerminal(session)
      BY <2>1 DEF AppendError
    <3>2. Effect(session, now, AppendMessage(session, role, by, now))
      BY <1>1, <3>1, AppendMessageEffect
    <3> QED
      BY <1>2, <2>1, <3>2 DEF Return, Effect, ErrorCode
  <2>2. CASE /\ error \in {"INVALID_SESSION_STATE", "SESSION_EXPIRED"}
             /\ Raise(error)
    BY <1>1, <1>2, <2>2 DEF Raise, ErrorCode
  <2>3. CASE /\ error = "INVALID_MESSAGE"
             /\ session' = AutoAdvance(session, role, now)
             /\ raised' = error
             /\ UNCHANGED <<now, setBack>>
    <3>1. ~IsTerminal(session)
      BY <2>3 DEF AppendError
    <3>2. session' = session \/ Effect(session, now, session')
      BY <1>1, <2>3, <3>1, AdvanceEffect
    <3>3. Sound(session')
      BY <1>1, <3>2 DEF Effect
    <3> QED
      BY <1>2, <2>3, <3>2, <3>3 DEF ErrorCode
  <2> QED
    BY <1>4, <2>1, <2>2, <2>3 DEF CommandAppendMessage
<1>5. ASSUME NEW step \in Steps \cup {NoStep}, CommandUpdateCurrentStep(step)
      PROVE  SoundInv' /\ StepEffect /\ ClockEffect
  <2>1. CASE IsTerminal(session)
    BY <1>1, <1>2, <1>5, <2>1 DEF CommandUpdateCurrentStep, Raise, ErrorCode
  <2>2. CASE ~IsTerminal(session)
    <3>1. Effect(session, now, UpdateCurrentStep(session, step, now))
      BY <1>1, <2>2, UpdateCurrentStepEffect
    <3> QED
      BY <1>2, <1>5, <2>2, <3>1
      DEF CommandUpdateCurrentStep, Return, Effect, ErrorCode
  <2> QED
    BY <2>1, <2>2
<1>6. CASE CommandExtendTtl
  <2>1. \/ ExtendTtl(session, now) = session
        \/ Effect(session, now, ExtendTtl(session, now))
    BY <1>1, ExtendTtlEffect
  <2> QED
    BY <1>1, <1>2, <1>6, <2>1 DEF CommandExtendTtl, Return, Effect, ErrorCode
<1>7. CASE ClockTicks \/ ClockSetBack
  <2>1. UNCHANGED <<session, raised>> /\ setBack' \in BOOLEAN
    BY <1>1, <1>7, Zenon DEF ClockTicks, ClockSetBack
  <2>2. now' \in Time /\ (now' > now \/ ClockSetBack)
    BY <1>1, <1>7 DEF ClockTicks, ClockSetBack, Time
  <2>3. setBack \/ ClockSetBack => setBack'
    BY <1>7, Zenon DEF ClockTicks, ClockSetBack
  <2> QED
    BY <1>1, <2>1, <2>2, <2>3, Zenon DEF SoundInv, StepEffect, ClockEffect
<1>8. CASE UNCHANGED vars
  BY <1>1, <1>2, <1>8 DEF vars
<1> QED
  BY <1>3, <1>4, <1>5, <1>6, <1>7, <1>8 DEF Next

-----------------------------------------------------------------------------
(* Types, numbering, finality, counting. *)

LEMMA AlwaysSound == Spec => []SoundInv
<1>1. SoundInv /\ [Next]_vars => SoundInv'
  BY StepIsSound
<1> QED
  BY <1>1, InitIsSound, PTL DEF Spec

\* The entity, the clock and the error code keep their types.
THEOREM TypeCorrect == Spec => []TypeOK
<1>1. SoundInv => TypeOK
  BY DEF SoundInv, Sound, TypeOK
<1> QED
  BY <1>1, AlwaysSound, PTL

\* The messages of a session are numbered 0, 1, 2, ... without gap.
THEOREM MessagesStayNumbered == Spec => []MessagesNumbered
<1>1. SoundInv => MessagesNumbered
  BY DEF SoundInv, Sound, MessagesNumbered
<1> QED
  BY <1>1, AlwaysSound, PTL

\* No command changes a terminal session.
THEOREM TerminalStatesRejectMutations == Spec => TerminalIsFinal
<1>1. SoundInv /\ [Next]_vars
        => [IsTerminal(session) => session' = session]_vars
  BY StepIsSound DEF StepEffect, Effect
<1> QED
  BY <1>1, AlwaysSound, PTL DEF Spec, TerminalIsFinal

\* Every command that changes the session raises its revision.
THEOREM RevisionCountsMutations == Spec => EveryMutationIsCounted
<1>1. SoundInv /\ [Next]_vars
        => [session' # session => session'.revision > session.revision]_vars
  BY StepIsSound DEF StepEffect, Effect
<1> QED
  BY <1>1, AlwaysSound, PTL DEF Spec, EveryMutationIsCounted

-----------------------------------------------------------------------------
(* Submission. *)

LEMMA SubmittedStepPastEditing ==
    SoundInv /\ SubmittedIsPastEditing /\ [Next]_vars => SubmittedIsPastEditing'
<1> SUFFICES ASSUME SoundInv, SubmittedIsPastEditing, [Next]_vars
             PROVE  SubmittedIsPastEditing'
  OBVIOUS
<1>1. session \in Session
  BY DEF SoundInv, Sound
<1>2. CASE session' = session
  BY <1>2 DEF SubmittedIsPastEditing
<1>3. CASE Effect(session, now, session')
  <2>1. CASE Kept(session, now, session')
    BY <2>1 DEF Kept, SubmittedIsPastEditing
  <2>2. CASE Moved(session, now, session')
    <3>1. PICK target \in SessionState :
              /\ CanTransition(session, target)
              /\ session'.state = target
              /\ session'.submitted_at =
                     IF target = "submitted" THEN now ELSE session.submitted_at
      BY <2>2 DEF Moved
    <3> QED
      BY <1>1, <3>1, TableFacts DEF SubmittedIsPastEditing
  <2> QED
    BY <1>3, <2>1, <2>2 DEF Effect
<1> QED
  BY <1>2, <1>3, StepIsSound DEF StepEffect

\* A submitted session is never edited, paused, abandoned or archived again.
THEOREM SubmissionIsFinal == Spec => []SubmittedIsPastEditing
<1>1. Init => SubmittedIsPastEditing
  BY DEF Init, NewSession, SubmittedIsPastEditing
<1> QED
  BY <1>1, SubmittedStepPastEditing, AlwaysSound, PTL DEF Spec

-----------------------------------------------------------------------------
(* Theorems about the timestamps. *)

\* Until the clock is set back no timestamp lies in the future; the deadline is
\* one window after the last activity, or where an earlier activity put it.
ClockInv ==
    /\ setBack \/ /\ session.last_active_at <= now
                  /\ session.confirmed_at <= now
                  /\ session.submitted_at <= now
                  /\ session.completed_at <= now
    /\ DeadlineFollowsActivity

\* MilestonesInOrder needs to know what the states on the way have recorded.
MilestoneInv ==
    /\ MilestonesInOrder
    /\ session.state = "awaiting_confirmation" => session.confirmed_at # NoTime
    /\ session.state = "submitted" => session.submitted_at # NoTime

LEMMA InitClock == Init => ClockInv /\ MilestoneInv
<1> SUFFICES ASSUME Init PROVE ClockInv /\ MilestoneInv
  OBVIOUS
<1>1. session = NewSession(0) /\ now = 0
  BY DEF Init
<1>2. ~IsTerminal(session)
  BY <1>1 DEF IsTerminal, NewSession, TerminalStates
<1>3. ClockInv
  BY <1>1, <1>2, TtlAssumption
  DEF ClockInv, DeadlineFollowsActivity, NewSession, NoTime
<1>4. MilestoneInv
  BY <1>1 DEF MilestoneInv, MilestonesInOrder, NewSession, NoTime
<1> QED
  BY <1>3, <1>4

LEMMA StepKeepsClock ==
    ASSUME SoundInv, ClockInv, [Next]_vars
    PROVE  ClockInv'
<1>1. /\ session \in Session /\ now \in Nat
      /\ session' \in Session /\ now' \in Nat
  BY StepIsSound DEF SoundInv, Sound, Time
<1>2. /\ session.last_active_at \in Nat
      /\ session.expires_at \in Nat
      /\ session.confirmed_at \in Nat \cup {-1}
      /\ session.submitted_at \in Nat \cup {-1}
      /\ session.completed_at \in Nat \cup {-1}
      /\ Ttl \in Nat
  BY <1>1, TtlAssumption DEF Session, Time, NoTime
<1>3. CASE session' = session
  <2>1. (now' >= now \/ setBack') /\ (setBack => setBack')
    BY <1>1, StepIsSound DEF ClockEffect
  <2>2. DeadlineFollowsActivity'
    BY <1>3, <2>1 DEF ClockInv, DeadlineFollowsActivity, IsTerminal
  <2> QED
    BY <1>1, <1>2, <1>3, <2>1, <2>2 DEF ClockInv
<1>4. CASE Effect(session, now, session') /\ now' = now /\ setBack' = setBack
  <2>1. session'.last_active_at = now /\ ~IsTerminal(session)
    BY <1>4 DEF Effect
  <2>2. session.expires_at = session.last_active_at + Ttl
    BY <2>1 DEF ClockInv, DeadlineFollowsActivity
  <2>3. CASE Kept(session, now, session')
    <3>1. DeadlineFollowsActivity'
      BY <2>1, <2>3 DEF Kept, DeadlineFollowsActivity, IsTerminal
    <3> QED
      BY <1>2, <1>4, <2>1, <2>3, <3>1, <1>1 DEF Kept, ClockInv
  <2>4. CASE Moved(session, now, session')
    <3>1. PICK target \in SessionState :
            /\ session'.state = target
            /\ session'.confirmed_at = IF target = "awaiting_confirmation"
                                       THEN now ELSE session.confirmed_at
            /\ session'.submitted_at = IF target = "submitted"
                                       THEN now ELSE session.submitted_at
            /\ session'.completed_at = IF target = "completed"
                                       THEN now ELSE session.completed_at
            /\ session'.expires_at = IF target \in TerminalStates
                                     THEN session.expires_at ELSE now + Ttl
      BY <2>4 DEF Moved
    <3>2. setBack \/ /\ session'.confirmed_at <= now
                     /\ session'.submitted_at <= now
                     /\ session'.completed_at <= now
      BY <1>1, <1>2, <3>1 DEF ClockInv
    <3>3. setBack \/ session.last_active_at <= now
      BY DEF ClockInv
    <3>4. DeadlineFollowsActivity'
      BY <1>1, <1>2, <1>4, <2>1, <2>2, <3>1, <3>3
      DEF DeadlineFollowsActivity, IsTerminal
    <3> QED
      BY <1>1, <1>2, <1>4, <2>1, <3>2, <3>3, <3>4 DEF ClockInv
  <2> QED
    BY <1>4, <2>3, <2>4 DEF Effect
<1> QED
  BY <1>3, <1>4, StepIsSound DEF StepEffect

LEMMA StepKeepsOrder ==
    ASSUME SoundInv, ClockInv, SubmittedIsPastEditing, MilestoneInv,
           [Next]_vars
    PROVE  MilestoneInv'
<1>1. session \in Session /\ now \in Nat
  BY DEF SoundInv, Sound, Time
<1>2. /\ session.confirmed_at \in Nat \cup {-1}
      /\ session.submitted_at \in Nat \cup {-1}
      /\ session.completed_at \in Nat \cup {-1}
      /\ setBack \/ /\ session.confirmed_at <= now
                    /\ session.submitted_at <= now
  BY <1>1 DEF Session, Time, NoTime, ClockInv
<1>3. CASE session' = session
  <2>1. setBack => setBack'
    BY StepIsSound DEF ClockEffect
  <2> QED
    BY <1>3, <2>1 DEF MilestoneInv, MilestonesInOrder
<1>4. CASE Effect(session, now, session') /\ setBack' = setBack
  <2>1. CASE Kept(session, now, session')
    BY <1>4, <2>1 DEF Kept, MilestoneInv, MilestonesInOrder
  <2>2. CASE Moved(session, now, session')
    <3>1. PICK target \in SessionState :
            /\ CanTransition(session, target)
            /\ session'.state = target
            /\ session'.confirmed_at = IF target = "awaiting_confirmation"
                                       THEN now ELSE session.confirmed_at
            /\ session'.submitted_at = IF target = "submitted"
                                       THEN now ELSE session.submitted_at
            /\ session'.completed_at = IF target = "completed"
                                       THEN now ELSE session.completed_at
      BY <2>2 DEF Moved
    <3>2. /\ target = "completed" => session.state = "submitted"
          /\ target = "submitted" => session.state = "awaiting_confirmation"
          /\ session.state = "submitted" => target \in {"completed", "failed"}
          /\ session.state \notin {"completed", "failed"}
      BY <1>1, <3>1, TableFacts
    <3>3. session.completed_at = -1
      BY <3>2 DEF MilestoneInv, MilestonesInOrder, NoTime
    <3>4. session.submitted_at # -1 => session.state = "submitted"
      BY <3>2 DEF SubmittedIsPastEditing, NoTime
    <3>5. session.submitted_at # -1 => /\ session.confirmed_at # -1
                                       /\ \/ setBack
                                          \/ session.confirmed_at
                                               <= session.submitted_at
      BY DEF MilestoneInv, MilestonesInOrder, NoTime
    <3>6. /\ session.state = "submitted" => session.submitted_at # -1
          /\ session.state = "awaiting_confirmation"
               => session.confirmed_at # -1
      BY DEF MilestoneInv, NoTime
    <3>7. CASE target = "completed"
      BY <1>1, <1>2, <1>4, <3>1, <3>2, <3>5, <3>6, <3>7
      DEF MilestoneInv, MilestonesInOrder, NoTime
    <3>8. CASE target = "submitted"
      BY <1>1, <1>2, <1>4, <3>1, <3>2, <3>3, <3>6, <3>8
      DEF MilestoneInv, MilestonesInOrder, NoTime
    <3>9. CASE target = "awaiting_confirmation"
      BY <1>1, <1>2, <1>4, <3>1, <3>2, <3>3, <3>4, <3>9
      DEF MilestoneInv, MilestonesInOrder, NoTime
    <3>10. CASE target \notin {"completed", "submitted",
                               "awaiting_confirmation"}
      BY <1>4, <3>1, <3>3, <3>5, <3>10
      DEF MilestoneInv, MilestonesInOrder, NoTime
    <3> QED
      BY <3>7, <3>8, <3>9, <3>10
  <2> QED
    BY <1>4, <2>1, <2>2 DEF Effect
<1> QED
  BY <1>3, <1>4, StepIsSound DEF StepEffect

LEMMA AlwaysClock == Spec => [](ClockInv /\ MilestoneInv)
<1>1. SoundInv /\ SubmittedIsPastEditing /\ ClockInv /\ MilestoneInv
        /\ [Next]_vars => (ClockInv /\ MilestoneInv)'
  <2> SUFFICES ASSUME SoundInv, SubmittedIsPastEditing, ClockInv, MilestoneInv,
                      [Next]_vars
               PROVE  ClockInv' /\ MilestoneInv'
    OBVIOUS
  <2>1. ClockInv'
    BY StepKeepsClock
  <2>2. MilestoneInv'
    BY StepKeepsOrder
  <2> QED
    BY <2>1, <2>2
<1> QED
  BY <1>1, InitClock, AlwaysSound, SubmissionIsFinal, PTL DEF Spec

\* Completion follows submission follows confirmation, in state and in time.
THEOREM MilestonesKeepOrder == Spec => []MilestonesInOrder
<1>1. MilestoneInv => MilestonesInOrder
  BY DEF MilestoneInv
<1> QED
  BY <1>1, AlwaysClock, PTL

\* The deadline is one window after the last activity.
THEOREM DeadlineSlides == Spec => []DeadlineFollowsActivity
<1>1. ClockInv => DeadlineFollowsActivity
  BY DEF ClockInv
<1> QED
  BY <1>1, AlwaysClock, PTL
=============================================================================
