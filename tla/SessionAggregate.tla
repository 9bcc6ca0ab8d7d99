-------------------------- MODULE SessionAggregate --------------------------
(***************************************************************************)
(* One OnboardingSession object driven by any sequence of its commands, as *)
(* the unit tests, the service and the (later) workflow engine drive it.   *)
(* A command that raises records the error code in `raised'.               *)
(***************************************************************************)
EXTENDS OnboardingSession

CONSTANTS
    ContentLengths,  \* lengths of the message contents offered to append_message
    MaxTime,         \* bound on the clock
    MaxRevision      \* bound on the number of mutations

ASSUME AggregateAssumption ==
    /\ ContentLengths \subseteq Nat
    /\ MaxTime \in Nat
    /\ MaxRevision \in Nat

VARIABLES
    session,   \* the entity
    now,       \* utcnow()
    raised,    \* error code of the last command, "none" if it returned
    setBack    \* history: the wall clock has been set back

vars == <<session, now, raised, setBack>>

ErrorCode == {"none", "INVALID_SESSION_STATE", "SESSION_EXPIRED",
              "INVALID_MESSAGE"}

TypeOK ==
    /\ session \in Session
    /\ now \in Time
    /\ raised \in ErrorCode
    /\ setBack \in BOOLEAN

Init ==
    /\ now = 0
    /\ session = NewSession(now)
    /\ raised = "none"
    /\ setBack = FALSE

WithinBound == session.revision < MaxRevision

-----------------------------------------------------------------------------
Return(s) ==
    /\ WithinBound
    /\ session' = s
    /\ raised' = "none"
    /\ UNCHANGED <<now, setBack>>

Raise(error) ==
    /\ raised' = error
    /\ UNCHANGED <<session, now, setBack>>

CommandTransitionTo(target) ==
    IF CanTransition(session, target)
    THEN Return(TransitionTo(session, target, now))
    ELSE Raise("INVALID_SESSION_STATE")

\* An InvalidMessageError is raised after the NEW -> IN_PROGRESS advance.
CommandAppendMessage(role, by, length, rich) ==
    LET error == AppendError(session, now, length, rich)
    IN  /\ \A m \in session.messages : m.by # by     \* new_id() is fresh
        /\ \/ /\ error = "none"
              /\ Return(AppendMessage(session, role, by, now))
           \/ /\ error \in {"INVALID_SESSION_STATE", "SESSION_EXPIRED"}
              /\ Raise(error)
           \/ /\ error = "INVALID_MESSAGE"
              /\ WithinBound
              /\ session' = AutoAdvance(session, role, now)
              /\ raised' = error
              /\ UNCHANGED <<now, setBack>>

CommandUpdateStepUnguarded(step) ==      \* mutant: no terminal check
    Return(UpdateCurrentStep(session, step, now))

CommandUpdateCurrentStep(step) ==
    IF IsTerminal(session)
    THEN Raise("INVALID_SESSION_STATE")
    ELSE Return(UpdateCurrentStep(session, step, now))

CommandExtendTtl == Return(ExtendTtl(session, now))

\* Time passes; an operator or NTP may also set the wall clock back.
ClockTicks ==
    /\ now < MaxTime
    /\ now' = now + 1
    /\ UNCHANGED <<session, raised, setBack>>

ClockSetBack ==
    /\ now > 0
    /\ now' = now - 1
    /\ setBack' = TRUE
    /\ UNCHANGED <<session, raised>>

Next ==
    \/ \E target \in SessionState : CommandTransitionTo(target)
    \/ \E role \in MessageRole, by \in Requests, length \in ContentLengths,
          rich \in BOOLEAN : CommandAppendMessage(role, by, length, rich)
    \/ \E step \in Steps \cup {NoStep} : CommandUpdateCurrentStep(step)
    \/ CommandExtendTtl
    \/ ClockTicks
    \/ ClockSetBack

Spec == Init /\ [][Next]_vars

-----------------------------------------------------------------------------
(* Safety. *)

\* Messages are numbered 0, 1, 2, ... in the order they were appended, also
\* when commands are rejected in between (next_message_sequence is a length,
\* not a counter).
MessagesNumbered == IsNumbered(session.messages)

\* The timestamps tell the path the session took: nothing is completed that was
\* not submitted, nothing submitted that the user was not asked to confirm, and
\* unless the clock was set back each milestone comes no earlier than the one
\* before it, whatever detours (pauses, edits) the session made.
MilestonesInOrder ==
    /\ session.state = "completed" <=> session.completed_at # NoTime
    /\ session.completed_at # NoTime =>
           /\ session.submitted_at # NoTime
           /\ setBack \/ session.submitted_at <= session.completed_at
    /\ session.submitted_at # NoTime =>
           /\ session.confirmed_at # NoTime
           /\ setBack \/ session.confirmed_at <= session.submitted_at

\* A submitted session never comes back to the conversation: it is submitted,
\* completed or failed for good, so it is never paused, abandoned or archived.
SubmittedIsPastEditing ==
    session.submitted_at # NoTime =>
        session.state \in {"submitted", "completed", "failed"}

\* The deadline is always one window after the last activity, except that the
\* step into a terminal state leaves it where the previous activity put it: with
\* a clock that was never set back, no later than that.
DeadlineFollowsActivity ==
    IF IsTerminal(session)
    THEN setBack \/ session.expires_at <= session.last_active_at + Ttl
    ELSE session.expires_at = session.last_active_at + Ttl

-----------------------------------------------------------------------------
(* Action properties. *)

\* "terminal states reject all mutations": no command, extend_ttl included,
\* changes any field of a terminal session.
TerminalIsFinal == [][IsTerminal(session) => session' = session]_vars

\* "revision is bumped on every mutation": two different values of a session
\* never carry the same revision, nor a later value a smaller one.  The
\* optimistic lock of the repository rests on it.
EveryMutationIsCounted ==
    [][session' # session => session'.revision > session.revision]_vars

-----------------------------------------------------------------------------
(* A claim of the class that a run refutes. *)

\* "last_active_at moves forward only" is listed among the "Business invariants
\* enforced here": a command after the wall clock was set back must not bring an
\* earlier activity, and with it an earlier deadline.
ActivityMovesForward ==
    [][session'.last_active_at >= session.last_active_at]_vars
=============================================================================
