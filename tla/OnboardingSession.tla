------------------------- MODULE OnboardingSession -------------------------
(***************************************************************************)
(* The aggregate root of app/domain/onboarding: an onboarding session as a *)
(* value, the queries on it, and what each command makes of it.  There is  *)
(* no state here; SessionAggregate runs the commands one after another,    *)
(* SessionStore runs them inside concurrent HTTP requests.                 *)
(*                                                                         *)
(* Abstractions.  The fields no code reads back (id, user_id, locale,      *)
(* client_platform, started_at) are left out.  A message keeps its         *)
(* sequence number, its role and the request that wrote it (which, with    *)
(* the role, stands for its UUID and content); the list of messages is the *)
(* set of its elements, whose list order is the order of `sequence'.  A    *)
(* command does not await, so it reads the clock once.                     *)
(***************************************************************************)
EXTENDS Integers, FiniteSets

CONSTANTS
    Requests,   \* the commands or HTTP requests that may write a message
    Steps,      \* names of workflow steps (current_step)
    Ttl         \* OnboardingSession._ttl, the sliding expiry window

ASSUME TtlAssumption == Ttl \in Nat \ {0}

-----------------------------------------------------------------------------
(* The ubiquitous language: enums.py. *)

SessionState == {"new", "in_progress", "awaiting_confirmation", "submitted",
                 "completed", "paused", "abandoned", "archived", "failed"}

TerminalStates == {"completed", "archived", "failed"}

MessageRole == {"user", "assistant", "system"}

NoTime == -1        \* a timestamp column that is None
NoStep == "none"    \* current_step is None

Time == Nat

Message == [sequence: Nat, role: MessageRole, by: Requests]

Session == [state: SessionState,
            revision: Nat,
            current_step: Steps \cup {NoStep},
            last_active_at: Time,
            expires_at: Time,
            confirmed_at: Time \cup {NoTime},
            submitted_at: Time \cup {NoTime},
            completed_at: Time \cup {NoTime},
            messages: SUBSET Message]

-----------------------------------------------------------------------------
(* entities.py: the transition graph, the queries, the commands.  A        *)
(* definition marked "mutant" is the one below it with a plausible slip;   *)
(* the runs show that the slip breaks a property.                          *)

AllowedTransitions ==
    [s \in SessionState |->
        CASE s = "new"         -> {"in_progress", "abandoned"}
          [] s = "in_progress" -> {"in_progress", "awaiting_confirmation",
                                   "paused", "abandoned", "failed"}
          [] s = "awaiting_confirmation" ->
                                  {"in_progress", "submitted", "paused",
                                   "abandoned", "failed"}
          [] s = "submitted"   -> {"completed", "failed"}
          [] s = "paused"      -> {"in_progress", "abandoned"}
          [] s = "abandoned"   -> {"archived"}
          [] s \in TerminalStates -> {}]

IsTerminal(s) == s.state \in TerminalStates

IsExpired(s, now) == now >= s.expires_at

NextSequenceFromOne(s) == Cardinality(s.messages) + 1    \* mutant

NextSequenceFromLast(s) == Cardinality(s.messages) - 1   \* mutant

NextMessageSequence(s) == Cardinality(s.messages)

NewSessionUnnumbered(now) ==         \* mutant: the first revision is -1
    [state |-> "new", revision |-> -1, current_step |-> NoStep,
     last_active_at |-> now, expires_at |-> now + Ttl,
     confirmed_at |-> NoTime, submitted_at |-> NoTime, completed_at |-> NoTime,
     messages |-> {}]

\* OnboardingSession.create
NewSession(now) ==
    [state |-> "new", revision |-> 0, current_step |-> NoStep,
     last_active_at |-> now, expires_at |-> now + Ttl,
     confirmed_at |-> NoTime, submitted_at |-> NoTime, completed_at |-> NoTime,
     messages |-> {}]

BumpActivityOnly(s, now) ==          \* mutant: the revision is forgotten
    [s EXCEPT !.last_active_at = now,
              !.expires_at = IF IsTerminal(s) THEN @ ELSE now + Ttl]

\* _bump_activity: the deadline slides only while the session is not terminal.
BumpActivity(s, now) ==
    [s EXCEPT !.last_active_at = now,
              !.revision = @ + 1,
              !.expires_at = IF IsTerminal(s) THEN @ ELSE now + Ttl]

CanReopen(s, target) ==              \* mutant: a submitted session can be edited
    \/ s.state = "submitted" /\ target = "in_progress"
    \/ ~IsTerminal(s) /\ target \in AllowedTransitions[s.state]

CanSkipReview(s, target) ==          \* mutant: submission without confirmation
    \/ s.state = "in_progress" /\ target = "submitted"
    \/ ~IsTerminal(s) /\ target \in AllowedTransitions[s.state]

CanTransition(s, target) ==
    /\ ~IsTerminal(s)
    /\ target \in AllowedTransitions[s.state]

TransitionTo(s, target, now) ==
    BumpActivity(
        [s EXCEPT
            !.confirmed_at = IF target = "awaiting_confirmation" THEN now ELSE @,
            !.submitted_at = IF target = "submitted" THEN now ELSE @,
            !.completed_at = IF target = "completed" THEN now ELSE @,
            !.state = target], now)

MaxContentLength == 8000

\* ConversationMessage.__post_init__
ValidMessage(length, rich) ==
    /\ length > 0 \/ rich
    /\ length <= MaxContentLength

\* Which exception append_message raises, if any, in the order of its checks.
AppendError(s, now, length, rich) ==
    IF IsTerminal(s) THEN "INVALID_SESSION_STATE"
    ELSE IF IsExpired(s, now) THEN "SESSION_EXPIRED"
    ELSE IF ~ValidMessage(length, rich) THEN "INVALID_MESSAGE"
    ELSE "none"

\* The first user message advances NEW to IN_PROGRESS.  The advance comes
\* before the message is built, so it survives an InvalidMessageError.
AutoAdvance(s, role, now) ==
    IF s.state = "new" /\ role = "user"
    THEN TransitionTo(s, "in_progress", now)
    ELSE s

\* append_message when no exception is raised.
AppendMessage(s, role, by, now) ==
    LET advanced == AutoAdvance(s, role, now)
        message  == [sequence |-> NextMessageSequence(advanced),
                     role |-> role, by |-> by]
    IN  BumpActivity([advanced EXCEPT !.messages = @ \cup {message}], now)

UpdateCurrentStep(s, step, now) ==
    BumpActivity([s EXCEPT !.current_step = step], now)

ExtendTtlWithoutBump(s, now) ==      \* mutant: not counted as activity
    IF IsTerminal(s) THEN s ELSE [s EXCEPT !.expires_at = now + Ttl]

\* extend_ttl returns silently on a terminal session.
ExtendTtl(s, now) ==
    IF IsTerminal(s) THEN s
    ELSE BumpActivity([s EXCEPT !.expires_at = now + Ttl], now)

-----------------------------------------------------------------------------
\* The messages number 0, 1, 2, ... without gap or repetition: the last number
\* leaves no room for either.
IsNumbered(messages) ==
    {m.sequence : m \in messages} = 0 .. Cardinality(messages) - 1
=============================================================================
