--------------------------- MODULE SessionHistory ---------------------------
(***************************************************************************)
(* What the repository promises of one session: it is a single document,   *)
(* every request takes effect on it at most once and in one step, and that *)
(* step is a command of the aggregate run on the current document.         *)
(***************************************************************************)
EXTENDS OnboardingSession

CONSTANTS
    NULL,      \* the document does not exist yet
    Moments    \* the clock readings a command may have taken

VARIABLES
    document,  \* the session and its whole conversation, or NULL
    applied    \* the requests that took effect

history == <<document, applied>>

Init ==
    /\ document = NULL
    /\ applied = {}

TakeEffect(r) ==
    /\ r \notin applied
    /\ applied' = applied \cup {r}

\* A command is given to the document as it is, and the clock does not go back.
Present(t) ==
    /\ document # NULL
    /\ document.last_active_at <= t

Start(r, t) ==
    /\ document = NULL
    /\ TakeEffect(r)
    /\ document' = AppendMessage(NewSession(t), "assistant", r, t)

Converse(r, t) ==
    /\ Present(t)
    /\ ~IsTerminal(document)
    /\ ~IsExpired(document, t)
    /\ TakeEffect(r)
    /\ document' = AppendMessage(AppendMessage(document, "user", r, t),
                                 "assistant", r, t)

Move(r, target, t) ==
    /\ Present(t)
    /\ CanTransition(document, target)
    /\ TakeEffect(r)
    /\ document' = TransitionTo(document, target, t)

Next ==
    \E r \in Requests, t \in Moments :
        \/ Start(r, t)
        \/ Converse(r, t)
        \/ \E target \in SessionState : Move(r, target, t)

Spec == Init /\ [][Next]_history
=============================================================================
