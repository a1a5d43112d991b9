------------------------ MODULE WheelCommandMailbox ------------------------
(***************************************************************************)
(* The latest-only mailbox between the command ingress and the physics     *)
(* loop (slope_sim/interfaces/wheel.py).  A clear starts a new mailbox     *)
(* generation, so that a commit that was under way is refused.  Statistics *)
(* (counts, frequency, last error) are left out.                           *)
(***************************************************************************)
EXTENDS Integers

CONSTANTS
    Timeout,     \* timeout_sec, in clock ticks
    NoCommand

ASSUME MailboxAssumption == Timeout \in Nat \ {0}

Never == -1      \* a time that is None

VARIABLES
    mbGen,        \* _generation
    latest,       \* _latest
    lastValid,    \* _last_valid_received_at
    acceptTime,   \* _latest_accept_time
    queryTime,    \* _latest_query_time
    mbState       \* _state

mailboxVars == <<mbGen, latest, lastValid, acceptTime, queryTime, mbState>>

MailboxInit ==
    /\ mbGen = 0
    /\ latest = NoCommand
    /\ lastValid = Never
    /\ acceptTime = Never
    /\ queryTime = Never
    /\ mbState = "waiting_command"

-----------------------------------------------------------------------------
(* accept() commits when the generation is still the captured one and the  *)
(* arrival time does not run backwards (else ValueError).  The command's   *)
(* own validity has been checked against the same model by the authority.  *)
MailboxCommits(gen, at) == gen = mbGen /\ at >= acceptTime

MailboxAccept(cmd, at) ==
    /\ latest' = cmd
    /\ lastValid' = at
    /\ acceptTime' = at
    /\ mbState' = "active"
    /\ UNCHANGED <<mbGen, queryTime>>

(* clear() keeps the arrival and query clocks. *)
MailboxClear ==
    /\ mbGen' = mbGen + 1
    /\ latest' = NoCommand
    /\ lastValid' = Never
    /\ mbState' = "waiting_command"
    /\ UNCHANGED <<acceptTime, queryTime>>

(* A new mailbox object: the generation starts again at 0. *)
MailboxNew ==
    /\ mbGen' = 0
    /\ latest' = NoCommand
    /\ lastValid' = Never
    /\ acceptTime' = Never
    /\ queryTime' = Never
    /\ mbState' = "waiting_command"

(* Mutant: a command of exactly the limit's age still drives. *)
TimedOutAfterLimit(t) == lastValid # Never /\ t - lastValid > Timeout

(* The age reaches the limit: the boundary itself is already too old. *)
TimedOut(t) == lastValid # Never /\ t - lastValid >= Timeout

(* _decision_locked: what the wheels get at time t. *)
DecisionCommand(t) == IF latest = NoCommand \/ TimedOut(t) THEN NoCommand ELSE latest

(* _refresh_state_locked *)
RefreshedState(t) ==
    CASE latest = NoCommand -> IF mbState = "invalid_command" THEN mbState
                               ELSE "waiting_command"
      [] latest # NoCommand /\ TimedOut(t) -> "timed_out"
      [] OTHER -> IF mbState = "invalid_command" THEN mbState ELSE "active"

(* decision(): queries must not run backwards (else ValueError). *)
MailboxDecision(t) ==
    /\ t >= queryTime
    /\ queryTime' = t
    /\ mbState' = RefreshedState(t)
    /\ UNCHANGED <<mbGen, latest, lastValid, acceptTime>>
=============================================================================
