---------------------------- MODULE RunSimSession ----------------------------
(***************************************************************************)
(* The session of the Command socket (RunSimSession in                     *)
(* slope_sim/interfaces/v2/runsim_session.py): its state, the target with  *)
(* its lease, and the epoch that ties a target message, which is decoded   *)
(* without the lock, to the time before the next safe stop.                *)
(***************************************************************************)
EXTENDS Integers

CONSTANTS Receivers,   \* threads in accept_client_message
          MaxEpoch     \* bound on the number of stops

VARIABLES
    sess,       \* state, target held, epoch, credentials still there
    receiving,  \* messages being decoded: kind, epoch and token read
    cut         \* history: a stop happened since this message was begun

sessionVars == <<sess, receiving, cut>>

Final == {"stopping", "closed"}

IdleMessage == [kind |-> "none", epoch |-> 0, token |-> FALSE]

SessionInit ==
    /\ sess = [state |-> "launching", target |-> FALSE, epoch |-> 0, token |-> TRUE]
    /\ receiving = [r \in Receivers |-> IdleMessage]
    /\ cut = [r \in Receivers |-> FALSE]

(* _safe_stop: always revokes; a final state is never left. *)
SafeStop(s, state) ==
    [s EXCEPT !.epoch = @ + 1, !.target = FALSE,
              !.state = IF \/ state = "safe_stop" /\ @ \in Final
                           \/ state = "stopping" /\ @ = "closed" THEN @ ELSE state]

Interrupt(s) ==
    /\ sess.epoch < MaxEpoch
    /\ sess' = s
    /\ cut' = [r \in Receivers |-> receiving[r].kind # "none"]

(* accept_client_message reads epoch and token under the lock.             *)
BeginMessage(r) ==
    /\ receiving[r] = IdleMessage
    /\ \E kind \in {"target", "status", "stop"} :
         receiving' = [receiving EXCEPT ![r] = [kind |-> kind, epoch |-> sess.epoch,
                                                token |-> sess.token]]
    /\ cut' = [cut EXCEPT ![r] = FALSE]
    /\ UNCHANGED sess

EndMessage(r) == receiving' = [receiving EXCEPT ![r] = IdleMessage]

(* A bad token, size, field or value: the message is refused. *)
RefuseMessage(r) ==
    /\ receiving[r].kind # "none"
    /\ EndMessage(r)
    /\ UNCHANGED <<sess, cut>>

(* Mutant: the epoch is not compared again. *)
AcceptTargetOfAnyEpoch(r) ==
    /\ receiving[r].kind = "target"
    /\ receiving[r].token
    /\ EndMessage(r)
    /\ UNCHANGED cut
    /\ sess' = IF sess.state \notin Final THEN [sess EXCEPT !.target = TRUE, !.state = "active"]
               ELSE sess

(* _accept_target *)
AcceptTarget(r) ==
    /\ receiving[r].kind = "target"
    /\ receiving[r].token
    /\ EndMessage(r)
    /\ UNCHANGED cut
    /\ sess' = IF receiving[r].epoch = sess.epoch /\ sess.state \notin Final
               THEN [sess EXCEPT !.target = TRUE, !.state = "active"] ELSE sess

(* _accept_status: refused when it would revive a final state.             *)
AcceptStatus(r) ==
    /\ receiving[r].kind = "status"
    /\ receiving[r].token
    /\ EndMessage(r)
    /\ \/ /\ \E state \in {"launching", "ready", "active"} :
               sess' = IF sess.state \in Final THEN sess ELSE [sess EXCEPT !.state = state]
          /\ UNCHANGED cut
       \/ \E state \in {"safe_stop", "stopping", "closed"} :
            IF \/ sess.state = "closed" /\ state # "closed"
               \/ sess.state = "stopping" /\ state = "safe_stop"
            THEN UNCHANGED <<sess, cut>>
            ELSE Interrupt(SafeStop(sess, state))

AcceptStop(r) ==
    /\ receiving[r].kind = "stop"
    /\ receiving[r].token
    /\ EndMessage(r)
    /\ Interrupt(SafeStop(sess, "stopping"))

(* connection_closed, keyboard_released, window_focus_lost. *)
LocalStop == Interrupt(SafeStop(sess, "safe_stop")) /\ UNCHANGED receiving

(* expire_manual_target: only a target has a lease to lose. *)
ExpireTarget ==
    /\ sess.target
    /\ Interrupt(SafeStop(sess, "safe_stop"))
    /\ UNCHANGED receiving

(* close: the credentials go too. *)
CloseSession ==
    /\ sess.token
    /\ Interrupt([SafeStop(sess, "closed") EXCEPT !.token = FALSE])
    /\ UNCHANGED receiving

SessionNext ==
    \/ \E r \in Receivers : BeginMessage(r) \/ RefuseMessage(r) \/ AcceptTarget(r)
                                \/ AcceptStatus(r) \/ AcceptStop(r)
    \/ LocalStop \/ ExpireTarget \/ CloseSession

SessionSpec == SessionInit /\ [][SessionNext]_sessionVars

-----------------------------------------------------------------------------
(* A stopped session holds no target, whatever status and target messages  *)
(* were on their way, and a message that a stop overtook never starts the  *)
(* robot again.                                                            *)
StopRevokesTarget ==
    [][/\ sess'.target => sess'.state \notin Final \cup {"safe_stop"}
       /\ \A r \in Receivers :
            receiving[r].kind = "target" /\ receiving'[r].kind = "none" /\ cut[r]
                => ~sess'.target \/ sess.target]_sessionVars
=============================================================================
