--------------------------- MODULE CommandSafety ---------------------------
(***************************************************************************)
(* What the command path promises, with no mechanism: control is granted   *)
(* per generation; a command can be executable only under the current      *)
(* generation; losing control and starting a new generation are one step;  *)
(* once the path has ended nothing becomes executable again.               *)
(***************************************************************************)
EXTENDS Naturals

VARIABLES
    gen,      \* the current command generation
    holder,   \* who controls the robot, or the value None
    live,     \* the generation of the executable command, 0 if there is none
    ended     \* closed, or out of generations

CONSTANT None

Init ==
    /\ gen = 1
    /\ holder = None
    /\ live = 0
    /\ ended = FALSE

(* A command is accepted: the first one decides who holds the generation. *)
Grant ==
    /\ ~ended
    /\ live' = gen
    /\ holder' # None
    /\ holder = None \/ holder' = holder
    /\ UNCHANGED <<gen, ended>>

(* Control is withdrawn; the old generation never comes back. *)
Revoke ==
    /\ gen' = gen + 1
    /\ holder' = None
    /\ live' = 0
    /\ UNCHANGED ended

(* The end: control is withdrawn, and the generation may be exhausted. *)
End ==
    /\ ended' = TRUE
    /\ gen' \in {gen, gen + 1}
    /\ holder' = None
    /\ live' = 0

Next == Grant \/ Revoke \/ End

Spec == Init /\ [][Next]_<<gen, holder, live, ended>>
=============================================================================
