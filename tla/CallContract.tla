---------------------------- MODULE CallContract ----------------------------
(***************************************************************************)
(* What the demo promises its user, whatever the engines do underneath: a  *)
(* call takes resources (ports, channels, devices, views) while it is set  *)
(* up, may exchange only the camera while it lasts, takes nothing new      *)
(* while it is torn down, and has given everything back when the screen    *)
(* shows "StartCall" again, but for the few objects that are leaked.  If   *)
(* the process dies the operating system takes the resources back.         *)
(* CallSession.tla implements it.                                          *)
(***************************************************************************)

CONSTANTS
    Resource,    \* everything a call may hold
    Swappable,   \* what may be exchanged during the call (the cameras)
    Leaked       \* what a call never gives back

VARIABLES
    phase,       \* where the call is
    held         \* the resources held now

contractVars == <<phase, held>>

Phases == {"Idle", "SettingUp", "InCall", "TearingDown", "Dead"}

Init ==
    /\ phase = "Idle"
    /\ held = {}

Begin ==
    /\ phase = "Idle"
    /\ phase' = "SettingUp"
    /\ held' = held

Acquire ==
    /\ phase = "SettingUp"
    /\ held \subseteq held'
    /\ held' \subseteq Resource
    /\ phase' \in {"SettingUp", "InCall"}

Swap ==
    /\ phase = "InCall"
    /\ held' \subseteq Resource
    /\ held' \ Swappable = held \ Swappable
    /\ phase' = phase

HangUp ==
    /\ phase = "InCall"
    /\ phase' = "TearingDown"
    /\ held' = held

Release ==
    /\ phase = "TearingDown"
    /\ held' \subseteq held
    /\ \/ phase' = "TearingDown"
       \/ phase' = "Idle" /\ held' \subseteq Leaked

Die ==
    /\ phase = "SettingUp"
    /\ phase' = "Dead"
    /\ held' = {}

Relaunch ==
    /\ phase = "Dead"
    /\ phase' = "Idle"
    /\ held' = held

Next ==
    \/ Begin \/ Acquire \/ Swap \/ HangUp \/ Release \/ Die \/ Relaunch

Spec == Init /\ [][Next]_contractVars

=============================================================================
