---------------------------- MODULE ObjectLifetime ----------------------------
(***************************************************************************)
(* What channel_manager.h promises of a ChannelOwner: the channel it       *)
(* refers to stays valid, also after the manager forgot it, and is dropped *)
(* when no owner points to it any more.  No counter, no lock, no list: an  *)
(* owner is a pair of a place and an object.  VoiceChannels implements it  *)
(* with counters, and the managers of VideoManagers keep the same promise  *)
(* for encoders and capturers with read-write locks.                       *)
(***************************************************************************)

CONSTANTS
    Place,     \* where an owner may live: a thread's frame, the manager's list
    Object

VARIABLES
    made,      \* the objects constructed so far
    alive,     \* those of them that exist
    owners     \* a subset of Place \X Object

lifetimeVars == <<made, alive, owners>>

Owned(o) == {c \in Object : \E p \in Place : <<p, c>> \in o}

Init == made = {} /\ alive = {} /\ owners = {}

\* An object is made once, and its maker owns it.
Make(p, c) ==
    /\ c \notin made
    /\ made' = made \cup {c}
    /\ alive' = alive \cup {c}
    /\ owners' = owners \cup {<<p, c>>}

\* Owners are copied and given up, but nobody gets at an object that has no
\* owner left.
Share ==
    /\ owners' \subseteq Place \X Object
    /\ Owned(owners') \subseteq Owned(owners)
    /\ UNCHANGED <<made, alive>>

Delete(c) ==
    /\ c \in alive
    /\ c \notin Owned(owners)
    /\ alive' = alive \ {c}
    /\ UNCHANGED <<made, owners>>

Next ==
    \/ \E p \in Place, c \in Object : Make(p, c)
    \/ Share
    \/ \E c \in Object : Delete(c)

Spec == Init /\ [][Next]_lifetimeVars /\ \A c \in Object : WF_lifetimeVars(Delete(c))

=============================================================================
