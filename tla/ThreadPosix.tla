----------------------------- MODULE ThreadPosix -----------------------------
(***************************************************************************)
(* ThreadPosix: a detached POSIX thread that calls a function again and    *)
(* again until the function or somebody else says that it is enough.       *)
(*                                                                         *)
(* A thread is a record of the object's members and of the place at which  *)
(* the thread is in Run; the operators are the steps of its owner and its  *)
(* own.  Attributes and priorities of the thread are left out.             *)
(***************************************************************************)

Thread == [alive : BOOLEAN,             \* alive_
           dead : BOOLEAN,              \* dead_
           event : {"down", "up"},      \* event_, for which Start waits
           at : {"none", "begin", "signal", "function", "last", "gone"}]

NewThread == [alive |-> FALSE, dead |-> TRUE, event |-> "down", at |-> "none"]

\* Neither in Run nor about to enter it: the object can be deleted.
Released(t) == t.at \in {"none", "gone"}

(***************************************************************************)
(* The owner                                                               *)
(***************************************************************************)

\* Start, first: the event is reset and pthread_create succeeds.
Spawn(t) == [t EXCEPT !.event = "down", !.at = "begin"]

\* Start, second: only then is the thread no longer dead.
MarkLive(t) == [t EXCEPT !.dead = FALSE]

\* Start, third: the wait for the thread ends and resets the event.
Await(t) == [t EXCEPT !.event = "down"]

\* SetNotAlive, and the first thing that Stop does.
SetNotAlive(t) == [t EXCEPT !.alive = FALSE]

(***************************************************************************)
(* The thread                                                              *)
(***************************************************************************)

RunBegin(t) == [t EXCEPT !.alive = TRUE, !.at = "signal"]

RunSignal(t) == [t EXCEPT !.event = "up", !.at = "function"]

\* The function has returned `again'.
\* Mutant: the function alone decides.
Mutant_RunReturn(t, again) ==
    [t EXCEPT !.alive = again, !.at = IF again THEN "function" ELSE "last"]

RunReturn(t, again) ==
    [t EXCEPT !.alive = @ /\ again,
              !.at = IF t.alive /\ again THEN "function" ELSE "last"]

\* Mutant: clears alive_ once more.
Mutant_RunEnd(t) == [t EXCEPT !.alive = FALSE, !.at = "gone"]

RunEnd(t) == [t EXCEPT !.dead = TRUE, !.at = "gone"]
==============================================================================
