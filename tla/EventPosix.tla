------------------------------ MODULE EventPosix ------------------------------
(***************************************************************************)
(* EventPosix: an event, and the timer that sets it once.                  *)
(*                                                                         *)
(* A timer is a thread of its own.  It notes the time (created_at_), waits *)
(* on an event of its own (timer_event_) and sets the outer event when     *)
(* that wait ends by time.  A timer record holds the members of the event  *)
(* that its timer uses, and the place of the thread in Process.  The       *)
(* length of a wait is left out: it may end at any time.  Periodic timers  *)
(* are left out.                                                           *)
(***************************************************************************)
EXTENDS Integers

Timer == [at : {"none", "base", "enter", "wait", "fire", "return", "gone"},
          alive : BOOLEAN,          \* alive_ of timer_thread_
          event : {"down", "up"},   \* timer_event_
          based : BOOLEAN,          \* created_at_.tv_sec # 0
          count : 0 .. 2,           \* count_, 2 for all that are not 1
          armed : BOOLEAN]          \* StartTimer was called, Set is still due

NoTimer == [at |-> "none", alive |-> FALSE, event |-> "down", based |-> FALSE,
            count |-> 0, armed |-> FALSE]

TimerRuns(t) == t.at \notin {"none", "gone"}

(***************************************************************************)
(* The owner                                                               *)
(***************************************************************************)

\* StartTimer(false, time): the first one creates the thread, every other one
\* asks it to note the time anew.
StartTimer(t) ==
    IF t.at = "none" THEN [t EXCEPT !.at = "base", !.alive = TRUE, !.armed = TRUE]
    ELSE [t EXCEPT !.based = FALSE, !.event = "up", !.armed = TRUE]

\* StopTimer, up to the wait for the thread.
EndTimer(t) == [t EXCEPT !.alive = FALSE, !.event = "up", !.armed = FALSE]

(***************************************************************************)
(* The thread                                                              *)
(***************************************************************************)

TimerBase(t) ==
    [t EXCEPT !.at = "enter", !.based = TRUE,
              !.count = IF t.based THEN 2 ELSE 1]

\* Wait: an event that is up ends it at once and goes down.
TimerEnter(t) ==
    [t EXCEPT !.at = IF t.event = "up" THEN "return" ELSE "wait", !.event = "down"]

TimerWoken(t) == [t EXCEPT !.at = "return", !.event = "down"]

\* The wait ends by time; a Set that came just then is consumed as well.
TimerExpires(t) == [t EXCEPT !.at = "fire", !.event = "down"]

\* Only the first wait from a noted time sets the outer event.
Fires(t) == t.count = 1

TimerFire(t) == [t EXCEPT !.at = "return", !.armed = @ /\ ~Fires(t)]

TimerReturn(t) == [t EXCEPT !.at = IF t.alive THEN "base" ELSE "gone"]

\* "Starts a timer that will call a non-sticky version of Set() either once or
\* periodically": an armed timer that sleeps is going to fire when it wakes.
WillFire(t) == t.armed /\ t.at = "wait" /\ t.event = "down" => Fires(t)
==============================================================================
