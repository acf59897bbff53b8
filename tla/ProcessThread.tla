----------------------------- MODULE ProcessThread -----------------------------
(***************************************************************************)
(* ProcessThreadImpl: the thread of an engine that calls its modules when  *)
(* they are due.  Audio devices, RTP modules and the like are registered   *)
(* and deregistered by other threads meanwhile; deregistering is what      *)
(* their owners rely on before they delete them.                           *)
(*                                                                         *)
(* One thread, the owner, calls Start and Stop, as an engine does on its   *)
(* initialisation and its end; registering is open to all.  A section      *)
(* under _critSectModules is one step where it calls nobody.               *)
(***************************************************************************)
EXTENDS ThreadPosix, Naturals

CONSTANTS
    Module,      \* modules that may be registered
    MaxThread,   \* bound: threads started
    Late         \* threads that may take more than ten seconds to get on

ASSUME ProcessAssumption == MaxThread \in Nat /\ Late \subseteq Nat

Id == 1 .. MaxThread
Nobody == 0
Owner == MaxThread + 1

VARIABLES
    threads,   \* the ThreadPosix objects by number
    made,      \* objects made so far
    deleted,   \* objects deleted
    current,   \* _thread
    stopped,   \* the owner's local `thread' in Stop
    owner,     \* where the owner is in Start or Stop
    lock,      \* holder of _critSectModules across steps
    modules,   \* _modules
    woken,     \* _timeEvent is set
    place,     \* where each thread is in Process
    due        \* modules that the holder of the lock still has to call

vars == <<threads, made, deleted, current, stopped, owner, lock, modules, woken,
          place, due>>
ownerVars == <<made, deleted, current, stopped, owner>>

TypeOK ==
    /\ threads \in [Id -> Thread]
    /\ made \in 0 .. MaxThread
    /\ deleted \subseteq 1 .. made
    /\ current \in 0 .. made /\ stopped \in 0 .. made
    /\ owner \in {"idle", "mark", "wait", "stop", "stopping"}
    /\ lock \in 0 .. Owner
    /\ modules \subseteq Module
    /\ woken \in BOOLEAN
    /\ place \in [Id -> {"look", "wait", "check", "run", "call"}]
    /\ due \subseteq Module

Init ==
    /\ threads = [n \in Id |-> NewThread]
    /\ made = 0 /\ deleted = {}
    /\ current = Nobody /\ stopped = Nobody
    /\ owner = "idle" /\ lock = Nobody
    /\ modules = {} /\ woken = FALSE
    /\ place = [n \in Id |-> "look"]
    /\ due = {}

(***************************************************************************)
(* Start                                                                   *)
(***************************************************************************)

\* Mutant: does not ask whether there is a thread already.
Mutant_Start ==
    /\ owner = "idle" /\ lock = Nobody
    /\ made < MaxThread
    /\ made' = made + 1
    /\ current' = made'
    /\ threads' = [threads EXCEPT ![made'] = Spawn(@)]
    /\ owner' = "mark" /\ lock' = Owner
    /\ UNCHANGED <<deleted, stopped, modules, woken, place, due>>

\* A thread that cannot be created makes ThreadPosix::Start return false, and
\* false >= 0 is success to ProcessThreadImpl::Start.
Start ==
    /\ owner = "idle" /\ lock = Nobody /\ current = Nobody
    /\ made < MaxThread
    /\ made' = made + 1
    /\ current' = made'
    /\ \/ /\ threads' = [threads EXCEPT ![made'] = Spawn(@)]
          /\ owner' = "mark" /\ lock' = Owner
       \/ UNCHANGED <<threads, owner, lock>>
    /\ UNCHANGED <<deleted, stopped, modules, woken, place, due>>

StartMark ==
    /\ owner = "mark"
    /\ threads' = [threads EXCEPT ![current] = MarkLive(@)]
    /\ owner' = "wait"
    /\ UNCHANGED <<made, deleted, current, stopped, lock, modules, woken, place, due>>

\* The wait ends after ten seconds, too.
StartWait ==
    /\ owner = "wait"
    /\ threads[current].event = "up" \/ current \in Late
    /\ threads' = [threads EXCEPT ![current] = Await(@)]
    /\ owner' = "idle" /\ lock' = Nobody
    /\ UNCHANGED <<made, deleted, current, stopped, modules, woken, place, due>>

(***************************************************************************)
(* Stop                                                                    *)
(***************************************************************************)

Stop ==
    /\ owner = "idle" /\ lock = Nobody /\ current # Nobody
    /\ threads' = [threads EXCEPT ![current] = SetNotAlive(@)]
    /\ stopped' = current
    /\ current' = Nobody
    /\ woken' = TRUE
    /\ owner' = "stop"
    /\ UNCHANGED <<made, deleted, lock, modules, place, due>>

StopAgain ==
    /\ owner = "stop"
    /\ threads' = [threads EXCEPT ![stopped] = SetNotAlive(@)]
    /\ owner' = "stopping"
    /\ UNCHANGED <<made, deleted, current, stopped, lock, modules, woken, place, due>>

\* Mutant: deletes the object whether or not ThreadPosix::Stop returned true.
Mutant_StopReclaims ==
    /\ owner = "stopping"
    /\ deleted' = deleted \cup {stopped}
    /\ owner' = "idle"
    /\ UNCHANGED <<threads, made, current, stopped, lock, modules, woken, place, due>>

\* Mutant: deletes _thread, which is NULL by now.
Mutant_StopReclaims_NULL ==
    /\ owner = "stopping"
    /\ threads[stopped].dead
    /\ deleted' = deleted \cup {current}
    /\ owner' = "idle"
    /\ UNCHANGED <<threads, made, current, stopped, lock, modules, woken, place, due>>

StopReclaims ==
    /\ owner = "stopping"
    /\ threads[stopped].dead
    /\ deleted' = deleted \cup {stopped}
    /\ owner' = "idle"
    /\ UNCHANGED <<threads, made, current, stopped, lock, modules, woken, place, due>>

\* After ten seconds of polling dead_.
StopFails ==
    /\ owner = "stopping"
    /\ ~threads[stopped].dead
    /\ Released(threads[stopped]) \/ stopped \in Late
    /\ owner' = "idle"
    /\ UNCHANGED <<threads, made, deleted, current, stopped, lock, modules, woken,
                   place, due>>

(***************************************************************************)
(* Modules                                                                 *)
(***************************************************************************)

RegisterModule(m) ==
    /\ lock = Nobody /\ m \notin modules
    /\ modules' = modules \cup {m}
    /\ woken' = TRUE
    /\ UNCHANGED <<threads, ownerVars, lock, place, due>>

\* Mutant: does not wait for the lock.
Mutant_DeRegisterModule(m) ==
    /\ m \in modules
    /\ modules' = modules \ {m}
    /\ UNCHANGED <<threads, ownerVars, lock, woken, place, due>>

DeRegisterModule(m) ==
    /\ lock = Nobody /\ m \in modules
    /\ modules' = modules \ {m}
    /\ UNCHANGED <<threads, ownerVars, lock, woken, place, due>>

(***************************************************************************)
(* The threads                                                             *)
(***************************************************************************)

Begin(n) ==
    /\ threads[n].at = "begin"
    /\ threads' = [threads EXCEPT ![n] = RunBegin(@)]
    /\ UNCHANGED <<ownerVars, lock, modules, woken, place, due>>

Signal(n) ==
    /\ threads[n].at = "signal"
    /\ threads' = [threads EXCEPT ![n] = RunSignal(@)]
    /\ UNCHANGED <<ownerVars, lock, modules, woken, place, due>>

InProcess(n, p) == threads[n].at = "function" /\ place[n] = p

Go(n, p) ==
    /\ place' = [place EXCEPT ![n] = p]
    /\ UNCHANGED threads

Return(n, again) ==
    /\ threads' = [threads EXCEPT ![n] = RunReturn(@, again)]
    /\ place' = [place EXCEPT ![n] = "look"]

\* Is a module due?  If so, there is no wait and no look at _thread.
Look(n) ==
    /\ InProcess(n, "look") /\ lock = Nobody
    /\ Go(n, "wait") \/ (modules # {} /\ Go(n, "run"))
    /\ UNCHANGED <<ownerVars, lock, modules, woken, due>>

\* The event, or at most 100 ms; or an error of the event.
Wait(n) ==
    /\ InProcess(n, "wait")
    /\ woken' = FALSE
    /\ Go(n, "check") \/ Return(n, TRUE)
    /\ UNCHANGED <<ownerVars, lock, modules, due>>

Check(n) ==
    /\ InProcess(n, "check") /\ lock = Nobody
    /\ IF current = Nobody THEN Return(n, FALSE) ELSE Go(n, "run")
    /\ UNCHANGED <<ownerVars, lock, modules, woken, due>>

Call(n) ==
    /\ InProcess(n, "run") /\ lock = Nobody
    /\ lock' = n
    /\ due' \in SUBSET modules
    /\ Go(n, "call")
    /\ UNCHANGED <<ownerVars, modules, woken>>

Called(n) ==
    /\ InProcess(n, "call")
    /\ \E m \in due : due' = due \ {m}
    /\ UNCHANGED <<threads, ownerVars, lock, modules, woken, place>>

Leave(n) ==
    /\ InProcess(n, "call") /\ due = {}
    /\ lock' = Nobody
    /\ Return(n, TRUE)
    /\ UNCHANGED <<ownerVars, modules, woken, due>>

End(n) ==
    /\ threads[n].at = "last"
    /\ threads' = [threads EXCEPT ![n] = RunEnd(@)]
    /\ UNCHANGED <<ownerVars, lock, modules, woken, place, due>>

OwnerStep == StartMark \/ StartWait \/ StopAgain \/ StopReclaims \/ StopFails

ThreadStep(n) ==
    \/ Begin(n) \/ Signal(n) \/ End(n)
    \/ Look(n) \/ Wait(n) \/ Check(n)
    \/ Call(n) \/ Called(n) \/ Leave(n)

Next ==
    \/ Start \/ Stop \/ OwnerStep
    \/ \E m \in Module : RegisterModule(m) \/ DeRegisterModule(m)
    \/ \E n \in Id : ThreadStep(n)

Fairness == WF_vars(OwnerStep) /\ \A n \in Id : SF_vars(ThreadStep(n))

Spec == Init /\ [][Next]_vars /\ Fairness

(***************************************************************************)
(* Properties                                                              *)
(***************************************************************************)

\* What the thread still has to call is registered: once DeRegisterModule has
\* returned, Process of that module does not run and will not.
CallsRegistered == due \subseteq modules

\* An object is deleted only when its thread has left Run, even if a thread
\* was slow to start or to stop (thread_wrapper.h:63 demands it).
DeletedIsReleased == \A n \in deleted : Released(threads[n])

\* A thread that has gone can be reclaimed: dead_ is cleared by Start after the
\* thread was created, and yet never after the thread has set it, as Start holds
\* the lock that the function needs first (thread_wrapper.h:29 promises it).
ReleasedIsDead ==
    \A n \in Id : Released(threads[n]) =>
        threads[n].dead \/ (owner = "mark" /\ n = current)

\* Between Stop and the next Start nobody is in Process, and there are never
\* two threads in it, but for those that were late and had been given up.
OnlyCurrent ==
    \A n \in Id \ Late : threads[n].at = "function" =>
        n = current \/ (owner \in {"stop", "stopping"} /\ n = stopped)

\* Start and Stop return, and Stop has reclaimed a thread that is not late,
\* whatever modules come, go and are due and whoever is late.
CallsEnd ==
    /\ owner \in {"mark", "wait"} ~> owner = "idle"
    /\ owner = "stop" ~> owner = "idle" /\ stopped \in deleted \cup Late
==============================================================================
