-------------------------- MODULE ProcessThread_proof --------------------------
(***************************************************************************)
(* Proofs about ProcessThread, for any modules, any number of threads and  *)
(* any of them late: what the code may rely on, and that Start and Stop    *)
(* always come nearer to their ends.                                       *)
(***************************************************************************)
EXTENDS ProcessThread, TLAPS

(***************************************************************************)
(* The invariant                                                           *)
(***************************************************************************)

\* Who holds the lock across steps, and what for.
Locked ==
    /\ lock = Owner <=> owner \in {"mark", "wait"}
    /\ \A n \in Id : lock = n <=> InProcess(n, "call")
    /\ due # {} => lock \in Id

\* The objects that the owner is at.
Targets ==
    /\ owner \in {"mark", "wait"} => current \in Id
    /\ owner \in {"stop", "stopping"} => stopped \in Id

\* A thread that is not in the function starts it from the top, and numbers
\* that were not given out have no thread.
Outside ==
    \A n \in Id : /\ threads[n].at # "function" => place[n] = "look"
                  /\ n > made => threads[n].at = "none"

\* dead_ says that the thread has gone, but while Start has not cleared it yet.
DeadIsReleased ==
    \A n \in Id : threads[n].dead =>
        Released(threads[n]) \/ (owner = "mark" /\ n = current)

\* The thread that Start has created waits for the lock, at the latest.
Marking ==
    owner = "mark" => /\ threads[current].at \in {"begin", "signal", "function"}
                      /\ place[current] = "look"

\* A thread in Run belongs to the owner unless it is late.
OneRuns ==
    \A n \in Id \ Late : ~Released(threads[n]) =>
        n = current \/ (owner \in {"stop", "stopping"} /\ n = stopped)

IInv ==
    /\ TypeOK /\ Locked /\ Targets /\ Outside
    /\ DeadIsReleased /\ ReleasedIsDead /\ Marking
    /\ DeletedIsReleased /\ CallsRegistered /\ OneRuns

\* It holds at first.
LEMMA InitInv == Init => IInv
<1> SUFFICES ASSUME Init PROVE IInv
  OBVIOUS
<1> USE ProcessAssumption
<1>1. TypeOK
  <2>1. NewThread \in Thread
    BY DEF NewThread, Thread
  <2>2. 0 \in 0 .. MaxThread /\ 0 \in 0 .. 0 /\ 0 \in 0 .. Owner
    BY DEF Owner
  <2>3. QED
    BY <2>1, <2>2 DEF Init, TypeOK, Nobody
<1>2. Locked
  BY DEF Init, Locked, InProcess, NewThread, Id, Owner, Nobody
<1>3. QED
  BY <1>1, <1>2 DEF Init, IInv, Targets, Outside, DeadIsReleased, ReleasedIsDead,
     Marking, DeletedIsReleased, CallsRegistered, OneRuns, NewThread, Released

(***************************************************************************)
(* The owner's steps                                                       *)
(***************************************************************************)

\* Start takes a number nobody had, and nobody is in Run if time suffices.
LEMMA StartInv == IInv /\ Start => IInv'
<1> SUFFICES ASSUME IInv, Start PROVE IInv'
  OBVIOUS
<1> USE ProcessAssumption
<1>1. /\ made' \in Id /\ made' = made + 1 /\ made \in Nat /\ current' = made'
      /\ made' \notin deleted /\ threads[made'] \in Thread /\ threads[made'].at = "none"
  BY DEF IInv, TypeOK, Start, Id, Outside
<1>2. CASE UNCHANGED <<threads, owner, lock>>
  BY <1>1, <1>2 DEF IInv, Start, TypeOK, Locked, Targets, Outside, DeadIsReleased,
     ReleasedIsDead, Marking, DeletedIsReleased, CallsRegistered, OneRuns, InProcess,
     Released, Id, Nobody
<1>3. CASE /\ threads' = [threads EXCEPT ![made'] = Spawn(@)]
           /\ owner' = "mark" /\ lock' = Owner
  <2> USE <1>1, <1>3 DEF IInv, Start
  <2>1. Spawn(threads[made']) \in Thread /\ Spawn(threads[made']).at = "begin"
        /\ Spawn(threads[made']).dead = threads[made'].dead
    BY DEF Spawn, Thread
  <2>2. TypeOK'
    BY <2>1 DEF TypeOK, Id, Owner
  <2>3. Locked' /\ Targets' /\ Outside' /\ Marking'
    BY <2>1 DEF TypeOK, Locked, Targets, Outside, Marking, InProcess, Id, Owner, Nobody
  <2>4. DeadIsReleased' /\ ReleasedIsDead'
    BY <2>1 DEF TypeOK, DeadIsReleased, ReleasedIsDead, Released
  <2>5. DeletedIsReleased' /\ CallsRegistered' /\ OneRuns'
    BY <2>1 DEF TypeOK, DeletedIsReleased, CallsRegistered, OneRuns, Released, Nobody, Id
  <2>6. QED
    BY <2>2, <2>3, <2>4, <2>5
<1>4. QED
  BY <1>2, <1>3 DEF Start

\* The other steps of the owner change one thread and the owner's place.
LEMMA OwnerInv ==
  ASSUME IInv, OwnerStep \/ Stop
  PROVE  IInv'
<1> USE ProcessAssumption DEF IInv
<1>1. CASE StartMark
  <2> USE <1>1 DEF StartMark
  <2>1. current \in Id /\ threads[current] \in Thread
    BY DEF Targets, TypeOK
  <2>2. /\ threads' = [threads EXCEPT ![current] = MarkLive(@)]
        /\ MarkLive(threads[current]) \in Thread
        /\ ~MarkLive(threads[current]).dead
        /\ MarkLive(threads[current]).at = threads[current].at
    BY <2>1 DEF MarkLive, Thread
  <2>3. TypeOK'
    BY <2>1, <2>2 DEF TypeOK
  <2>4. Locked' /\ Targets' /\ Outside' /\ Marking'
    BY <2>1, <2>2 DEF TypeOK, Locked, Targets, Outside, Marking, InProcess
  <2>5. DeadIsReleased' /\ ReleasedIsDead'
    BY <2>1, <2>2 DEF TypeOK, DeadIsReleased, ReleasedIsDead, Released, Marking
  <2>6. DeletedIsReleased' /\ CallsRegistered' /\ OneRuns'
    BY <2>1, <2>2 DEF TypeOK, DeletedIsReleased, CallsRegistered, OneRuns, Released
  <2>7. QED
    BY <2>3, <2>4, <2>5, <2>6
<1>2. CASE StartWait
  <2> USE <1>2 DEF StartWait
  <2>1. current \in Id /\ threads[current] \in Thread
    BY DEF Targets, TypeOK
  <2>2. /\ threads' = [threads EXCEPT ![current] = Await(@)]
        /\ Await(threads[current]) \in Thread
        /\ Await(threads[current]).dead = threads[current].dead
        /\ Await(threads[current]).at = threads[current].at
    BY <2>1 DEF Await, Thread
  <2>3. TypeOK'
    BY <2>1, <2>2 DEF TypeOK, Nobody, Owner
  <2>4. Locked' /\ Targets' /\ Outside' /\ Marking'
    BY <2>1, <2>2
     DEF TypeOK, Locked, Targets, Outside, Marking, InProcess, Nobody, Owner, Id
  <2>5. DeadIsReleased' /\ ReleasedIsDead'
    BY <2>1, <2>2 DEF TypeOK, DeadIsReleased, ReleasedIsDead, Released
  <2>6. DeletedIsReleased' /\ CallsRegistered' /\ OneRuns'
    BY <2>1, <2>2 DEF TypeOK, DeletedIsReleased, CallsRegistered, OneRuns, Released
  <2>7. QED
    BY <2>3, <2>4, <2>5, <2>6
<1>3. CASE Stop
  <2> USE <1>3 DEF Stop
  <2>1. current \in Id /\ threads[current] \in Thread
    BY DEF TypeOK, Id, Nobody
  <2>2. /\ threads' = [threads EXCEPT ![current] = SetNotAlive(@)]
        /\ SetNotAlive(threads[current]) \in Thread
        /\ SetNotAlive(threads[current]).dead = threads[current].dead
        /\ SetNotAlive(threads[current]).at = threads[current].at
    BY <2>1 DEF SetNotAlive, Thread
  <2>3. TypeOK'
    BY <2>1, <2>2 DEF TypeOK, Nobody
  <2>4. Locked' /\ Targets' /\ Outside' /\ Marking'
    BY <2>1, <2>2 DEF TypeOK, Locked, Targets, Outside, Marking, InProcess
  <2>5. DeadIsReleased' /\ ReleasedIsDead'
    BY <2>1, <2>2 DEF TypeOK, DeadIsReleased, ReleasedIsDead, Released
  <2>6. DeletedIsReleased' /\ CallsRegistered' /\ OneRuns'
    BY <2>1, <2>2 DEF TypeOK, DeletedIsReleased, CallsRegistered, OneRuns, Released
  <2>7. QED
    BY <2>3, <2>4, <2>5, <2>6
<1>4. CASE StopAgain
  <2> USE <1>4 DEF StopAgain
  <2>1. stopped \in Id /\ threads[stopped] \in Thread
    BY DEF TypeOK, Targets
  <2>2. /\ threads' = [threads EXCEPT ![stopped] = SetNotAlive(@)]
        /\ SetNotAlive(threads[stopped]) \in Thread
        /\ SetNotAlive(threads[stopped]).dead = threads[stopped].dead
        /\ SetNotAlive(threads[stopped]).at = threads[stopped].at
    BY <2>1 DEF SetNotAlive, Thread
  <2>3. TypeOK'
    BY <2>1, <2>2 DEF TypeOK
  <2>4. Locked' /\ Targets' /\ Outside' /\ Marking'
    BY <2>1, <2>2 DEF TypeOK, Locked, Targets, Outside, Marking, InProcess
  <2>5. DeadIsReleased' /\ ReleasedIsDead'
    BY <2>1, <2>2 DEF TypeOK, DeadIsReleased, ReleasedIsDead, Released
  <2>6. DeletedIsReleased' /\ CallsRegistered' /\ OneRuns'
    BY <2>1, <2>2 DEF TypeOK, DeletedIsReleased, CallsRegistered, OneRuns, Released
  <2>7. QED
    BY <2>3, <2>4, <2>5, <2>6
<1>5. CASE StopReclaims
  <2> USE <1>5 DEF StopReclaims
  <2>1. stopped \in Id /\ stopped \in 1 .. made /\ Released(threads[stopped])
    BY DEF TypeOK, Targets, DeadIsReleased, Id
  <2>2. TypeOK' /\ DeletedIsReleased'
    BY <2>1 DEF TypeOK, DeletedIsReleased
  <2>3. Locked' /\ Targets' /\ Outside' /\ Marking' /\ DeadIsReleased' /\ ReleasedIsDead'
    BY DEF Locked, Targets, Outside, Marking, DeadIsReleased, ReleasedIsDead, InProcess
  <2>4. CallsRegistered' /\ OneRuns'
    BY <2>1 DEF CallsRegistered, OneRuns
  <2>5. QED
    BY <2>2, <2>3, <2>4
<1>6. CASE StopFails
  <2> USE <1>6 DEF StopFails
  <2>1. stopped \in Late
    BY DEF Targets, ReleasedIsDead
  <2>2. QED
    BY <2>1 DEF TypeOK, Locked, Targets, Outside, Marking, DeadIsReleased, ReleasedIsDead,
       InProcess, DeletedIsReleased, CallsRegistered, OneRuns
<1>7. QED
  BY <1>1, <1>2, <1>3, <1>4, <1>5, <1>6 DEF OwnerStep

(***************************************************************************)
(* Modules and threads                                                     *)
(***************************************************************************)

\* Modules come and go while nobody is calling one.
LEMMA ModulesInv ==
  ASSUME IInv, NEW m \in Module, RegisterModule(m) \/ DeRegisterModule(m)
  PROVE  IInv'
<1> USE DEF IInv
<1>1. /\ UNCHANGED <<threads, ownerVars, lock, place, due>>
      /\ lock = Nobody /\ modules' \subseteq Module /\ woken' \in BOOLEAN
  BY DEF RegisterModule, DeRegisterModule, TypeOK
<1>2. due = {}
  BY <1>1 DEF Locked, Nobody, Id
<1>3. TypeOK' /\ Locked' /\ Targets' /\ Outside' /\ Marking'
  BY <1>1 DEF TypeOK, Locked, Targets, Outside, Marking, InProcess, ownerVars
<1>4. QED
  BY <1>1, <1>2, <1>3 DEF DeadIsReleased, ReleasedIsDead, DeletedIsReleased,
     CallsRegistered, OneRuns, ownerVars

\* What a thread does between two calls of the function.
LEMMA RunInv ==
  ASSUME IInv, NEW n \in Id, Begin(n) \/ Signal(n) \/ End(n)
  PROVE  IInv'
<1> USE DEF IInv
<1> DEFINE t == IF Begin(n) THEN RunBegin(threads[n])
                ELSE IF Signal(n) THEN RunSignal(threads[n]) ELSE RunEnd(threads[n])
<1>1. /\ threads' = [threads EXCEPT ![n] = t]
      /\ UNCHANGED <<ownerVars, lock, modules, woken, place, due>>
  BY DEF Begin, Signal, End
<1>2. threads[n] \in Thread
  BY DEF TypeOK
<1>3. /\ t \in Thread
      /\ t.dead = threads[n].dead \/ (t.dead /\ t.at = "gone")
      /\ \/ threads[n].at = "begin" /\ t.at = "signal" /\ t.dead = threads[n].dead
         \/ threads[n].at = "signal" /\ t.at = "function" /\ t.dead = threads[n].dead
         \/ threads[n].at = "last" /\ t.at = "gone" /\ t.dead
  BY <1>2 DEF Begin, Signal, End, RunBegin, RunSignal, RunEnd, Thread
<1> HIDE DEF t
<1>4. TypeOK'
  BY <1>1, <1>3 DEF TypeOK, ownerVars
<1>5. place[n] = "look" /\ threads[n].at # "function" /\ ~Released(threads[n])
  BY <1>3 DEF Outside, Released
<1>6. Locked' /\ Targets'
  BY <1>1, <1>3, <1>5 DEF TypeOK, Locked, Targets, InProcess, ownerVars
<1>7. Outside' /\ Marking'
  BY <1>1, <1>3, <1>5 DEF TypeOK, Outside, Marking, ownerVars
<1>8. DeadIsReleased' /\ ReleasedIsDead'
  BY <1>1, <1>3, <1>5 DEF TypeOK, DeadIsReleased, ReleasedIsDead, Released, ownerVars
<1>9. DeletedIsReleased' /\ CallsRegistered' /\ OneRuns'
  BY <1>1, <1>3, <1>5
     DEF TypeOK, DeletedIsReleased, CallsRegistered, OneRuns, Released, ownerVars
<1>10. QED
  BY <1>4, <1>6, <1>7, <1>8, <1>9

\* What a step inside the function does to the thread, and where it leaves it.
Inside(n, t, p) ==
    /\ threads' = [threads EXCEPT ![n] = t]
    /\ place' = [place EXCEPT ![n] = p]
    /\ t \in Thread
    /\ t.dead = threads[n].dead
    /\ t.at = "function" \/ (t.at = "last" /\ p = "look")

\* The function returns, or goes on.
LEMMA ReturnInside ==
  ASSUME NEW n \in Id, TypeOK, NEW again \in BOOLEAN, Return(n, again)
  PROVE  Inside(n, RunReturn(threads[n], again), "look")
<1>1. threads[n] \in Thread
  BY DEF TypeOK
<1>2. QED
  BY <1>1 DEF Return, Inside, RunReturn, Thread

\* A thread that goes on inside Process changes its place only.
LEMMA GoInside ==
  ASSUME NEW n \in Id, TypeOK, NEW p, Go(n, p), threads[n].at = "function"
  PROVE  Inside(n, threads[n], p)
BY DEF TypeOK, Go, Inside

\* The parts that do not mention the lock: a thread at the top of the function
\* stays there while the owner is in Start.
LEMMA InsideInv ==
  ASSUME IInv, UNCHANGED <<ownerVars, modules>>, NEW n \in Id, threads[n].at = "function",
         NEW t, NEW p, Inside(n, t, p),
         owner = "mark" /\ n = current => p = "look" /\ t.at = "function"
  PROVE  /\ Targets' /\ Outside' /\ Marking' /\ DeadIsReleased' /\ ReleasedIsDead'
         /\ DeletedIsReleased' /\ OneRuns'
<1> USE DEF IInv, TypeOK, Inside, ownerVars
<1>1. Targets' /\ Outside'
  BY DEF Targets, Outside
<1>2. Marking'
  BY DEF Marking, Targets
<1>3. DeadIsReleased' /\ ReleasedIsDead'
  BY DEF DeadIsReleased, ReleasedIsDead, Released
<1>4. DeletedIsReleased' /\ OneRuns'
  BY DEF DeletedIsReleased, OneRuns, Released
<1>5. QED
  BY <1>1, <1>2, <1>3, <1>4

\* Inside the function.
LEMMA FunctionInv ==
  ASSUME IInv, NEW n \in Id,
         Look(n) \/ Wait(n) \/ Check(n) \/ Call(n) \/ Called(n) \/ Leave(n)
  PROVE  IInv'
<1> USE ProcessAssumption
<1>1. /\ TypeOK /\ CallsRegistered /\ Locked /\ threads[n].at = "function"
      /\ UNCHANGED <<ownerVars, modules>>
      /\ n \in 0 .. Owner /\ Nobody \notin Id /\ Owner \notin Id /\ Nobody # Owner
  <2>1. TypeOK /\ CallsRegistered /\ Locked
    BY DEF IInv
  <2>2. threads[n].at = "function" /\ UNCHANGED <<ownerVars, modules>>
    BY DEF Look, Wait, Check, Call, Called, Leave, InProcess
  <2>3. n \in 0 .. Owner /\ Nobody \notin Id /\ Owner \notin Id /\ Nobody # Owner
    BY DEF Nobody, Owner, Id
  <2>4. QED
    BY <2>1, <2>2, <2>3
<1>2. CASE Look(n) \/ Wait(n) \/ Check(n)
  <2>1. PICK t, p : Inside(n, t, p) /\ p \in {"look", "wait", "check", "run"}
    BY <1>1, <1>2, ReturnInside, GoInside DEF Look, Wait, Check
  <2>2. UNCHANGED <<lock, due>> /\ woken' \in BOOLEAN
        /\ place[n] \in {"look", "wait", "check"}
        /\ (lock = Nobody \/ place[n] = "wait")
    BY <1>1, <1>2 DEF Look, Wait, Check, InProcess, TypeOK
  <2>3. ~(owner = "mark" /\ n = current)
    BY <1>1, <2>2 DEF IInv, Locked, Marking
  <2>4. TypeOK' /\ Locked' /\ CallsRegistered'
    BY <1>1, <2>1, <2>2 DEF Inside, TypeOK, Locked, InProcess, CallsRegistered, ownerVars
  <2>5. QED
    BY <1>1, <2>1, <2>3, <2>4, InsideInv DEF IInv
<1>3. CASE Call(n)
  <2>1. Inside(n, threads[n], "call") /\ lock = Nobody /\ lock' = n /\ woken' = woken
        /\ due' \subseteq modules
    BY <1>1, <1>3, GoInside DEF Call
  <2>2. ~(owner = "mark" /\ n = current)
    BY <1>1, <2>1 DEF Locked
  <2>3. TypeOK' /\ CallsRegistered'
    BY <1>1, <2>1 DEF Inside, TypeOK, CallsRegistered, ownerVars, Owner
  <2>4. Locked'
    BY <1>1, <2>1 DEF Inside, TypeOK, Locked, InProcess, ownerVars
  <2>5. QED
    BY <1>1, <2>1, <2>2, <2>3, <2>4, InsideInv DEF IInv
<1>4. CASE Called(n)
  <2>1. UNCHANGED <<threads, ownerVars, lock, modules, woken, place>> /\ due' \subseteq due
        /\ lock = n
    BY <1>1, <1>4 DEF Called, Locked
  <2>2. TypeOK' /\ Locked' /\ Targets' /\ Outside' /\ Marking'
    BY <1>1, <2>1 DEF IInv, TypeOK, Locked, Targets, Outside, Marking, InProcess, ownerVars
  <2>3. QED
    BY <2>1, <2>2 DEF IInv, DeadIsReleased, ReleasedIsDead, DeletedIsReleased,
       CallsRegistered, OneRuns, ownerVars
<1>5. CASE Leave(n)
  <2>1. /\ Inside(n, RunReturn(threads[n], TRUE), "look")
        /\ lock = n /\ lock' = Nobody /\ due = {} /\ UNCHANGED <<woken, due>>
    <3>1. lock' = Nobody /\ due = {} /\ UNCHANGED <<woken, due>> /\ Return(n, TRUE)
      BY <1>5 DEF Leave
    <3>2. lock = n
      BY <1>1, <1>5 DEF Leave, Locked
    <3>3. QED
      BY <1>1, <3>1, <3>2, ReturnInside
  <2>2. ~(owner = "mark" /\ n = current)
    BY <1>1, <2>1 DEF Locked
  <2>3. TypeOK' /\ CallsRegistered'
    <3>1. Nobody \in 0 .. Owner
      BY DEF Nobody, Owner
    <3>2. QED
      BY <1>1, <2>1, <3>1 DEF Inside, TypeOK, CallsRegistered, ownerVars
  <2>4. Locked'
    BY <1>1, <2>1 DEF Inside, TypeOK, Locked, InProcess, ownerVars
  <2>5. QED
    BY <1>1, <2>1, <2>2, <2>3, <2>4, InsideInv DEF IInv
<1>6. QED
  BY <1>2, <1>3, <1>4, <1>5

\* Every step keeps the invariant.
LEMMA NextInv == IInv /\ [Next]_vars => IInv'
<1> SUFFICES ASSUME IInv, [Next]_vars PROVE IInv'
  OBVIOUS
<1>1. CASE UNCHANGED vars
  BY <1>1 DEF vars, IInv, TypeOK, Locked, Targets, Outside, Marking, InProcess,
     DeadIsReleased, ReleasedIsDead, DeletedIsReleased, CallsRegistered, OneRuns
<1>2. CASE \E m \in Module : RegisterModule(m) \/ DeRegisterModule(m)
  BY <1>2, ModulesInv
<1>3. CASE \E n \in Id : ThreadStep(n)
  BY <1>3, RunInv, FunctionInv DEF ThreadStep
<1>4. QED
  BY <1>1, <1>2, <1>3, StartInv, OwnerInv DEF Next

(***************************************************************************)
(* The theorems                                                            *)
(***************************************************************************)

\* The invariant holds for any number of threads, late or not.
THEOREM Invariance == Spec => []IInv
<1> QED
  BY InitInv, NextInv, PTL DEF Spec

\* The values stay in their types.
THEOREM TypeCorrect == Spec => []TypeOK
<1>1. IInv => TypeOK
  BY DEF IInv
<1> QED
  BY <1>1, Invariance, PTL

\* No module is called after DeRegisterModule has returned.
THEOREM CallsSafe == Spec => []CallsRegistered
<1>1. IInv => CallsRegistered
  BY DEF IInv
<1> QED
  BY <1>1, Invariance, PTL

\* No ThreadPosix object is deleted under its thread, however slow that is.
THEOREM DeletedSafe == Spec => []DeletedIsReleased
<1>1. IInv => DeletedIsReleased
  BY DEF IInv
<1> QED
  BY <1>1, Invariance, PTL

\* A thread that has gone can be reclaimed.
THEOREM Reclaimable == Spec => []ReleasedIsDead
<1>1. IInv => ReleasedIsDead
  BY DEF IInv
<1> QED
  BY <1>1, Invariance, PTL

\* Of the threads that are not late, one at most is in Process, and none between
\* a Stop and the next Start.
THEOREM OneThread == Spec => []OnlyCurrent
<1>1. IInv => OnlyCurrent
  BY DEF IInv, OneRuns, OnlyCurrent, Released
<1> QED
  BY <1>1, Invariance, PTL

(***************************************************************************)
(* Start and Stop always have less to wait for                             *)
(***************************************************************************)

\* Start, which holds the lock meanwhile, waits for a thread that needs no lock
\* to signal, and the signal stays until Start has seen it.  The lock is else
\* with a thread that calls modules, and Stop waits without it.
StartIsAnswered ==
    /\ owner = "wait" => threads[current].at \in {"begin", "signal"}
                         \/ threads[current].event = "up"
    /\ lock # Nobody =>
          \/ lock = Owner /\ owner \in {"mark", "wait"}
          \/ lock \in Id /\ InProcess(lock, "call")

\* How far the thread that Stop polls is from its end.
StopLeft ==
    CASE threads[stopped].at = "function" /\ place[stopped] = "look" -> 6
      [] threads[stopped].at = "function" /\ place[stopped] = "wait" -> 5
      [] threads[stopped].at = "function" /\ place[stopped] = "check" -> 4
      [] threads[stopped].at = "function" /\ place[stopped] = "run" -> 3
      [] threads[stopped].at = "function" /\ place[stopped] = "call" -> 2
      [] threads[stopped].at = "last" -> 1
      [] OTHER -> 0

\* While Stop polls, no step takes its thread back, unless it is late, and each
\* step of the thread is one of six at most or a call of one more module.
StopApproaches ==
    owner \in {"stop", "stopping"} /\ stopped \notin Late =>
        /\ StopLeft' <= StopLeft
        /\ ThreadStep(stopped) => \/ StopLeft' < StopLeft
                                  \/ due' \subseteq due /\ due' # due

\* What makes it so: a thread that signalled has passed RunBegin, which would
\* revive it, and only a late one is told to stop before.
Signalled ==
    /\ \A n \in Id : threads[n].event = "up" => threads[n].at \notin {"begin", "signal"}
    /\ owner \in {"mark", "wait"} => threads[current].at \in {"begin", "signal"}
                                     \/ threads[current].event = "up"
    /\ owner = "idle" /\ current # Nobody /\ current \notin Late =>
          threads[current].at \notin {"begin", "signal"}
    /\ owner \in {"stop", "stopping"} => current = Nobody
    /\ owner \in {"stop", "stopping"} /\ stopped \notin Late =>
          threads[stopped].at \notin {"begin", "signal"} /\ ~threads[stopped].alive

\* A step of a thread, by what it does to it.
LEMMA ThreadMoves ==
  ASSUME TypeOK, NEW n \in Id, ThreadStep(n)
  PROVE  /\ UNCHANGED ownerVars
         /\ \E t \in Thread :
               /\ threads' = [threads EXCEPT ![n] = t]
               /\ t.event = threads[n].event \/ t.at = "function"
               /\ \/ threads[n].at = "begin" /\ t.at = "signal"
                  \/ threads[n].at = "signal" /\ t.at = "function" /\ t.event = "up"
                  \/ /\ threads[n].at \in {"function", "last"}
                     /\ t.at \notin {"begin", "signal"}
                     /\ t.event = threads[n].event
                     /\ t.alive => threads[n].alive
<1>0. threads[n] \in Thread
  BY DEF TypeOK
<1>1. UNCHANGED ownerVars
  BY DEF ThreadStep, Begin, Signal, End, Look, Wait, Check, Call, Called, Leave
<1>2. CASE Begin(n) \/ Signal(n)
  <2>1. RunBegin(threads[n]) \in Thread /\ RunSignal(threads[n]) \in Thread
    BY <1>0 DEF RunBegin, RunSignal, Thread
  <2> QED
    BY <1>0, <1>1, <1>2, <2>1 DEF Begin, Signal, RunBegin, RunSignal, Thread
<1>3. CASE End(n)
  <2>1. RunEnd(threads[n]) \in Thread
    BY <1>0 DEF RunEnd, Thread
  <2> QED
    BY <1>0, <1>1, <1>3, <2>1 DEF End, RunEnd, Thread
<1>4. CASE \E again \in BOOLEAN : threads[n].at = "function" /\ Return(n, again)
  <2>1. PICK again \in BOOLEAN : threads[n].at = "function" /\ Return(n, again)
    BY <1>4
  <2>2. RunReturn(threads[n], again) \in Thread
    BY <1>0, <2>1 DEF RunReturn, Thread
  <2> QED
    BY <1>0, <1>1, <2>1, <2>2 DEF Return, RunReturn, Thread
<1>5. CASE threads[n].at = "function" /\ UNCHANGED threads
  <2>1. threads' = [threads EXCEPT ![n] = threads[n]]
    BY <1>5 DEF TypeOK
  <2> QED
    BY <1>0, <1>1, <1>5, <2>1
<1> QED
  BY <1>2, <1>3, <1>4, <1>5
     DEF ThreadStep, Look, Wait, Check, Call, Called, Leave, InProcess, Go

\* Every step keeps it.
LEMMA SignalledStep == ASSUME IInv, Signalled, [Next]_vars PROVE Signalled'
<1> USE ProcessAssumption DEF IInv, TypeOK, Signalled, Targets
<1>1. CASE UNCHANGED vars
  BY <1>1 DEF vars
<1>2. CASE Start
  <2>1. /\ made' \in Id /\ threads[made'] \in Thread /\ current' = made'
        /\ threads[made'].at = "none"
    BY <1>2 DEF Start, Id, Outside
  <2>2. CASE UNCHANGED <<threads, owner, lock>>
    BY <1>2, <2>1, <2>2 DEF Start, Thread
  <2>3. CASE threads' = [threads EXCEPT ![made'] = Spawn(@)] /\ owner' = "mark"
    BY <1>2, <2>1, <2>3 DEF Start, Spawn, Thread
  <2> QED
    BY <1>2, <2>2, <2>3 DEF Start
<1>3. CASE StartMark
  <2>1. current \in Id /\ threads[current] \in Thread
    BY <1>3 DEF StartMark
  <2> QED
    BY <1>3, <2>1 DEF StartMark, MarkLive, Thread
<1>4. CASE StartWait
  <2>1. current \in Id /\ threads[current] \in Thread
    BY <1>4 DEF StartWait
  <2> QED
    BY <1>4, <2>1 DEF StartWait, Await, Thread
<1>5. CASE Stop
  <2>1. current \in Id /\ threads[current] \in Thread
    BY <1>5 DEF Stop, Id, Nobody
  <2> QED
    BY <1>5, <2>1 DEF Stop, SetNotAlive, Thread
<1>6. CASE StopAgain
  <2>1. stopped \in Id /\ threads[stopped] \in Thread
    BY <1>6 DEF StopAgain
  <2> QED
    BY <1>6, <2>1 DEF StopAgain, SetNotAlive, Thread
<1>7. CASE StopReclaims \/ StopFails
  BY <1>7 DEF StopReclaims, StopFails
<1>8. CASE \E m \in Module : RegisterModule(m) \/ DeRegisterModule(m)
  BY <1>8 DEF RegisterModule, DeRegisterModule, ownerVars
<1>9. CASE \E n \in Id : ThreadStep(n)
  <2>1. PICK n \in Id : ThreadStep(n)
    BY <1>9
  <2>2. PICK t \in Thread :
          /\ threads' = [threads EXCEPT ![n] = t]
          /\ t.event = threads[n].event \/ t.at = "function"
          /\ \/ threads[n].at = "begin" /\ t.at = "signal"
             \/ threads[n].at = "signal" /\ t.at = "function" /\ t.event = "up"
             \/ /\ threads[n].at \in {"function", "last"}
                /\ t.at \notin {"begin", "signal"}
                /\ t.event = threads[n].event
                /\ t.alive => threads[n].alive
    BY <2>1, ThreadMoves
  <2>3. UNCHANGED ownerVars
    BY <2>1, ThreadMoves
  <2>4. t.event = "up" => t.at \notin {"begin", "signal"}
    BY <2>2
  <2>5. (\A k \in Id : threads[k].event = "up" => threads[k].at \notin {"begin", "signal"})'
    BY <2>2, <2>4
  <2>6. \A k \in Id : threads'[k] = IF k = n THEN t ELSE threads[k]
    BY <2>2
  <2>7. owner \in {"mark", "wait"} => threads'[current].at \in {"begin", "signal"}
                                      \/ threads'[current].event = "up"
    BY <2>2, <2>6
  <2>8. owner = "idle" /\ current # Nobody /\ current \notin Late =>
          threads'[current].at \notin {"begin", "signal"}
    <3>1. current # Nobody => current \in Id
      BY DEF Id, Nobody
    <3> QED
      BY <2>2, <2>6, <3>1
  <2>9. owner \in {"stop", "stopping"} /\ stopped \notin Late =>
          threads'[stopped].at \notin {"begin", "signal"} /\ ~threads'[stopped].alive
    BY <2>2, <2>6 DEF Thread
  <2> QED
    BY <2>3, <2>5, <2>7, <2>8, <2>9 DEF ownerVars
<1> QED
  BY <1>1, <1>2, <1>3, <1>4, <1>5, <1>6, <1>7, <1>8, <1>9 DEF Next, OwnerStep

\* So it holds in every reachable state.
LEMMA SignalledInvariance == Spec => [](IInv /\ Signalled)
<1>1. Init => Signalled
  BY DEF Init, Signalled, NewThread, Nobody
<1>2. IInv /\ Signalled /\ [Next]_vars => Signalled'
  BY SignalledStep
<1> QED
  BY <1>1, <1>2, Invariance, PTL DEF Spec

\* Start does not wait, with the lock, for a thread that waits for the lock.
THEOREM StartAnswered == Spec => []StartIsAnswered
<1>1. IInv /\ Signalled => StartIsAnswered
  <2> SUFFICES ASSUME IInv, Signalled PROVE StartIsAnswered
    OBVIOUS
  <2>1. lock \in Id \cup {Nobody, Owner}
    BY ProcessAssumption DEF IInv, TypeOK, Id, Nobody, Owner
  <2> QED
    BY <2>1 DEF IInv, Signalled, StartIsAnswered, Locked
<1> QED
  BY <1>1, SignalledInvariance, PTL

\* The steps of others leave the thread where it is.
LEMMA StopLeftKept ==
  ASSUME UNCHANGED stopped, threads'[stopped].at = threads[stopped].at,
         place'[stopped] = place[stopped]
  PROVE  StopLeft' = StopLeft
BY DEF StopLeft

\* The rank is a number.
LEMMA StopLeftIsNat == StopLeft \in Nat /\ StopLeft' \in Nat
BY DEF StopLeft

\* The thread's own steps.
LEMMA ThreadApproaches ==
  ASSUME IInv, Signalled, owner \in {"stop", "stopping"}, stopped \notin Late,
         ThreadStep(stopped)
  PROVE  \/ StopLeft' < StopLeft
         \/ StopLeft' = StopLeft /\ due' \subseteq due /\ due' # due
<1>1. /\ stopped \in Id /\ threads[stopped] \in Thread /\ ~threads[stopped].alive
      /\ current = Nobody /\ stopped' = stopped
      /\ threads[stopped].at \notin {"begin", "signal"}
      /\ threads \in [Id -> Thread] /\ place \in [Id -> {"look", "wait", "check", "run", "call"}]
  BY ThreadMoves DEF IInv, TypeOK, Targets, Signalled, ownerVars
<1>2. ASSUME NEW again \in BOOLEAN, Return(stopped, again)
      PROVE  threads'[stopped].at = "last" /\ place'[stopped] = "look"
  BY <1>1, <1>2 DEF Return, RunReturn, Thread
<1>3. CASE Called(stopped)
  <2>1. StopLeft' = StopLeft
    BY <1>1, <1>3, StopLeftKept DEF Called
  <2>2. due' \subseteq due /\ due' # due
    BY <1>3 DEF Called
  <2> QED
    BY <2>1, <2>2
<1>4. CASE End(stopped)
  BY <1>1, <1>4 DEF End, RunEnd, Thread, StopLeft
<1>5. CASE Look(stopped)
  <2>1. /\ threads[stopped].at = "function" /\ place[stopped] = "look"
        /\ threads' = threads /\ place'[stopped] \in {"wait", "run"}
    BY <1>1, <1>5 DEF Look, InProcess, Go
  <2> QED
    BY <1>1, <2>1 DEF StopLeft
<1>6. CASE Wait(stopped)
  <2>1. threads[stopped].at = "function" /\ place[stopped] = "wait"
    BY <1>6 DEF Wait, InProcess
  <2>2. CASE Go(stopped, "check")
    <3>1. threads' = threads /\ place'[stopped] = "check"
      BY <1>1, <2>2 DEF Go
    <3> QED
      BY <1>1, <2>1, <3>1 DEF StopLeft
  <2>3. CASE Return(stopped, TRUE)
    <3>1. threads'[stopped].at = "last"
      BY <1>2, <2>3
    <3> QED
      BY <1>1, <2>1, <3>1 DEF StopLeft
  <2> QED
    BY <1>6, <2>2, <2>3 DEF Wait
<1>7. CASE Check(stopped) \/ Leave(stopped)
  <2>1. /\ threads[stopped].at = "function" /\ place[stopped] \in {"check", "call"}
        /\ \E again \in BOOLEAN : Return(stopped, again)
    BY <1>1, <1>7 DEF Check, Leave, InProcess
  <2>2. threads'[stopped].at = "last"
    BY <1>2, <2>1
  <2> QED
    BY <1>1, <2>1, <2>2 DEF StopLeft
<1>8. CASE Call(stopped)
  <2>1. /\ threads[stopped].at = "function" /\ place[stopped] = "run"
        /\ threads' = threads /\ place'[stopped] = "call"
    BY <1>1, <1>8 DEF Call, InProcess, Go
  <2> QED
    BY <1>1, <2>1 DEF StopLeft
<1>9. ~Begin(stopped) /\ ~Signal(stopped)
  BY <1>1 DEF Begin, Signal
<1> QED
  BY <1>3, <1>4, <1>5, <1>6, <1>7, <1>8, <1>9 DEF ThreadStep

\* The thread of another number, however late, does not delay it.
LEMMA OthersKeep ==
  ASSUME IInv, NEW n \in Id, stopped \in Id, n # stopped, ThreadStep(n)
  PROVE  StopLeft' = StopLeft
<1>1. UNCHANGED ownerVars /\ threads'[stopped] = threads[stopped]
  BY ThreadMoves DEF IInv, TypeOK
<1>2. place'[stopped] = place[stopped]
  BY DEF IInv, TypeOK, ThreadStep, Begin, Signal, End, Look, Wait, Check, Call, Called,
         Leave, Go, Return
<1> QED
  BY <1>1, <1>2, StopLeftKept DEF ownerVars

\* Stop comes nearer to its end with every step of the thread that it polls: if
\* modules return, so does Stop, and it reclaims the thread.
THEOREM StopApproachesEnd == Spec => [][StopApproaches]_vars
<1>1. ASSUME IInv, Signalled, [Next]_vars, owner \in {"stop", "stopping"}, stopped \notin Late
      PROVE  /\ StopLeft' <= StopLeft
             /\ ThreadStep(stopped) => StopLeft' < StopLeft \/ (due' \subseteq due /\ due' # due)
  <2>1. stopped \in Id /\ threads[stopped] \in Thread /\ threads \in [Id -> Thread]
    BY <1>1 DEF IInv, TypeOK, Targets
  <2>2. ASSUME UNCHANGED vars \/ StopReclaims \/ StopFails
               \/ \E m \in Module : RegisterModule(m) \/ DeRegisterModule(m)
        PROVE  StopLeft' = StopLeft
    <3>1. UNCHANGED <<threads, place, stopped>>
      BY <2>2 DEF vars, StopReclaims, StopFails, RegisterModule, DeRegisterModule, ownerVars
    <3> QED
      BY <3>1, StopLeftKept
  <2>3. ASSUME StopAgain PROVE StopLeft' = StopLeft
    <3>1. SetNotAlive(threads[stopped]).at = threads[stopped].at
      BY <2>1 DEF SetNotAlive, Thread
    <3> QED
      BY <2>1, <2>3, <3>1, StopLeftKept DEF StopAgain
  <2>4. ASSUME NEW n \in Id, ThreadStep(n) PROVE StopLeft' <= StopLeft
    <3>1. CASE n = stopped
      BY <1>1, <2>4, <3>1, ThreadApproaches, StopLeftIsNat
    <3>2. CASE n # stopped
      BY <1>1, <2>1, <2>4, <3>2, OthersKeep, StopLeftIsNat
    <3> QED
      BY <3>1, <3>2
  <2>5. ~Start /\ ~Stop /\ ~StartMark /\ ~StartWait
    BY <1>1 DEF Start, Stop, StartMark, StartWait
  <2>6. StopLeft' <= StopLeft
    BY <1>1, <2>2, <2>3, <2>4, <2>5, StopLeftIsNat DEF Next, OwnerStep
  <2> QED
    BY <1>1, <2>6, ThreadApproaches
<1>2. IInv /\ Signalled /\ [Next]_vars => StopApproaches
  BY <1>1 DEF StopApproaches
<1> QED
  BY <1>2, SignalledInvariance, PTL DEF Spec
==============================================================================
