---------------------- MODULE IncomingVideoStream_proof ----------------------
(***************************************************************************)
(* Proofs about IncomingVideoStream, for a queue of any length: who calls  *)
(* whom, and that StopRender and RemoveRenderer, which wait for threads    *)
(* while they hold locks, have less to wait for with each of their steps.  *)
(***************************************************************************)
EXTENDS IncomingVideoStream, TLAPS

-----------------------------------------------------------------------------
(* The inductive invariant                                                 *)

\* A frame is in the hand of the thread from where it is taken to where it is
\* given back.
HandInv ==
    /\ hand => thread.at \in {"arm", "render", "give"}
    /\ thread.at \in {"render", "give"} => hand

\* Threads exist while the stream runs; Stop ends them one after the other, and
\* nobody arms the timer again behind its back.
StopInv ==
    /\ thread.at # "none" \/ timer.at # "none" => running
    /\ api \in {"lock", "timer", "join"} => running
    /\ api \in {"timer", "join"} => ~hasThread /\ ~ThreadHasLock
    /\ api = "join" => timer.at = "none"
    /\ api \in {"stream", "channel", "module", "screen"} => ~running

\* What RemoveRenderer takes away, in which order.
RemoveInv ==
    /\ running => stream
    /\ stream => channel /\ api \notin {"channel", "module", "screen"}
    /\ updated \/ screen = "draw" => channel
    /\ channel => api \notin {"module", "screen"}
    /\ api = "idle" => ~removing
    /\ api \in {"stream", "channel", "module", "screen"} => removing
    /\ removing => ~registered
    /\ registered => stream

IInv == TypeOK /\ HandInv /\ StopInv /\ RemoveInv

\* At first there is no object and no thread.
LEMMA InitInv == Init => IInv
<1> SUFFICES ASSUME Init PROVE IInv
  OBVIOUS
<1>1. thread \in Thread /\ thread.at = "none"
  BY DEF Init, Thread, NoThread, Places
<1>2. timer \in Timer /\ timer.at = "none"
  BY DEF Init, Timer, NoTimer
<1>3. api \in Calls /\ event \in {"down", "up"} /\ screen \in {"none", "wait", "draw", "gone"}
  BY DEF Init, Calls
<1>4. /\ queued \in Nat /\ due \in 0 .. queued /\ empty \in Nat
      /\ queued + empty + (IF hand THEN 1 ELSE 0) <= MaxFrames + 2
  BY FramesAssumption, SMT DEF Init
<1>5. /\ removing = FALSE /\ registered = FALSE /\ stream = FALSE /\ channel = FALSE
      /\ running = FALSE /\ hasThread = FALSE /\ hand = FALSE
      /\ updated = FALSE /\ screening = FALSE
  BY Zenon DEF Init
<1>6. api = "idle" /\ screen = "none"
  BY DEF Init
<1>7. TypeOK
  BY <1>1, <1>2, <1>3, <1>4, <1>5, Zenon DEF TypeOK
<1> QED
  BY <1>1, <1>2, <1>5, <1>6, <1>7 DEF IInv, HandInv, StopInv, RemoveInv

-----------------------------------------------------------------------------
(* The timer                                                               *)

\* The owner's calls and the steps of its thread give a timer again, and only the
\* owner creates its thread and takes it away.
LEMMA TimerTypes ==
  ASSUME NEW t \in Timer
  PROVE  /\ StartTimer(t) \in Timer /\ StartTimer(t).at # "none"
         /\ EndTimer(t) \in Timer /\ EndTimer(t).at = t.at
         /\ TimerBase(t) \in Timer /\ TimerBase(t).at # "none"
         /\ TimerEnter(t) \in Timer /\ TimerEnter(t).at # "none"
         /\ TimerWoken(t) \in Timer /\ TimerWoken(t).at # "none"
         /\ TimerExpires(t) \in Timer /\ TimerExpires(t).at # "none"
         /\ TimerFire(t) \in Timer /\ TimerFire(t).at # "none"
         /\ TimerReturn(t) \in Timer /\ TimerReturn(t).at # "none"
         /\ NoTimer \in Timer /\ NoTimer.at = "none"
<1> USE DEF Timer
<1>1. StartTimer(t) \in Timer /\ StartTimer(t).at # "none"
  BY DEF StartTimer
<1>2. EndTimer(t) \in Timer /\ EndTimer(t).at = t.at
  BY DEF EndTimer
<1>3. TimerBase(t) \in Timer /\ TimerBase(t).at # "none"
  <2>1. (IF t.based THEN 2 ELSE 1) \in 0 .. 2
    OBVIOUS
  <2> QED
    BY <2>1 DEF TimerBase
<1>4. TimerEnter(t) \in Timer /\ TimerEnter(t).at # "none"
  BY DEF TimerEnter
<1>5. TimerWoken(t) \in Timer /\ TimerWoken(t).at # "none"
  BY DEF TimerWoken
<1>6. TimerExpires(t) \in Timer /\ TimerExpires(t).at # "none"
  BY DEF TimerExpires
<1>7. TimerFire(t) \in Timer /\ TimerFire(t).at # "none"
  <2>1. (t.armed /\ ~Fires(t)) \in BOOLEAN
    OBVIOUS
  <2> QED
    BY <2>1 DEF TimerFire
<1>8. TimerReturn(t) \in Timer /\ TimerReturn(t).at # "none"
  BY DEF TimerReturn
<1>9. NoTimer \in Timer /\ NoTimer.at = "none"
  BY DEF NoTimer
<1> QED
  BY <1>1, <1>2, <1>3, <1>4, <1>5, <1>6, <1>7, <1>8, <1>9

\* The timer thread leaves everything else alone, but for the event.
LEMMA TimerThreadInv == ASSUME IInv, TimerThread PROVE IInv'
<1>1. timer \in Timer /\ timer.at # "none"
  BY DEF IInv, TypeOK, TimerThread, TimerStep, TimerSets
<1>2. timer' \in Timer /\ timer'.at # "none"
  BY <1>1, TimerTypes DEF TimerThread, TimerStep, TimerSets
<1>3. event' \in {"down", "up"}
  BY DEF IInv, TypeOK, TimerThread, TimerStep, TimerSets
<1>4. UNCHANGED <<calls, objects, thread, frames, view>>
  BY DEF TimerThread, TimerStep, TimerSets
<1>5. api # "join"
  BY <1>1 DEF IInv, StopInv
<1> QED
  BY <1>1, <1>2, <1>3, <1>4, <1>5
     DEF IInv, TypeOK, HandInv, StopInv, RemoveInv, ThreadHasLock,
         calls, objects, frames, view

-----------------------------------------------------------------------------
(* The application                                                         *)

\* A new renderer has its objects and no thread of the stream yet; one that is
\* refused has none.
LEMMA AddRendererInv == ASSUME IInv, AddRenderer \/ AddRefused PROVE IInv'
<1>1. /\ screening' \in BOOLEAN /\ screen' \in {"none", "wait", "draw", "gone"}
      /\ screen' = screen \/ screen' # "draw"
  BY DEF IInv, TypeOK, AddRenderer, AddRefused, CreateModule
<1>2. CASE AddRenderer
  BY <1>1, <1>2 DEF IInv, TypeOK, HandInv, StopInv, RemoveInv, ThreadHasLock, AddRenderer,
                    frames
<1>3. CASE AddRefused
  BY <1>1, <1>3 DEF IInv, TypeOK, HandInv, StopInv, RemoveInv, ThreadHasLock, AddRefused,
                    calls, objects, frames
<1> QED
  BY <1>2, <1>3

\* Start, with and without a thread.
LEMMA StartInv == ASSUME IInv, Start PROVE IInv'
<1>1. thread' \in Thread /\ timer' \in Timer
  <2>1. [at |-> "wait", alive |-> TRUE] \in Thread
    BY DEF Thread, Places
  <2> QED
    BY <2>1, TimerTypes DEF IInv, TypeOK, Start
<1>2. thread.at = "none" /\ timer.at = "none" /\ ~hand
  BY DEF IInv, TypeOK, StopInv, HandInv, Start
<1>3. thread'.at \in {"none", "wait"} /\ (thread'.at # "none" \/ timer'.at # "none" => running')
  BY <1>2 DEF Start, IInv, TypeOK, Thread
<1> QED
  BY <1>1, <1>2, <1>3
     DEF IInv, TypeOK, HandInv, StopInv, RemoveInv, ThreadHasLock, Start,
         calls, frames, view

\* The calls that stop the stream or remove it begin.
LEMMA StopBeginInv == ASSUME IInv, StopRender \/ RemoveRenderer PROVE IInv'
<1>1. CASE StopRender
  BY <1>1 DEF IInv, TypeOK, HandInv, StopInv, RemoveInv, ThreadHasLock, StopRender,
              Calls, objects, frames, view
<1>2. CASE RemoveRenderer
  BY <1>2 DEF IInv, TypeOK, HandInv, StopInv, RemoveInv, ThreadHasLock,
              RemoveRenderer, Calls, objects, frames, view
<1> QED
  BY <1>1, <1>2

\* With both locks the thread is nowhere between Enter and Leave.
LEMMA StopLockInv == ASSUME IInv, StopLock PROVE IInv'
<1>1. thread' \in Thread /\ thread'.at = thread.at
  BY DEF IInv, TypeOK, StopLock, Thread
<1>2. timer' \in Timer /\ timer'.at = timer.at
  BY TimerTypes DEF IInv, TypeOK, StopLock
<1> QED
  BY <1>1, <1>2 DEF IInv, TypeOK, HandInv, StopInv, RemoveInv, ThreadHasLock, StopLock,
                    Calls, frames, view

\* The threads that Stop waits for have gone.
LEMMA StopTimerInv == ASSUME IInv, StopTimer PROVE IInv'
BY TimerTypes DEF IInv, TypeOK, HandInv, StopInv, RemoveInv, ThreadHasLock, StopTimer,
                  Calls, objects, frames, view

\* Stop joins the thread of the stream.
LEMMA StopThreadInv == ASSUME IInv, StopThread PROVE IInv'
<1>1. NoThread \in Thread /\ NoThread.at = "none"
  BY DEF NoThread, Thread, Places
<1> QED
  BY <1>1 DEF IInv, TypeOK, HandInv, StopInv, RemoveInv, ThreadHasLock, StopThread,
              Calls, frames, view

\* The objects go in order, each with nobody left who uses it.
LEMMA DeleteInv ==
  ASSUME IInv, DeleteStream \/ DeleteChannel \/ EndScreen \/ JoinScreen PROVE IInv'
<1>1. CASE DeleteStream
  <2>1. ~hand /\ thread.at = "none" /\ timer.at = "none"
    BY <1>1 DEF IInv, TypeOK, HandInv, StopInv, DeleteStream
  <2> QED
    <3>1. /\ queued' = 0 /\ due' = 0 /\ empty' = 0 /\ hand' = hand
          /\ hand' \in BOOLEAN /\ ~hand'
      BY <1>1, <2>1 DEF DeleteStream, IInv, TypeOK
    <3>2. /\ queued' \in Nat /\ due' \in 0 .. queued' /\ empty' \in Nat
          /\ queued' + empty' + (IF hand' THEN 1 ELSE 0) <= MaxFrames + 2
      BY <3>1, FramesAssumption
    <3> QED
      BY <1>1, <2>1, <3>1, <3>2
         DEF IInv, TypeOK, HandInv, StopInv, RemoveInv, ThreadHasLock, DeleteStream,
             Calls, view
<1>2. CASE DeleteChannel
  BY <1>2 DEF IInv, TypeOK, HandInv, StopInv, RemoveInv, ThreadHasLock, DeleteChannel,
              ScreenHasLock, Calls, frames
<1>3. CASE EndScreen
  BY <1>3 DEF IInv, TypeOK, HandInv, StopInv, RemoveInv, ThreadHasLock, EndScreen,
              Calls, objects, frames
<1>4. CASE JoinScreen
  BY <1>4 DEF IInv, TypeOK, HandInv, StopInv, RemoveInv, ThreadHasLock, JoinScreen,
              Calls, objects, frames
<1> QED
  BY <1>1, <1>2, <1>3, <1>4

-----------------------------------------------------------------------------
(* The frames                                                              *)

\* A frame is added only where the pool has room, and a free one is used again.
LEMMA RenderFrameInv == ASSUME IInv, RenderFrame PROVE IInv'
<1>1. /\ queued' \in Nat /\ due' \in 0 .. queued' /\ empty' \in Nat
      /\ queued' + empty' + (IF hand' THEN 1 ELSE 0) <= MaxFrames + 2
  BY FramesAssumption DEF IInv, TypeOK, RenderFrame, HasRoom
<1> QED
  BY <1>1 DEF IInv, TypeOK, HandInv, StopInv, RemoveInv, ThreadHasLock, RenderFrame,
              calls, objects, view

\* A frame becomes due.
LEMMA BecomeDueInv == ASSUME IInv, BecomeDue PROVE IInv'
BY DEF IInv, TypeOK, HandInv, StopInv, RemoveInv, ThreadHasLock, BecomeDue,
       calls, objects, view

\* The thread's place changes as its step says.
LEMMA StreamThreadMoves ==
  ASSUME IInv, StreamThread
  PROVE  /\ thread' \in Thread
         /\ thread'.at # "none" /\ thread.at # "none"
         /\ Wait => thread'.at = "enter"
         /\ Enter => thread'.at = IF hasThread THEN "take" ELSE "gone"
         /\ FrameToRender => thread'.at = "arm"
         /\ ArmTimer => thread'.at = IF hand THEN "render" ELSE "return"
         /\ Render => thread'.at = "give"
         /\ ReturnFrame => thread'.at = "return"
         /\ Return => thread'.at \in {"wait", "gone"}
BY DEF IInv, TypeOK, Thread, Places, StreamThread, Wait, Enter, FrameToRender, ArmTimer,
       Render, ReturnFrame, Return

\* Waiting, entering and returning do not touch the frames.
LEMMA RoundInv == ASSUME IInv, Wait \/ Enter \/ Return PROVE IInv'
<1>1. /\ thread' \in Thread /\ thread'.at # "none" /\ thread.at # "none"
      /\ thread'.at \in {"enter", "take", "gone", "wait"}
      /\ thread'.at = "take" => hasThread
  BY StreamThreadMoves DEF StreamThread
<1>2. ~hand
  BY DEF IInv, HandInv, Wait, Enter, Return
<1>3. UNCHANGED <<calls, objects, timer, frames, view>> /\ event' \in {"down", "up"}
  BY DEF IInv, TypeOK, Wait, Enter, Return
<1> QED
  BY <1>1, <1>2, <1>3 DEF IInv, TypeOK, HandInv, StopInv, RemoveInv, ThreadHasLock,
                          calls, objects, frames, view

\* Of what is due one frame comes into the hand, the others are free.
LEMMA FrameToRenderInv == ASSUME IInv, FrameToRender PROVE IInv'
<1>1. /\ queued' \in Nat /\ due' \in 0 .. queued' /\ empty' \in Nat /\ hand' \in BOOLEAN
      /\ queued' + empty' + (IF hand' THEN 1 ELSE 0) <= MaxFrames + 2
  <2>1. ~hand
    BY DEF IInv, HandInv, FrameToRender
  <2> QED
    BY <2>1, FramesAssumption DEF IInv, TypeOK, FrameToRender
<1>2. thread' \in Thread /\ thread'.at = "arm" /\ thread.at = "take"
  BY StreamThreadMoves DEF StreamThread, FrameToRender
<1> QED
  BY <1>1, <1>2 DEF IInv, TypeOK, HandInv, StopInv, RemoveInv, ThreadHasLock,
                    FrameToRender, calls, objects, view

\* The timer is armed by the holder of thread_critsect_ only.
LEMMA ArmTimerInv == ASSUME IInv, ArmTimer PROVE IInv'
<1>1. timer' \in Timer
  BY TimerTypes DEF IInv, TypeOK, ArmTimer
<1>2. /\ thread' \in Thread /\ thread.at = "arm"
      /\ thread'.at = IF hand THEN "render" ELSE "return"
  BY StreamThreadMoves DEF StreamThread, ArmTimer
<1> QED
  BY <1>1, <1>2 DEF IInv, TypeOK, HandInv, StopInv, RemoveInv, ThreadHasLock, ArmTimer,
                    calls, objects, frames, view

\* The frame is copied to the channel and given back to the pool.
LEMMA RenderInv == ASSUME IInv, Render \/ ReturnFrame PROVE IInv'
<1>1. CASE Render
  <2>1. thread' \in Thread /\ thread'.at = "give" /\ thread.at = "render"
    BY <1>1, StreamThreadMoves DEF StreamThread, Render
  <2> QED
    BY <1>1, <2>1 DEF IInv, TypeOK, HandInv, StopInv, RemoveInv, ThreadHasLock, Render,
                      calls, objects, frames
<1>2. CASE ReturnFrame
  <2>1. thread' \in Thread /\ thread'.at = "return" /\ thread.at = "give"
    BY <1>2, StreamThreadMoves DEF StreamThread, ReturnFrame
  <2>2. /\ empty' \in Nat
        /\ queued' + empty' + (IF hand' THEN 1 ELSE 0) <= MaxFrames + 2
    BY <1>2, FramesAssumption DEF IInv, TypeOK, HandInv, ReturnFrame
  <2> QED
    BY <1>2, <2>1, <2>2 DEF IInv, TypeOK, HandInv, StopInv, RemoveInv, ThreadHasLock,
                            ReturnFrame, calls, objects, view
<1> QED
  BY <1>1, <1>2

\* The screen update thread draws a channel that exists.
LEMMA ScreenThreadInv == ASSUME IInv, ScreenThread PROVE IInv'
<1>1. /\ screen' \in {"none", "wait", "draw", "gone"} /\ updated' \in BOOLEAN
      /\ updated' => updated
      /\ screen' = "draw" => updated
  <2>1. CASE ScreenUpdate
    <3>1. screen' \in {"none", "wait", "draw", "gone"} /\ (screen' = "draw" => updated)
      BY <2>1 DEF ScreenUpdate
    <3>2. updated' = updated /\ updated \in BOOLEAN
      BY <2>1 DEF ScreenUpdate, IInv, TypeOK
    <3> QED
      BY <3>1, <3>2
  <2>2. CASE ScreenDrawn
    <3>1. updated \in BOOLEAN
      BY DEF IInv, TypeOK
    <3>2. screen' = "wait" /\ (updated' = updated \/ updated' = FALSE)
      BY <2>2 DEF ScreenDrawn
    <3>3. updated' \in BOOLEAN
      BY <3>1, <3>2, Zenon
    <3>4. updated' => updated
      BY <3>1, <3>2, Zenon
    <3>5. screen' \in {"none", "wait", "draw", "gone"} /\ screen' # "draw"
      BY <3>2
    <3> QED
      BY <3>3, <3>4, <3>5, Zenon
  <2> QED
    BY <2>1, <2>2 DEF ScreenThread
<1>2. UNCHANGED <<calls, objects, thread, event, timer, frames, screening>>
  BY DEF ScreenThread, ScreenUpdate, ScreenDrawn
<1> QED
  BY <1>1, <1>2 DEF IInv, TypeOK, HandInv, StopInv, RemoveInv, ThreadHasLock,
                    calls, objects, frames

-----------------------------------------------------------------------------
(* The theorems                                                            *)

\* Every step keeps the invariant.
LEMMA NextInv == IInv /\ [Next]_vars => IInv'
<1> SUFFICES ASSUME IInv, [Next]_vars PROVE IInv'
  OBVIOUS
<1>1. CASE UNCHANGED vars
  BY <1>1 DEF IInv, TypeOK, HandInv, StopInv, RemoveInv, ThreadHasLock, vars, calls,
              objects, frames, view
<1>2. CASE StopSteps
  BY <1>2, StopTimerInv, StopThreadInv, DeleteInv DEF StopSteps
<1>3. CASE StreamThread
  BY <1>3, RoundInv, FrameToRenderInv, ArmTimerInv, RenderInv DEF StreamThread
<1> QED
  BY <1>1, <1>2, <1>3, AddRendererInv, StartInv, StopBeginInv, StopLockInv,
     RenderFrameInv, BecomeDueInv, TimerThreadInv, ScreenThreadInv DEF Next

\* The invariant holds in every reachable state.
LEMMA Invariant == Spec => []IInv
BY InitInv, NextInv, PTL DEF Spec

\* The stream keeps its types, and never has more than MaxFrames + 2 frames.
THEOREM TypeCorrect == Spec => []TypeOK
<1>1. IInv => TypeOK
  BY DEF IInv
<1> QED
  BY <1>1, Invariant, PTL

\* No thread calls the stream or the channel of the view after it was deleted.
THEOREM CalleesAlive == Spec => []CalleeAlive
<1>1. IInv => CalleeAlive
  BY DEF IInv, TypeOK, HandInv, StopInv, RemoveInv, CalleeAlive, TimerRuns
<1> QED
  BY <1>1, Invariant, PTL

-----------------------------------------------------------------------------
(* StopRender and RemoveRenderer always have less to wait for              *)

\* The thread that Stop or the deletion of the view waits for is there and was
\* told to end: the event that wakes the timer is not lost, the thread of the
\* stream finds incoming_render_thread_ gone, and the screen update thread, if it
\* was started, the module.
ToldToEnd ==
    /\ api = "timer" =>
          /\ timer.at # "none" /\ ~timer.alive /\ ~ThreadHasLock
          /\ timer.at \in {"base", "enter", "wait"} => timer.event = "up"
    /\ api = "join" => thread.at # "none" /\ ~thread.alive /\ ~hasThread /\ ~ThreadHasLock
    /\ api = "channel" => screening /\ screen # "gone"
    /\ api = "screen" => ~screening /\ screen # "draw"

\* How many steps a thread that was told to end may still take.
TimerLeft ==
    CASE timer.at = "base" -> 5
      [] timer.at = "enter" -> 4
      [] timer.at = "wait" -> 3
      [] timer.at = "fire" -> 2
      [] timer.at = "return" -> 1
      [] OTHER -> 0

ThreadLeft ==
    CASE thread.at \in {"wait", "give"} -> 2
      [] thread.at \in {"enter", "return"} -> 1
      [] OTHER -> 0

ScreenLeft == IF screen = "wait" THEN 1 ELSE 0

\* How far StopRender or RemoveRenderer is from its end, with stream_critsect_.
Left ==
    CASE api = "timer" -> 20 + TimerLeft
      [] api = "join" -> 10 + ThreadLeft
      [] api = "stream" -> 9
      [] api = "channel" -> 5
      [] api = "module" -> 4
      [] api = "screen" -> 2 + ScreenLeft
      [] OTHER -> 0

\* The steps that the call waits for, and its own.  The channel waits for a lock
\* only, which the screen update thread frees with its next step and may take again
\* as long as its repaints fail.
Waited ==
    \/ StopSteps
    \/ api = "timer" /\ TimerThread
    \/ api = "join" /\ StreamThread
    \/ api = "screen" /\ ScreenThread

\* Nothing takes the call back, and every step that it waits for brings it
\* nearer to its end: new frames and an armed timer do not delay it, and a repaint
\* does not take it back.
Approaches ==
    api \notin {"idle", "lock"} => Left' <= Left /\ (Waited => Left' < Left)

\* What makes it so: threads are there while somebody may wait for them.
ThereInv ==
    /\ running => thread.at # "none"
    /\ running /\ api # "join" => timer.at # "none"
    /\ api \in {"timer", "join"} => ~thread.alive
    /\ api = "timer" =>
          /\ ~timer.alive
          /\ timer.at \in {"base", "enter", "wait"} => timer.event = "up"
    /\ api = "stream" => stream
    /\ stream \/ api \in {"channel", "module"} => screening
    /\ screening => screen # "gone"
    /\ api = "screen" => ~screening

\* At first nobody waits for a thread.
LEMMA ThereInit == Init => ThereInv
BY DEF Init, ThereInv, NoThread, NoTimer

\* A timer that was told to end does not go to sleep again.
LEMMA TimerThere ==
  ASSUME IInv, ThereInv, TimerThread
  PROVE  /\ timer.at # "none" /\ timer'.at # "none"
         /\ ~timer.alive => ~timer'.alive
         /\ ~timer.alive /\ (timer.at \in {"base", "enter", "wait"} => timer.event = "up") =>
               /\ timer'.at \in {"base", "enter", "wait"} => timer'.event = "up"
               /\ TimerLeft' < TimerLeft
<1>1. timer \in Timer
  BY DEF IInv, TypeOK
<1>2. CASE timer.at = "base" /\ timer' = TimerBase(timer)
  BY <1>1, <1>2 DEF Timer, TimerBase, TimerLeft
<1>3. CASE timer.at = "enter" /\ timer' = TimerEnter(timer)
  BY <1>1, <1>3 DEF Timer, TimerEnter, TimerLeft
<1>4. CASE timer.at = "wait" /\ (timer' = TimerWoken(timer) \/ timer' = TimerExpires(timer))
  <2>1. /\ timer'.at \in {"return", "fire"} /\ timer'.alive = timer.alive
    BY <1>1, <1>4 DEF Timer, TimerWoken, TimerExpires
  <2> QED
    BY <1>4, <2>1 DEF TimerLeft
<1>5. CASE timer.at = "return" /\ timer' = TimerReturn(timer)
  BY <1>1, <1>5 DEF Timer, TimerReturn, TimerLeft
<1>6. CASE timer.at = "fire" /\ timer' = TimerFire(timer)
  BY <1>1, <1>6 DEF Timer, TimerFire, TimerLeft
<1> QED
  BY <1>2, <1>3, <1>4, <1>5, <1>6 DEF TimerThread, TimerStep, TimerSets

\* Every step keeps the threads there.
LEMMA ThereStep == ASSUME IInv, ThereInv, [Next]_vars PROVE ThereInv'
<1> USE DEF calls, objects, frames, view
<1>1. CASE UNCHANGED vars
  BY <1>1 DEF ThereInv, vars
<1>2. CASE AddRenderer \/ AddRefused
  BY <1>2 DEF IInv, StopInv, RemoveInv, ThereInv, AddRenderer, AddRefused, CreateModule
<1>3. CASE Start
  <2>1. StartTimer(timer).at # "none"
    BY TimerTypes DEF IInv, TypeOK
  <2> QED
    BY <1>3, <2>1 DEF ThereInv, Start
<1>4. CASE StopRender \/ RemoveRenderer
  BY <1>4 DEF IInv, StopInv, RemoveInv, ThereInv, StopRender, RemoveRenderer
<1>5. CASE StopLock
  <2>1. /\ EndTimer(timer).at = timer.at /\ ~EndTimer(timer).alive
        /\ EndTimer(timer).event = "up"
    BY DEF IInv, TypeOK, Timer, EndTimer
  <2>2. thread'.at = thread.at /\ ~thread'.alive
    BY <1>5 DEF IInv, TypeOK, Thread, StopLock
  <2> QED
    BY <1>5, <2>1, <2>2 DEF ThereInv, StopLock
<1>6. CASE StopTimer
  BY <1>6 DEF IInv, StopInv, ThereInv, StopTimer
<1>7. CASE StopThread
  BY <1>7 DEF IInv, StopInv, RemoveInv, ThereInv, StopThread, NoThread
<1>8. CASE DeleteStream \/ DeleteChannel \/ EndScreen \/ JoinScreen
  BY <1>8 DEF IInv, StopInv, RemoveInv, ThereInv, DeleteStream, DeleteChannel,
              EndScreen, JoinScreen
<1>9. CASE RenderFrame \/ BecomeDue
  BY <1>9 DEF ThereInv, RenderFrame, BecomeDue
<1>10. CASE StreamThread
  <2>1. /\ thread'.at # "none" /\ thread.at # "none"
        /\ running /\ api \notin {"stream", "channel", "module", "screen"}
    BY <1>10, StreamThreadMoves DEF IInv, StopInv
  <2>2. thread'.alive = thread.alive
    BY <1>10 DEF IInv, TypeOK, Thread, StreamThread, Wait, Enter, FrameToRender, ArmTimer,
                 Render, ReturnFrame, Return
  <2>3. timer' = timer \/ (timer'.at # "none" /\ api \notin {"timer", "join"})
    <3>1. CASE ArmTimer
      BY <3>1, TimerTypes DEF IInv, TypeOK, StopInv, ThreadHasLock, ArmTimer
    <3> QED
      BY <1>10, <3>1 DEF StreamThread, Wait, Enter, FrameToRender, Render, ReturnFrame, Return
  <2>4. UNCHANGED <<calls, objects, screening, screen>>
    BY <1>10 DEF StreamThread, Wait, Enter, FrameToRender, ArmTimer, Render, ReturnFrame, Return
  <2> QED
    BY <2>1, <2>2, <2>3, <2>4 DEF ThereInv
<1>11. CASE TimerThread
  <2>1. UNCHANGED <<calls, objects, thread, frames, view>>
    BY <1>11 DEF TimerThread, TimerStep, TimerSets
  <2> QED
    BY <1>11, <2>1, TimerThere DEF ThereInv
<1>12. CASE ScreenThread
  <2>1. UNCHANGED <<calls, objects, thread, timer, screening>>
    BY <1>12 DEF ScreenThread, ScreenUpdate, ScreenDrawn
  <2>2. screening => screen' # "gone"
    BY <1>12 DEF ScreenThread, ScreenUpdate, ScreenDrawn
  <2> QED
    BY <2>1, <2>2 DEF ThereInv
<1> QED
  BY <1>1, <1>2, <1>3, <1>4, <1>5, <1>6, <1>7, <1>8, <1>9, <1>10, <1>11, <1>12
     DEF Next, StopSteps

\* So they are there in every reachable state.
LEMMA ThereInvariance == Spec => [](IInv /\ ThereInv)
<1>1. IInv /\ ThereInv /\ [Next]_vars => ThereInv'
  BY ThereStep
<1> QED
  BY <1>1, ThereInit, Invariant, PTL DEF Spec

\* Whoever Stop waits for will end.
THEOREM StopHasEnd == Spec => []ToldToEnd
<1>1. IInv /\ ThereInv => ToldToEnd
  BY DEF IInv, TypeOK, StopInv, RemoveInv, ThereInv, ToldToEnd
<1> QED
  BY <1>1, ThereInvariance, PTL

-----------------------------------------------------------------------------

\* What is left is a number, and at most as much as the phase of the call allows.
LEMMA LeftBounds ==
  /\ TimerLeft \in 0 .. 5 /\ ThreadLeft \in 0 .. 2
  /\ ScreenLeft \in 0 .. 1
BY DEF TimerLeft, ThreadLeft, ScreenLeft

\* The same after a step.
LEMMA LeftBoundsNext ==
  /\ TimerLeft' \in 0 .. 5 /\ ThreadLeft' \in 0 .. 2
  /\ ScreenLeft' \in 0 .. 1
BY DEF TimerLeft, ThreadLeft, ScreenLeft

\* The call's own steps.
LEMMA StopApproaches ==
  ASSUME IInv, StopSteps PROVE Left' < Left
<1>1. CASE StopTimer
  BY <1>1, LeftBounds, LeftBoundsNext DEF StopTimer, Left
<1>2. CASE StopThread
  BY <1>2, LeftBounds DEF StopThread, Left
<1>3. CASE DeleteStream
  BY <1>3, LeftBoundsNext DEF DeleteStream, Left
<1>4. CASE DeleteChannel
  BY <1>4, LeftBounds DEF DeleteChannel, Left
<1>5. CASE EndScreen
  BY <1>5, LeftBoundsNext DEF EndScreen, Left
<1>6. CASE JoinScreen
  BY <1>6, LeftBounds DEF JoinScreen, Left
<1> QED
  BY <1>1, <1>2, <1>3, <1>4, <1>5, <1>6 DEF StopSteps

\* The thread of the stream takes two steps at most when it was told to end.
LEMMA StreamApproaches ==
  ASSUME IInv, ThereInv, StreamThread, api \in {"timer", "join"}
  PROVE  ThreadLeft' < ThreadLeft /\ UNCHANGED <<api, timer>>
<1>1. ~hasThread /\ ~ThreadHasLock /\ ~thread.alive /\ thread \in Thread
  BY DEF IInv, TypeOK, StopInv, ThereInv
<1>2. CASE Wait \/ Enter
  BY <1>1, <1>2 DEF Wait, Enter, Thread, ThreadLeft, calls
<1>3. CASE ReturnFrame \/ Return
  BY <1>1, <1>3 DEF ReturnFrame, Return, Thread, ThreadLeft, calls
<1>4. ~FrameToRender /\ ~ArmTimer /\ ~Render
  BY <1>1 DEF ThreadHasLock, FrameToRender, ArmTimer, Render
<1> QED
  BY <1>2, <1>3, <1>4 DEF StreamThread

\* The screen update thread touches no other, and ends when the module is gone.
LEMMA ScreenApproaches ==
  ASSUME IInv, ThereInv, ScreenThread
  PROVE  /\ UNCHANGED <<api, timer, thread>>
         /\ api = "screen" => ScreenLeft' < ScreenLeft
<1>1. UNCHANGED <<api, timer, thread>>
  BY DEF ScreenThread, ScreenUpdate, ScreenDrawn, calls
<1>2. ASSUME api = "screen" PROVE ScreenLeft' < ScreenLeft
  <2>1. screen = "wait" /\ screen' = "gone"
    BY <1>2 DEF IInv, RemoveInv, ThereInv, ScreenThread, ScreenUpdate, ScreenDrawn
  <2> QED
    BY <2>1 DEF ScreenLeft
<1> QED
  BY <1>1, <1>2

\* What does not touch the places of the threads leaves everything as far away.
LEMMA LeftKept ==
  ASSUME UNCHANGED <<api, timer, thread, screen>>
  PROVE  Left' = Left
BY DEF Left, TimerLeft, ThreadLeft, ScreenLeft

\* The rank is a number.
LEMMA LeftIsInt == Left \in Int /\ Left' \in Int
BY LeftBounds, LeftBoundsNext DEF Left

\* Each step that the call waits for decreases the rank.
LEMMA WaitedApproaches ==
  ASSUME IInv, ThereInv, Waited PROVE Left' < Left
<1>1. CASE StopSteps
  BY <1>1, StopApproaches
<1>2. CASE api = "timer" /\ TimerThread
  <2>1. TimerLeft' < TimerLeft
    BY <1>2, TimerThere DEF ThereInv
  <2>2. api' = api
    BY <1>2 DEF TimerThread, TimerStep, TimerSets, calls
  <2> QED
    BY <1>2, <2>1, <2>2, LeftBounds, LeftBoundsNext DEF Left
<1>3. CASE api = "join" /\ StreamThread
  <2>1. ThreadLeft' < ThreadLeft /\ api' = api
    BY <1>3, StreamApproaches
  <2> QED
    BY <1>3, <2>1, LeftBounds, LeftBoundsNext DEF Left
<1>4. CASE api = "screen" /\ ScreenThread
  <2>1. ScreenLeft' < ScreenLeft /\ api' = api
    BY <1>4, ScreenApproaches
  <2> QED
    BY <1>4, <2>1, LeftBounds, LeftBoundsNext DEF Left
<1> QED
  BY <1>1, <1>2, <1>3, <1>4 DEF Waited

\* From StopLock on StopRender and RemoveRenderer come nearer to their end with
\* every step that they wait for, and no other step takes them back: with the
\* fairness of these steps, and with a lock that is handed over, they return.
THEOREM StopApproachesEnd == Spec => [][Approaches]_vars
<1>1. ASSUME IInv, ThereInv, [Next]_vars, api \notin {"idle", "lock"}
      PROVE  Left' <= Left
  <2>1. CASE StopSteps
    BY <1>1, <2>1, StopApproaches, LeftIsInt
  <2>2. CASE RenderFrame \/ BecomeDue \/ UNCHANGED vars
    <3>1. Left' = Left
      BY <2>2, LeftKept DEF RenderFrame, BecomeDue, vars, calls, view
    <3> QED
      BY <3>1, LeftIsInt
  <2>3. CASE StreamThread
    <3>1. running
      BY <1>1, <2>3, StreamThreadMoves DEF IInv, StopInv
    <3>2. api \in {"timer", "join"}
      BY <1>1, <3>1 DEF IInv, TypeOK, Calls, StopInv
    <3>3. ThreadLeft' < ThreadLeft /\ UNCHANGED <<api, timer>>
      BY <1>1, <2>3, <3>2, StreamApproaches
    <3>4. TimerLeft' = TimerLeft
      BY <3>3 DEF TimerLeft
    <3> QED
      BY <3>2, <3>3, <3>4, LeftBounds, LeftBoundsNext DEF Left
  <2>4. CASE TimerThread
    <3>1. /\ timer.at # "none" /\ UNCHANGED <<api, thread, updated, screen>>
      BY <2>4, TimerThere, <1>1 DEF TimerThread, TimerStep, TimerSets, calls, view
    <3>2. api = "timer"
      BY <1>1, <3>1 DEF IInv, TypeOK, Calls, StopInv
    <3> QED
      BY <1>1, <2>4, <3>2, WaitedApproaches, LeftIsInt DEF Waited
  <2>5. CASE ScreenThread
    <3>1. UNCHANGED <<api, timer, thread>>
      BY <1>1, <2>5, ScreenApproaches
    <3>2. TimerLeft' = TimerLeft /\ ThreadLeft' = ThreadLeft
      BY <3>1 DEF TimerLeft, ThreadLeft
    <3>3. api = "screen" => ScreenLeft' < ScreenLeft
      BY <1>1, <2>5, ScreenApproaches
    <3> QED
      BY <3>1, <3>2, <3>3, LeftBounds, LeftBoundsNext DEF Left
  <2>6. ~AddRenderer /\ ~AddRefused /\ ~Start /\ ~StopRender /\ ~RemoveRenderer /\ ~StopLock
    BY <1>1 DEF AddRenderer, AddRefused, Start, StopRender, RemoveRenderer, StopLock
  <2> QED
    BY <1>1, <2>1, <2>2, <2>3, <2>4, <2>5, <2>6 DEF Next
<1>2. IInv /\ ThereInv /\ [Next]_vars => Approaches
  BY <1>1, WaitedApproaches DEF Approaches
<1> QED
  BY <1>2, ThereInvariance, PTL DEF Spec

==============================================================================
