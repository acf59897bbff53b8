------------------------- MODULE IncomingVideoStream -------------------------
(***************************************************************************)
(* How a received frame reaches the screen.  The decoder's thread hands it *)
(* to the renderer of its channel (RenderFrame), which queues it.  The     *)
(* thread of the stream (IncomingVideoStreamProcess) takes what is due and *)
(* copies it to the channel of the view, and the screen update thread      *)
(* (ScreenUpdateProcess) draws it.  The application adds, starts, stops    *)
(* and removes the renderer, with one thread and one stream per view.      *)
(*                                                                         *)
(* Frames have no identity: the queue is its length and how many of its    *)
(* first frames are due.  RenderFrame holds stream_critsect_, and a look   *)
(* at the queue buffer_critsect_, during one step; thread_critsect_ and    *)
(* gles_crit_sec_ are held from step to step, where their holder is.       *)
(* Start, timeout and external images, mirroring and texture frames are    *)
(* left out, and so are the ten seconds after which a join gives up.       *)
(***************************************************************************)
EXTENDS EventPosix

CONSTANT MaxFrames   \* KMaxNumberOfFrames

ASSUME FramesAssumption == MaxFrames \in Nat

VARIABLES
    api,         \* where the application is in StopRender or RemoveRenderer
    removing,    \* whether it is RemoveRenderer
    registered,  \* whether the channel delivers frames to the renderer
    stream,      \* whether the IncomingVideoStream exists
    channel,     \* whether the VideoRenderIosChannel exists
    running,     \* running_
    hasThread,   \* incoming_render_thread_ # NULL
    thread,      \* the thread of the stream
    event,       \* deliver_buffer_event_
    timer,       \* its timer
    queued,      \* incoming_frames_
    due,         \* how many of the first ones are due
    empty,       \* empty_frames_
    hand,        \* whether the thread has a frame (frame_to_render)
    updated,     \* buffer_is_updated_
    screening,   \* screen_update_thread_ # NULL
    screen       \* the screen update thread

frames == <<queued, due, empty, hand>>
calls == <<api, removing, registered>>
objects == <<stream, channel, running, hasThread>>
view == <<updated, screening, screen>>
vars == <<calls, objects, thread, event, timer, frames, view>>

Calls == {"idle", "lock", "timer", "join", "stream", "channel", "module", "screen"}
Places == {"none", "wait", "enter", "take", "arm", "render", "give", "return", "gone"}

Thread == [at : Places, alive : BOOLEAN]
NoThread == [at |-> "none", alive |-> FALSE]

Init ==
    /\ api = "idle" /\ removing = FALSE /\ registered = FALSE
    /\ stream = FALSE /\ channel = FALSE /\ running = FALSE /\ hasThread = FALSE
    /\ thread = NoThread /\ event = "down" /\ timer = NoTimer
    /\ queued = 0 /\ due = 0 /\ empty = 0 /\ hand = FALSE
    /\ updated = FALSE /\ screening = FALSE /\ screen = "none"

-----------------------------------------------------------------------------
(* The locks                                                               *)

ApiHasStreamLock == api \in {"lock", "timer", "join"}

\* Mutant: Stop keeps the lock while it waits for the thread.
Mutant_ApiHasThreadLock == api \in {"timer", "join"}

ApiHasThreadLock == api = "timer"

ThreadHasLock == thread.at \in {"take", "arm", "render"}

ScreenHasLock == screen = "draw"

-----------------------------------------------------------------------------
(* The application                                                         *)

\* The first stream of a view creates its module.  Nobody looks at the result of
\* Init, which may end before it starts the screen update thread, nor at that of
\* the start: the module is used without a thread then.
CreateModule ==
    IF screening THEN UNCHANGED <<screening, screen>>
    ELSE screening' = TRUE /\ screen' \in {"wait", "none"}

\* AddRenderer: the frames are asked for at the end.
AddRenderer ==
    /\ api = "idle" /\ ~stream
    /\ CreateModule
    /\ stream' = TRUE /\ channel' = TRUE /\ registered' = TRUE
    /\ UNCHANGED <<api, removing, running, hasThread, thread, event, timer, frames, updated>>

\* AddIncomingRenderStream fails, as it has no view or not these coordinates: the
\* module stays, for the next renderer of the view.
AddRefused ==
    /\ api = "idle" /\ ~stream
    /\ CreateModule
    /\ UNCHANGED <<calls, objects, thread, event, timer, frames, updated>>

\* Start.  A thread that could not be created stays in incoming_render_thread_,
\* for the next Start to overwrite (the assertion there is left out).
Start ==
    /\ api = "idle" /\ stream /\ ~running
    /\ hasThread' = TRUE
    /\ \/ /\ running' = TRUE
          /\ thread' = [at |-> "wait", alive |-> TRUE]
          /\ timer' = StartTimer(timer)
       \/ UNCHANGED <<running, thread, timer>>
    /\ UNCHANGED <<calls, stream, channel, event, frames, view>>

StopRender ==
    /\ api = "idle" /\ running
    /\ api' = "lock"
    /\ UNCHANGED <<removing, registered, objects, thread, event, timer, frames, view>>

\* The channel delivers no more frames, then the renderer and its stream are
\* deleted, which stops the stream.
RemoveRenderer ==
    /\ api = "idle" /\ stream
    /\ registered' = FALSE
    /\ removing' = TRUE
    /\ api' = IF running THEN "lock" ELSE "stream"
    /\ UNCHANGED <<objects, thread, event, timer, frames, view>>

\* Stop, with stream_critsect_ until its end.
StopLock ==
    /\ api = "lock" /\ ~ThreadHasLock
    /\ hasThread' = FALSE
    /\ thread' = [thread EXCEPT !.alive = FALSE]
    /\ timer' = EndTimer(timer)
    /\ api' = "timer"
    /\ UNCHANGED <<removing, registered, stream, channel, running, event, frames, view>>

StopTimer ==
    /\ api = "timer" /\ timer.at = "gone"
    /\ timer' = NoTimer
    /\ api' = "join"
    /\ UNCHANGED <<removing, registered, objects, thread, event, frames, view>>

StopThread ==
    /\ api = "join" /\ thread.at = "gone"
    /\ thread' = NoThread
    /\ running' = FALSE
    /\ api' = IF removing THEN "stream" ELSE "idle"
    /\ UNCHANGED <<removing, registered, stream, channel, hasThread, event, timer, frames, view>>

DeleteStream ==
    /\ api = "stream"
    /\ stream' = FALSE /\ hasThread' = FALSE /\ event' = "down"
    /\ queued' = 0 /\ due' = 0 /\ empty' = 0
    /\ api' = "channel"
    /\ UNCHANGED <<removing, registered, channel, running, thread, timer, hand, view>>

\* Mutant: does not take gles_crit_sec_.
Mutant_DeleteChannel ==
    /\ api = "channel"
    /\ channel' = FALSE /\ updated' = FALSE
    /\ api' = "module"
    /\ UNCHANGED <<removing, registered, stream, running, hasThread, thread, event, timer,
                   frames, screening, screen>>

DeleteChannel ==
    /\ api = "channel" /\ ~ScreenHasLock
    /\ channel' = FALSE /\ updated' = FALSE
    /\ api' = "module"
    /\ UNCHANGED <<removing, registered, stream, running, hasThread, thread, event, timer,
                   frames, screening, screen>>

\* The last stream of the view takes the module with it, whose thread, if it was
\* started, is waited for.
EndScreen ==
    /\ api = "module"
    /\ screening' = FALSE
    /\ api' = "screen"
    /\ UNCHANGED <<removing, registered, objects, thread, event, timer, frames, updated, screen>>

JoinScreen ==
    /\ api = "screen" /\ screen \in {"gone", "none"}
    /\ screen' = "none"
    /\ removing' = FALSE
    /\ api' = "idle"
    /\ UNCHANGED <<registered, objects, thread, event, timer, frames, updated, screening>>

-----------------------------------------------------------------------------
(* The decoder's thread, and the time                                      *)

\* Mutant: counts the free frames only.
Mutant_HasRoom == empty > 0 \/ empty <= MaxFrames

\* AddFrame: a free frame is used again; else the allocated ones are counted.
HasRoom == empty > 0 \/ empty + queued <= MaxFrames

\* The event is set by the frame that finds the queue empty.
RenderFrame ==
    /\ registered /\ running /\ ~ApiHasStreamLock /\ HasRoom
    /\ queued' = queued + 1
    /\ empty' = IF empty > 0 THEN empty - 1 ELSE 0
    /\ event' = IF queued = 0 THEN "up" ELSE event
    /\ UNCHANGED <<calls, objects, thread, timer, due, hand, view>>

\* The first frame that is not due becomes due, and perhaps some behind it.
BecomeDue ==
    /\ due < queued
    /\ due' \in due + 1 .. queued
    /\ UNCHANGED <<calls, objects, thread, event, timer, queued, empty, hand, view>>

-----------------------------------------------------------------------------
(* The thread of the stream                                                *)

\* Mutant: waits for the event however long it takes.
Mutant_Wait ==
    /\ thread.at = "wait" /\ event = "up"
    /\ thread' = [thread EXCEPT !.at = "enter"]
    /\ event' = "down"
    /\ UNCHANGED <<calls, objects, timer, frames, view>>

\* The wait ends with the event or after KEventMaxWaitTimeMs: both clear the
\* event and go on alike.
Wait ==
    /\ thread.at = "wait"
    /\ thread' = [thread EXCEPT !.at = "enter"]
    /\ event' = "down"
    /\ UNCHANGED <<calls, objects, timer, frames, view>>

Enter ==
    /\ thread.at = "enter" /\ ~ApiHasThreadLock
    /\ thread' = [thread EXCEPT !.at = IF hasThread THEN "take" ELSE "gone"]
    /\ UNCHANGED <<calls, objects, event, timer, frames, view>>

\* FrameToRender: of the frames that are due the last is rendered, the others
\* are free again.
FrameToRender ==
    /\ thread.at = "take"
    /\ thread' = [thread EXCEPT !.at = "arm"]
    /\ hand' = (due > 0)
    /\ queued' = queued - due
    /\ empty' = IF due > 0 THEN empty + due - 1 ELSE empty
    /\ due' = 0
    /\ UNCHANGED <<calls, objects, event, timer, view>>

ArmTimer ==
    /\ thread.at = "arm"
    /\ thread' = [thread EXCEPT !.at = IF hand THEN "render" ELSE "return"]
    /\ timer' = StartTimer(timer)
    /\ UNCHANGED <<calls, objects, event, frames, view>>

\* render_callback_->RenderFrame copies the frame to the channel of the view.
Render ==
    /\ thread.at = "render"
    /\ thread' = [thread EXCEPT !.at = "give"]
    /\ updated' = TRUE
    /\ UNCHANGED <<calls, objects, event, timer, frames, screening, screen>>

ReturnFrame ==
    /\ thread.at = "give"
    /\ thread' = [thread EXCEPT !.at = "return"]
    /\ hand' = FALSE
    /\ empty' = empty + 1
    /\ UNCHANGED <<calls, objects, event, timer, queued, due, view>>

\* ThreadPosix::Run asks whether the thread is to go on.
Return ==
    /\ thread.at = "return"
    /\ thread' = [thread EXCEPT !.at = IF thread.alive THEN "wait" ELSE "gone"]
    /\ UNCHANGED <<calls, objects, event, timer, frames, view>>

-----------------------------------------------------------------------------
(* The thread of the timer                                                 *)

TimerStep ==
    /\ \/ timer.at = "base" /\ timer' = TimerBase(timer)
       \/ timer.at = "enter" /\ timer' = TimerEnter(timer)
       \/ timer.at = "wait" /\ timer.event = "up" /\ timer' = TimerWoken(timer)
       \/ timer.at = "wait" /\ timer' = TimerExpires(timer)
       \/ timer.at = "return" /\ timer' = TimerReturn(timer)
    /\ UNCHANGED <<calls, objects, thread, event, frames, view>>

TimerSets ==
    /\ timer.at = "fire"
    /\ timer' = TimerFire(timer)
    /\ event' = IF Fires(timer) THEN "up" ELSE event
    /\ UNCHANGED <<calls, objects, thread, frames, view>>

-----------------------------------------------------------------------------
(* The screen update thread                                                *)

\* Its wait ends by a periodic timer or after 100 ms.  It draws when a frame
\* was copied, and goes when the module does.
ScreenUpdate ==
    /\ screen = "wait"
    /\ screen' = IF ~screening THEN "gone"
                 ELSE IF updated THEN "draw" ELSE "wait"
    /\ UNCHANGED <<calls, objects, thread, event, timer, frames, updated, screening>>

\* The frame is drawn, and only then no longer updated; if renderFrame fails it is
\* drawn again.
ScreenDrawn ==
    /\ screen = "draw"
    /\ screen' = "wait"
    /\ updated' \in {updated, FALSE}
    /\ UNCHANGED <<calls, objects, thread, event, timer, frames, screening>>

-----------------------------------------------------------------------------

StopSteps ==
    StopTimer \/ StopThread \/ DeleteStream \/ DeleteChannel \/ EndScreen \/ JoinScreen

StreamThread ==
    Wait \/ Enter \/ FrameToRender \/ ArmTimer \/ Render \/ ReturnFrame \/ Return

TimerThread == TimerStep \/ TimerSets

ScreenThread == ScreenUpdate \/ ScreenDrawn

Next ==
    \/ AddRenderer \/ AddRefused \/ Start \/ StopRender \/ RemoveRenderer \/ StopLock \/ StopSteps
    \/ RenderFrame \/ BecomeDue
    \/ StreamThread \/ TimerThread \/ ScreenThread

\* The threads run, a call that was begun goes on, and a frame becomes due as
\* AddFrame takes none for the far future; no frame and no call has to come.
\* Stop gets the lock as the thread waits without it in every round, and so does
\* the deletion of the channel, while a repaint that fails is tried again.
Spec == Init /\ [][Next]_vars
             /\ WF_vars(StreamThread) /\ WF_vars(TimerThread) /\ WF_vars(ScreenThread)
             /\ WF_vars(StopSteps) /\ SF_vars(StopLock) /\ SF_vars(DeleteChannel)
             /\ WF_vars(BecomeDue)

-----------------------------------------------------------------------------
(* Properties                                                              *)

\* The variables hold values of their types.  The pool of frames has one frame
\* more than AddFrame means to allow, and the one in the hand of the thread.
TypeOK ==
    /\ api \in Calls
    /\ removing \in BOOLEAN /\ registered \in BOOLEAN
    /\ stream \in BOOLEAN /\ channel \in BOOLEAN
    /\ running \in BOOLEAN /\ hasThread \in BOOLEAN
    /\ thread \in Thread
    /\ event \in {"down", "up"}
    /\ timer \in Timer
    /\ queued \in Nat /\ due \in 0 .. queued /\ empty \in Nat /\ hand \in BOOLEAN
    /\ queued + empty + (IF hand THEN 1 ELSE 0) <= MaxFrames + 2
    /\ updated \in BOOLEAN /\ screening \in BOOLEAN
    /\ screen \in {"none", "wait", "draw", "gone"}

\* No thread calls an object that was deleted: frames are delivered to a stream
\* that exists, its thread and its timer are gone before it is, and neither the
\* copy of a frame nor the drawing outlives the channel of the view.
CalleeAlive ==
    /\ registered => stream
    /\ thread.at \notin {"none", "gone"} \/ TimerRuns(timer) => stream
    /\ thread.at = "render" \/ screen = "draw" => channel

\* A frame that waits is followed by a repaint, although timers get lost and only
\* the first frame of a queue sets the event, unless the stream is stopped or the
\* view has no screen update thread.
FrameShown ==
    running /\ queued > 0 /\ screen # "none" ~> screen = "draw" \/ ~running

\* StopRender and RemoveRenderer return, although they wait for three threads
\* while they hold locks.
StopReturns == api # "idle" ~> api = "idle"

\* "Starts a timer that will call a non-sticky version of Set() either once or
\* periodically": a one-shot timer that was started and sleeps will do so.
TimerPending == WillFire(timer)
=============================================================================
