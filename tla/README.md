# A verification of the WebRTC call demo

The repository is an iOS demo that makes one audio/video call with a vendored
copy of WebRTC's voice and video engines. These modules model the parts that
decide whether a call works and whether it gives back what it took: the
sequences of the application, and the object managers of the engines underneath,
which several threads use at the same time.

Run a check in this directory with `tlc -config <cfg> <module>`, a proof with
`tlapm <module>_proof.tla`. `PROJECT.json` lists the runs, the source lines
behind every definition, the mutants, the hazards and the theorems.

## 1. The system

| Component | State | Operations | Hard behaviour |
| --- | --- | --- | --- |
| Call screen (`ZYWebRTCDemo/ZYViewController.mm`) | button title, engine object, view | start/stop button, switch button | order of release: engine, view |
| Media engine API (`RTCWorker/ZYRTCMediaEngineAPI.mm`) | channel ids, `camID`, `currentCapture`, `voERunning`, `viERunning` | `stratMediaEngine`, `startCall`, `switchCapture`, `stopAll` | every call may fail, failures are logged and ignored |
| Native wrapper (`RTCWorker/webrtc_native_api.mm`) | `voeData`, `vieData`: interface pointers, transports | some 45 calls, each a few engine calls | uninitialised camera id, crossed guards |
| Voice channel manager (`voice_engine/channel_manager.*`) | list of owners, a counter per channel | create, get, get all, destroy, destroy all | owners are dropped outside the lock |
| VoEBase, VoENetwork (`voice_engine/voe_*_impl.cc`) | engine critical section, audio device module, process thread | init, terminate, create/delete channel, start/stop, packets in | main thread against socket and audio threads; the one device follows many channels |
| iOS audio device (`modules/audio_device/ios/audio_device_ios.cc`) | flags of two directions, one audio unit, record buffers | init, start, stop of each direction, reset; callback, capture thread | two directions share a unit the system may refuse; the threads share buffers without a lock |
| Process thread (`modules/utility/source/process_thread_impl.cc`) on POSIX threads (`system_wrappers/source/thread_posix.cc`) | current thread, list of modules; per thread `alive_`, `dead_`, an event | start, stop, register, deregister, call modules that are due | a thread's death decides what may be deleted |
| Video channel manager (`video_engine/vie_channel_manager.cc`) | channel map, encoder map, groups | create (own or shared encoder), delete | read/write lock, deletion outside it |
| Video input manager, frame providers, capturers (`vie_input_manager.cc`, `vie_frame_provider_base.cc`, `vie_capturer.cc`) | provider map, callbacks of each provider, capture thread | allocate, connect, disconnect, release, deliver frame | raw encoder pointers, lock order |
| Render manager and stream (`vie_render_manager.cc`, `modules/video_render`) | renderers, per stream a thread and a pool of frames | add/start/stop/remove, frame in | raw pointers on several threads, joins under locks |
| iOS renderer (`modules/video_render/ios`) | channel of the view, update thread | copy, draw | the thread draws what another copies |
| Events and timers (`system_wrappers/source/event_posix.cc`) | flag, `created_at_`, `count_`, timer thread | set, wait, start and stop a timer | a timer is started again while its thread runs |
| iOS capture (`modules/video_capture/ios`) | capture session, raw owner | start/stop, sample callback | concurrent queue |
| Channel transport (`test/channel_transport`) | UDP sockets | set receiver/destination, deliver | socket thread against deletion |
| Sub-interface counters (`voice_engine_impl.cc`, `vie_ref_count.cc`) | counters | get interface, release | engine deletes itself |
| Audio/video sync (`vie_sync_module.cc`, `stream_synchronization.cc`) | delays | periodic process | arithmetic on delays |
| RTP/RTCP, pacing, bitrate control, codecs, signal processing, libjingle | | | vendored, not modelled |

The screen calls the media engine API, which calls the wrapper, all on the main
thread. The wrapper calls the engines' interfaces. The engines have threads of
their own: socket threads hand packets to channels, audio threads iterate over
the channels, the audio unit calls back while a capture thread takes what it left,
capture threads hand frames to encoders, a thread per stream hands frames to the
screen, an update thread draws.
They share the managers' maps with the API calls; each manager has its own
protection, and that is where the interleavings are.

What makes the parts correct:

- *Call*: whatever fails, hanging up returns every port, channel, device,
  renderer and view (the voice engine and the video observer it leaks); sockets
  go before their channels; the camera's handle is never lost; the current camera is
  the one that is named, rotated and connected; what engine threads use outlives
  them.
- *Voice channels*: an owner's channel exists; a channel is deleted exactly when
  its last owner goes, by one thread, outside the lock.
- *Audio devices*: the microphone is on while some channel sends, the loudspeaker
  while one plays; the last one turns it off; the unit runs exactly while one of
  them is on, whatever was refused; the process thread calls no released device.
- *Recording buffers*: none overflows, none is filled while it is delivered, none
  shrinks before it was delivered, a full one is delivered; and, as comments say
  and the code does not keep, at most one is partially full and the total size is
  the sum of the lengths.
- *Rendering*: no thread calls a deleted stream or channel; a frame is followed by
  a repaint, although timers get lost, if the view has its screen update thread;
  stopping and removing return.
- *Process thread*: a module that was deregistered is not called; the object of a
  thread is deleted when the thread has gone, and then it is; never two threads
  call modules.
- *Video managers*: no thread holds a pointer to a deleted encoder or capturer;
  an encoder that channels share is deleted once; frames go to encoders that
  exist; API calls return although locks nest in both orders.

## 2. The modules

| Module | What it is |
| --- | --- |
| `CallContract` | Abstract: what a call promises about the resources it holds |
| `CallSession` | The screen, the media engine API and the wrapper's calls; implements `CallContract` |
| `CallSession_proof` | Proofs about it, refinement included |
| `ObjectLifetime` | Abstract: shared ownership without counter, list or lock |
| `VoiceChannels` | `ChannelManager` and `ChannelOwner` under caller and media threads; implements `ObjectLifetime` |
| `VoiceChannels_proof` | Proofs about it |
| `AudioUnitDevice` | `AudioDeviceIPhone`: its operations as operators on a record |
| `VoiceDevices` | `VoEBaseImpl` over several channels and that device |
| `VoiceDevices_proof` | Proofs about both |
| `RecordingBuffers` | Callback, capture thread and owner of the device at its recording buffers, over `AudioUnitDevice` |
| `RecordingBuffers_proof` | Proofs about it |
| `ThreadPosix` | The steps of a POSIX thread and of its owner, as operators on a record |
| `ProcessThread` | `ProcessThreadImpl` with its threads, their owner and those who register modules |
| `ProcessThread_proof` | Proofs about both |
| `EventPosix` | An event's one-shot timer and its thread, as operators on a record |
| `IncomingVideoStream` | A frame's way from the decoder to the screen: stream, timer, update thread, and the application that adds, starts, stops and removes |
| `IncomingVideoStream_proof` | Proofs about it |
| `VideoManagers` | `ViEChannelManager` and `ViEInputManager` under API and capture threads; encoders and capturers implement `ObjectLifetime` |
| `VideoManagers_proof` | Proofs about it |
| `MCCallSession`, `MCVoiceChannels`, `MCVoiceDevices`, `MCRecordingBuffers`, `MCProcessThread`, `MCIncomingVideoStream`, `MCVideoManagers` | Small instances for TLC |

The modules meet at the engine's API. `CallSession` sees an engine as the set of
its parts in use and makes one API call at a time; `VoiceDevices` takes the voice
engine's calls with any number of channels and the devices in full, and the
process thread as started or not with the modules it calls; `ProcessThread` looks
inside that, `RecordingBuffers` inside a device that records (both use
`AudioUnitDevice`), `IncomingVideoStream` inside a renderer; `VoiceChannels` and `VideoManagers` look inside a call, with more
threads than the application has where the engine's documentation allows them.

### CallSession

`pc` is the wrapper call that the running handler makes next, `"ui"` when none
runs; every other variable but `leaked` (below) is state of the code: `title` the button's text,
`api` the instance variables of `ZYRTCMediaEngineAPI`, `voe` and `vie` the parts
of the two engines in use (`"socket"`, `"microphone"`, `"renderer"`, ...),
`device`, `connected`, `running`, `rotation` the capture devices, `view` the
remote view. There is one action per wrapper call, with the name of the C++
method, and the actions follow the order of the Objective-C methods. Every call
that the engines or iOS can refuse has both outcomes. Three outcomes are worth
naming: `AllocateCaptureDevice` that fails leaves `cameraId` uninitialised, so
the wrapper goes on with any value of `Garbage`; a voice channel that cannot be
created ends the process (`Abort`, then `Relaunch`); a failed `VoE_Init` skips the
video engine's creation, `startCall` goes on regardless, and since an engine that
is not initialised makes no channel its first call ends the process that way.
`VoE_Create` and `getVideoEngine` do not fail: the engines come from a plain `new`,
every sub-API is compiled in (`engine_configurations.h`), and `GetInterface` returns
NULL for an engine that is NULL only.

`VoE_DeleteChannel` and `ViE_DeleteChannel` are two calls each, the end of the
transport and the engine's `DeleteChannel`, and two steps here, so that their order
counts. `leaked` is what the program has lost its last pointer to: whatever an
engine still has when `VideoEngine::Delete` is followed by the `memset`, and when
`dealloc` deletes the wrapper, which has no destructor of its own and takes only the
transports along (`LeftBehind`). `held`, of which the properties speak, includes it.
`Leaked` names the two objects that always go that way, the voice engine with its
sub-APIs and the `VideoCallbackIOS`; that nothing else does is
`IdleHoldsOnlyLeaks`.

Because one engine object serves one call, its first channel has id 0 and a
channel id is 0 or -1. Calls that change none of the modelled parts (codec
choice, EC/AGC/NS, NACK, PLI, send destination) are left out. The operating
system's interruptions (phone calls, backgrounding) have no handler in the code.

### VoiceChannels

A thread is in a method (`call`) at a place (`pc`) of it; `owns` and `reference`
are the `ChannelOwner` objects in the frame of the caller and in the frame of
`DestroyChannel` / `DestroyAllChannels`, `channels` the list. `apiLock` is the
critical section that every `VoEBase` method takes, `lock` the manager's
`lock_`. Each step is what a thread does between two points at which another
thread can see a difference: the constructor outside the lock, taking the lock,
the body, leaving it, and then each `~ChannelOwner` on its own, as its atomic
decrement is. Copies that a vector makes and drops while the lock is held
cancel out and are left out. The `VoE_` calls belong to the threads of `Api`,
`ReceivedRTPPacket` to those of `Socket`, `Iterate` to those of `Audio`; the three
sets may overlap.

### VoiceDevices

Every method of `VoEBaseImpl` holds the engine's critical section from its first
check to its return, so one call is one step. `dev` is the state of the audio
device: the directions that are initialised and on, and the audio unit; the two
directions have the same code, which `AudioUnitDevice` has once, with the
direction as a parameter. An operation gives the set of its outcomes, because
iOS may refuse to create the unit (which the code logs and otherwise ignores)
and to start it. A unit that runs is on for both directions; the second to start
does not ask the system. Audio device modules are numbered, since a second
`Init` makes a second one; `modules` are those the process thread calls.

`Init` may fail at the process thread, at the device and at the configuration
of audio processing, and leaves behind what was done up to there. `StartSend`
and `StartPlaying` start the device and then the channel, and the channel may
refuse. `Channel::StopSend` and `StopPlayout` never fail. The default device is
always specified after `Init`, volumes and mute are no part of the state, and
playing and recording files, which nobody in the repository asks of the engine,
is not modelled, nor is an audio device of the caller's.

### RecordingBuffers

`length`, `seq`, `cur` and `total` are the members with those names, `dev` is the
device of `AudioUnitDevice`. Nothing protects the buffers: the callback and the
capture thread tell by a buffer's length whose it is. So each load of a length
and each store is a step: the search of the callback loads a length up to three
times (lines 1544, 1545 and 1551), and `sees` is what it is about to test next.
`todo` holds the stores that a thread has made in
the program but that nobody sees yet. `InOrder` says whether they become visible
in the order of the program; the C++ of the code promises that to no other thread,
so both values are of interest. `load` and `total` are the two halves of `+=`. A
value that the code reads twice, with the owner's reset in between, is a choice.
The owner's calls are one step but for `StartRecording`, which resets the
buffers before it asks the unit to start: the callback may be running then, if
the unit plays, and the capture thread always is. Stopping the unit waits for its callback. Blocks are
counted in units; samples, the playout buffer and the delay's arithmetic are
left out. The end of the capture thread is `Terminate`'s, after which nothing
of the device is used.

### ProcessThread

`threads[n]` is the object of the n-th thread and the place of that thread in
`ThreadPosix::Run`; `place[n]` is where it is in `Process`. `current` is
`_thread`, `stopped` the local `thread` of `Stop`, `lock` the holder of
`_critSectModules` where it is held over several steps: by `Start`, which waits
under it for the thread to come up, and by the pass over the modules (`due` are
those it still has to call). `owner` is the place of the one thread that calls
`Start` and `Stop`, which the engines do in `Init`, `Terminate` and their
destructors; `RegisterModule` and `DeRegisterModule` are open to all. Where the
lock is held without waiting, the section is one step. A thread that cannot be
created is an outcome of `Start`, an error of the event one of `Wait`. For the
threads of `Late` the ten seconds that `Start` and `Stop` wait may expire at any
point of what the thread does; for the others they suffice. A late thread sets
`alive_` when it gets on, after `Stop` cleared it, and is given up by its owner
while it runs. Modules that register or deregister others while they are called
are left out.

### EventPosix and IncomingVideoStream

A timer record has the place of its thread in `EventPosix::Process` and the
members that `StartTimer` and that thread share; the length of a wait is left out.
`armed` remembers that `Set` is owed. Only one-shot timers are in the module.

In `IncomingVideoStream` the pool of frames is three numbers (`queued`, `due`,
`empty`) and `hand`; which pixels a frame has makes no difference. `RenderFrame`
holds `stream_critsect_` for one step, `Stop` from `StopLock` to `StopThread`,
which is `ApiHasStreamLock`; `thread_critsect_` is held by the thread from the look
at `incoming_render_thread_` through rendering, and by `Stop` while it waits for the
timer. `RemoveRenderer` is the wrapper's call: the frames are unregistered, the
stream stopped and deleted, then the channel of the view, then the module
with the screen update thread, each wait a step of its own. `DeleteChannel` waits
for `gles_crit_sec_`, which the screen update thread holds while it draws. The
thread of the stream may fail to start, which leaves its pointer set.
`CreateModule` is the constructor of the render module, which ignores the result of
the renderer's `Init`: without a context or with a thread that is not started, the
module is used without a screen update thread (`screen` is `"none"`) and nothing is
painted. `AddRefused` is the path on which the renderer takes no stream; the module
stays. (A channel that `CreateEaglChannel` has made and then refuses is lost there.)
A repaint that fails leaves `buffer_is_updated_` set and is tried again. Start,
timeout and external images and mirroring are left out, and the joins do not
give up after ten seconds (that is in `ProcessThread`).

### VideoManagers

`encoderOf` is `vie_encoder_map_`, `capturerOf` is `vie_frame_provider_map_`,
`callbacks` the observers of each frame provider, `encoders` and `capturers` the
objects that are not deleted, `readers` the holders of the two managers' read
locks, `enc` and `cap` the pointers a thread holds. Ids are used again,
objects are numbered and never are, so a stale pointer cannot look fresh. A
method is cut where it takes or leaves a lock; a writer does its work in one
step, as nobody can see inside. `WritersFirst` says whether a waiting writer
keeps new readers out: POSIX leaves that to the implementation of
`pthread_rwlock`. A capture thread enters `DeliverFrame` (holding the provider's
critical section) and leaves it, and `Deregister`, `ConnectRegister` and
`ReleaseFree` wait for it to be out.

Not in the module: `SetVoiceEngine` (one more writer), channel groups, REMB and
statistics, observers, file players, and creation with `original_channel` for a
further sender.

## 3. The runs

| Run | Instance | States | What it shows |
| --- | --- | --- | --- |
| `call` | five values of `Garbage` | 150,600 | all safety properties of a call, that it leaks what `Leaked` names and no more, that it implements `CallContract`, and that hanging up completes |
| `channels` | 3 threads: main (API), other (API, audio), network (socket); 2 channel ids | 66,900 | the counter is the number of owners; no owner outlives its channel; deletion is exclusive and happens; refinement of `ObjectLifetime` |
| `devices` | 3 channels, 3 audio device modules | 2,400 | microphone, loudspeaker and audio unit follow the channels through every mix of refusals |
| `devices_unit` | 2 channels, 2 modules | | an initialised direction loses the unit (finding) |
| `recording` | 2 buffers of 2 units, blocks of up to 3, 2 recordings | 300,100 | no overflow, no copy into a buffer that is delivered, no length that shrinks before its delivery; full buffers are delivered |
| `recording_total` | 1 recording, counter modulo 16 | | the total size of the buffers goes wrong (finding) |
| `process` | 2 modules, 3 threads, the first may be late | 19,000 | deregistered modules are not called; what is deleted has gone and what has gone can be deleted; one thread at a time; `Start` and `Stop` return |
| `render` | `MaxFrames` 2 | 339,300 | nothing deleted is called; frames are shown where there is a screen update thread; stopping returns |
| `render_timer` | `MaxFrames` 1 | | a one-shot timer never fires (finding) |
| `managers` | 2 API threads, 2 channels, 1 camera id, 2 encoders, 2 capturers | 139,000 | no dangling pointers; shared encoders are deleted once |
| `managers_app` | 1 API thread, 2 channels, 2 camera ids, 3 encoders, 2 capturers | 84,000 | frames only to living encoders; one provider per encoder |
| `managers_calls` | 3 API threads, 1 channel, 1 camera, locks that prefer writers | 21,500 | every call returns |

*Bounds.* `Garbage` has a negative number, zero, both ids a device can have and
an id that no device has: the code tells apart no more than those. Two
channel ids let a second channel be created while the first one is being
deleted, and three threads put two API callers and a media thread at one
channel. Three channels in `VoiceDevices` let one stop, one go on and one be
refused; `MaxModule` bounds how often `Init` gets as far as making a device.
In `ProcessThread` two modules let one go while the other is due; three threads are
one that is late and runs on, one that is stopped beside it and one that follows.
In `RecordingBuffers` (`NumBuffers` is 20 in the code) two buffers let one be
delivered while the other is filled, and three, which were checked too (515,000
states), add none but a longer search; a block of three units fills one buffer and
begins another; `MaxSeq` and `MaxStarts` end the run. `Word` is 1 in `recording`,
which leaves the total out of that run since nothing else reads it, and large enough in
`recording_total`. With `InOrder` false `CopyAlone` fails, the other safety properties
hold; the run has it true, the theorems hold for both. `MaxFrames`, 300 in the
code, is 2: a frame drawn, one behind it that is due and one that is not, and a pool that is full.
In `VideoManagers` ids are fewer than objects, so that an id is used
again while an older object is still being deleted; two channels are what
sharing needs. Threads, channel ids and capture ids are symmetric in
`VideoManagers` (the liveness run uses no symmetry). `MaxId`, `MaxThread`, `MaxEncoder`
and `MaxCapturer` are bounds of the models; the code's counters go on.

*Fairness.* `CallSession`: `WF` of the handler's steps, because a handler is a
straight line of synchronous calls on the main thread; clicks are not fair.
`VoiceChannels`: `WF` of each thread inside a method; the methods contain no
waiting but for the locks, and no call has to begin. `VideoManagers`: `SF` of
the steps of each API thread, because a lock that is free again and again has
to reach each thread that waits for it, and `WF` of the end of a delivery,
which the encoder's `DeliverFrame` reaches by itself. `ProcessThread`: `WF` of
the owner inside `Start` and `Stop`, whose waits are bounded, and `SF` of each
thread: modules return, and the lock that is free again and again has to reach
the new thread even if a late one takes it all the time (with `WF`, `Stop` may
wait for ever in the model; in the code it would give up after ten seconds).
`RecordingBuffers`: `WF` of the owner
inside `StartRecording`, of a callback that has begun and of the capture thread,
none of which waits for anything; data need not come. `IncomingVideoStream`: `WF`
of the three threads, all of whose waits end by time, of the steps of a call that
stops, and of `BecomeDue`, since `AddFrame` refuses a frame that is ten seconds
or more ahead; `SF` of `StopLock`, because the thread gives up its lock in every
round and takes it again (a pthread mutex is not fair, but the thread sleeps
without it in between), and of `DeleteChannel` for the same reason: the screen
update thread takes `gles_crit_sec_` again for a repaint that failed, and sleeps a
sixtieth of a second before.
Calls that begin are not fair in any module.

*Deadlock* is checked in every run but those of `RecordingBuffers`, where the bounds
let everything come to a stop; in `VideoManagers` a capturer's thread may
always have a step, which is why the absence of a circle of waiting API calls
is stated as `CallsReturn`.

*How many threads.* The application calls the video engine from the main thread
only; `CallbacksAlive` and `OneProvider` are stated for that case. They do not
hold for two API threads: `DeleteChannel` gives up both read locks after it took
the encoder away from its provider (`vie_base_impl.cc:168`), another thread can
connect the encoder again before the channel is erased, and the capture thread
then calls a deleted encoder. `CallsReturn` holds for three threads, and
`ThreeThreadsGoOn` proves why. Four can wait in a circle when writers go first, and in
no other way (`DeadlockNeedsFour`): one in `ConnectCaptureDevice` waiting
for the channel lock behind a writer, one in `DeleteChannel` waiting for the
input lock behind another, and the two writers waiting for the two readers.

## 4. Findings

Each has a run that ends in a counterexample.

- `devices_unit`: `StopRecording` and `StopPlayout` dispose of the audio unit when
  the other direction does not run, even if it is initialised
  (`audio_device_ios.cc:964`, `1039`). That happens after a refused start:
  initialise both, the start of one is refused, the other one stops. `InitPlayout`
  then returns early as "already initialized" and `StartPlayout` starts a null
  unit, so the direction cannot start until it is stopped once.
- `recording_total`: `_recordingBufferTotalSize` is increased by the callback and
  decreased by the capture thread without a lock (`audio_device_ios.cc:1572`,
  `1876`). One update is lost, and the total is wrong until the next recording. If
  the increase is the one lost, the unsigned total wraps below zero, and so does
  the delay that `UpdateRecordingDelay` computes from it.
- `render_timer`: `StartTimer` of a one-shot timer whose thread is between two
  waits clears `created_at_` and sets `timer_event_` (`event_posix.cc:195`). The
  thread takes the first, counts 1 and waits, which ends at once because of the
  second; its next round counts 2, and line 261 sets the event only at 1. A stream
  then shows its next frame when its wait of 100 ms ends; `FrameShown` is the
  reason why this does no more harm.

Seen while modelling, without a run:

- The voice engine is leaked on every call: `dealloc` only deletes the wrapper
  (`ZYRTCMediaEngineAPI.mm:47-53`), `VE_ReleaseSubApis` and `VoE_Delete`
  (`webrtc_native_api.mm:152`, `713`) have no caller, and the next call makes
  another engine. So is the `VideoCallbackIOS` of line 77, to which the `memset` of
  line 382 clears the pointer. `CallSession` has both in `leaked`; `CallContract`
  allows them as its constant `Leaked`.
- "There is zero or one buffer partially full at any given time"
  (`audio_device_ios.cc:1524`) does not hold. The callback loads a length at line
  1544 and again at 1545; if the capture thread empties that full buffer in between
  (line 1878), the empty buffer passes for the partial one and ends the search, and
  a partial one behind it stays. TLC finds it in `RecordingBuffers` at once. It
  costs order, not data: `NothingOverwritten` and the type invariant do not need it.
- `ModuleVideoRenderImpl` ignores the result of the renderer's `Init`
  (`video_render_impl.cc:209`), which ends at `video_render_ios_gles20.mm:88` if the
  context cannot be made, and `Init` that of the thread's start (line 92). The
  renderer is then added and started with success, and paints nothing.
- `VoE_StopListen` calls `StartReceive` (`webrtc_native_api.mm:840`); the voice
  channel receives until it is deleted. `CallSession` has it as the code does.
- `VoE_CreateChannel` builds a transport for channel -1
  (`webrtc_native_api.mm:767`) and the assertion in its constructor, compiled in
  on iOS, ends the process; the caller's error branch is never reached. In
  `CallSession` this is the outcome `Abort`.
- `RegisterFrameCallback` asserts that the encoder is not registered, which two
  threads in `ConnectCaptureDevice` could violate as the check before it holds
  read locks only (`vie_capture_impl.cc:196`); the application has one.
- `ProcessThreadImpl::Start` tests `retVal >= 0` on the `bool` that
  `ThreadPosix::Start` returns (`process_thread_impl.cc:56`). `false` passes, so a
  thread that could not be created counts as started; `Start` of `ProcessThread`
  has that outcome.
- `IncomingVideoStream::Start` leaves the object of a thread that could not be
  started in `incoming_render_thread_` (`incoming_video_stream.cc:223`). The next
  `Start` meets the assertion at line 212 or, without assertions, loses the object.
- `buffer_is_updated_` is cleared after the frame was drawn
  (`video_render_ios_channel.mm:37`). A frame copied meanwhile counts as drawn: if it
  is the last one, it is never seen.
- The capture thread picks the full buffer with the lowest number of those it
  met; the callback may fill an earlier one behind the search, so a block can be
  overtaken by the next (`audio_device_ios.cc:1849`). `FullIsDelivered` promises
  delivery, not order.

## 5. The proofs

`CallSession_proof` proves, for every set `Garbage` of integers, the type
invariant, all safety invariants of the run `call` and the refinement of
`CallContract`. None of the invariants is inductive by itself; `IInv` is built
in layers, each inductive relative to those before: `TypeOK`; `Control`
(which title and which flags go with which handler); `Voice` and `Video` (what
each engine can hold at each step of the stop sequence, for instance that
everything but the interfaces implies the channel, and that no socket is open
when the engine deletes its channel); `Leaks` (what was lost so far); `Camera` (which steps run
without a camera); `Serving` (the rotation the camera has at the steps after
`SetRotation`). The hard case is the uninitialised id: it can only select the
device that is allocated, and at the steps that allocate there is none. The
refinement takes each step to one action of the contract or a stutter with
`StartGrows` and `StopShrinks`. `HangUpComesToItsEnd` is what can be proved of
`HangUpCompletes`: every step of a hang-up is the next of its fifteen calls, and
the last one leaves the button at "StartCall" and only the leaked objects held. `Control` is needed
for the one branch, as `AfterVoice` would skip the video engine without `viERunning`.

`VoiceChannels_proof` proves, for every finite set of threads and every bound of
ids, the type invariant, `CountIsOwners`, `OwnersAlive` and `DeleteAlone`.
`CountIsOwners` needs that adding a thread to or removing it from the holders
changes a cardinality by one (`HoldersChange`), that no thread owns the id that
is given out next (`Fresh`), and that `owns` and `reference` are empty where a
lookup overwrites them (`Frames`). `Life` says that a channel exists exactly
while it has owners or its deletion is under way, `Deleting` that the thread in
`Delete` is the only one at that channel; both follow from the count.

`Refinement` takes each step of `VoiceChannels` to one of `ObjectLifetime`:
`Construct` to `Make`, `Delete` to `Delete`, all others to `Share`, since who copies
an owner finds the channel in the list or in its own frame (`Held`).

`NoLeak` needs the converse of `OwnersAlive` as an invariant of its own (`Kept`: what
exists is counted, or the thread that counted down to zero is about to delete it) and
gets from it, with `CountIsOwners`, that a channel outside the list is in the frame
of a call under way. `NeverStuck` says that the holder of the manager's lock always
has a next step, and the holder of the engine's critical section too unless it waits
for that lock. Which places have a next step is the predicate `CanGoOn`, since the
proof system cannot reason about `ENABLED`; TLC was used to check that it is the same
as `ENABLED Step(t)` on the instance of the run `channels`.

`VoiceDevices_proof` proves, for every set of channels and every number of audio
device modules, the type invariant, `UnitRuns`, `EngineWorks`, `NoChannelNoUnit` and
the action properties `LastOneOut` and `OnlyResetSilences`. The operators of the
device come first, one lemma each: they keep `Sound` (the unit runs exactly when a
direction is on, a direction that is on is initialised, and there is no unit that
nobody has initialised) and say what happens to `on`. The invariant adds `Idle` (an
engine that is not initialised has no channels, a thread that does not run calls no
module) and `NoneReady`, which `NoChannelNoUnit` needs: without channels no direction
is initialised, because the call that takes the last channel stops both directions,
and it does so since `EngineWorks` rules out the refusal that would end it half-way.
`Streams` says of every step but a reset what it does to senders and microphone,
players and loudspeaker; the action properties are its two readings.

`RecordingBuffers_proof` proves, for every number and size of buffers and of
blocks and in whatever order stores become visible, the type invariant (which says
that no buffer overflows), the action property `NothingOverwritten` (theorem
`DataKept`) and what is true of `CopyAlone` without an assumption about that order.
`NothingOverwritten` is not obvious: lengths are written by two threads without a lock, and yet a buffer only grows
until it was delivered whole. The exception is the start of a recording, which
resets the buffers, and a capture thread that has one in its hands meanwhile: it
then empties what may belong to the new recording. `CallbackInv` says what the
callback may rely on at its place: the buffer it picked is not full, whatever was
stale in what it saw, because only the callback itself fills; and it has the length
the callback loaded last or was emptied since. `CaptureInv` says that a buffer
that was found stays full until it is given back, unless a reset came between.
`CopiesAlone` says that the callback copies into the buffer that is delivered
(`CopyOvertaken`) only if its store of the length became visible before the samples:
until that store the buffer it fills is not full, and one that the capture thread
has found is. So `CopyAlone`, which the run checks with `InOrder`, hangs on this one
pair of stores and on no other; on a processor that reorders stores nothing in the
code keeps them apart.

`IncomingVideoStream_proof` proves, for every `MaxFrames`, the type invariant, which
bounds the pool of frames, and `CalleeAlive`. `HandInv` ties the frame in the hand
of the thread to its place, which makes the pool one frame larger than the code
means; `StopInv` says which thread and which timer exist at each step of `Stop`,
`RemoveInv` which objects at each step of the removal.

Two more theorems are the part of `StopReturns` that needs no fairness. `StopHasEnd`:
the thread that the call waits for exists, was told to end, does not hold a lock that
the waiting call has, and if it sleeps without a limit, as a timer that was not
started does, its event is up. `StopApproachesEnd`: a rank, `Left`, counts the steps
that the awaited thread may still take; no step of any thread increases it, so that
new frames and armed timers do not delay the call, and each step that the call waits
for (`Waited`) decreases it. A repaint is not among those: one that failed may take
the lock of the view again before `DeleteChannel` has it, which is why that needs
strong fairness. `ThereInv` is the inductive invariant of
both. TLC was used to check on the instance of `render` that some step of `Waited` is
enabled whenever a call waits.

`VideoManagers_proof` proves, for every set of threads, channels and capture ids,
every bound of objects and both lock policies, the type invariant,
`PointersAlive` and `EncodersOwned`. The invariant says who holds which lock
where (`Locks`: a thread reads a manager exactly at the places between the
constructor and the destructor of its `ViEManagerScoped`), which pointer comes
from which map (`EncPointers`, `CapPointers`: what a reader looked up is still
in the map, since a writer needs the lock without readers; what a writer took
out is the thread's own), and who owns an object that is not in the map
(`EncodersOwned`, `CapturersOwned`). `EncodersTaken` is the case that counts: of
all threads that erase channels of a shared encoder, only the one that erases
the last gets the encoder to delete. With a single thread (`Thread = {main}`, the
assumption of the two theorems) `CallbacksAlive` and `OneProvider` are proved as
well: `Alone` says that a capturer with callbacks is in the map or is being freed,
so that `Deregister` finds it, and that an encoder about to be deleted or
registered has no provider.

`DeadlockNeedsFour` is about the locks. `WaitsFor` says of two threads that one gets
its lock only after the other went on: a writer waits for a reader and, where waiting
writers go first, a reader for a waiting writer. (A reader waits for nobody who
writes, as a writer does its work in one step.) Of every set of threads each of which
waits for another one of the set, `CirclesAreOfFour` says that it has a thread in
`DeleteChannel` or `DisconnectCaptureDevice`, one in `ReleaseCaptureDevice`, one in
`ConnectCaptureDevice` and one that erases in `DeleteChannel`, at the places where
one lock is held and the other wanted. The proof follows the circle with the exact
form of `Locks`: it passes each manager once as a reader and once as a writer.
`ThreeThreadsGoOn` follows: if there are at most three threads, or writers do not go
first, among the calls under way there is one that waits for no other, since a set of
threads that are not idle and all wait would be a circle. `WaitingIsReal` proves that
who waits has no step. With TLC it was checked for three threads that who does not
wait has one, unless it waits for a frame that is being delivered, that four threads
reach the circle, and that `CirclesAreOfFour` holds for four.

`EncodersRefinement` and `CapturersRefinement` show that both kinds of objects have
the lifetime of `ObjectLifetime`: the owners are the map and the threads that have a
pointer under a read lock. `CreateChannel` and `AllocateCaptureDevice` make,
`DeleteFree` and `ReleaseFree` delete, all other steps share. It is the same promise
as that of the counted owners of the voice engine, kept by other means. The pointers
of a provider to its encoders are no owners, neither here nor in the code: that they
are taken back in time is `CallbacksAlive`.

`ProcessThread_proof` proves, for any modules and any number of threads, the type
invariant, `CallsRegistered`, `DeletedIsReleased`, `ReleasedIsDead` and, for the
threads that are not late, `OnlyCurrent`. The interesting part is `dead_`,
which `Start` clears only after the thread exists: had the thread ended by then,
it would never be taken for dead again. `Marking` says that the new thread is at
the top of `Process` at the latest while `Start` has not cleared the flag, because
`Locked` gives `Start` the lock that `Process` needs first. `DeadIsReleased` is the
converse of `ReleasedIsDead` and justifies deletion. `OneRuns` strengthens
`OnlyCurrent` from the function to all of `Run`.

`StartAnswered` and `StopApproachesEnd` are the part of `CallsEnd` that needs no
fairness. `Start` holds the lock while it waits; its thread needs none before it
signals, and a signal stays. `Stop` waits without the lock; `StopLeft` counts the
steps that its thread may still take, and each of them, but for the calls of modules,
of which there are finitely many, decreases it. `Signalled` is what it takes: a
thread that has signalled has passed the place where it sets `alive_`, so that
`SetNotAlive` cannot be overtaken. That is not so for a late thread, about which
`StopApproachesEnd` says nothing.

The proofs assume only the named assumptions of the modules
(`GarbageAssumption`, `ThreadAssumption`, `DevicesAssumption`, `RecordingAssumption`,
`ProcessAssumption`, `FramesAssumption`, `ManagersAssumption`).

Only model-checked is all liveness (`HangUpCompletes`, `DestroyedIsDeleted`,
`CallsEnd`, `CallsReturn`, `FullIsDelivered`, `FrameShown`, `StopReturns`), which the
proof system does not handle under fairness, and with it the fairness of
`ObjectLifetime`. Of five of them the safety part is proved, as told above: of
`HangUpCompletes`, `CallsEnd` and `StopReturns` a rank or an order of steps, of
`CallsReturn` and `DestroyedIsDeleted` that the locks come free. What remains for TLC
is that fairness turns these into progress, and of `FullIsDelivered` and `FrameShown`
all of it. `ENABLED` is out of the prover's reach as well; where a theorem speaks of
threads that can go on, its predicate was compared with `ENABLED` by TLC.

## 6. The plan

Done: `CallSession` (the program's own code), the two managers under it in
which the application's calls meet the engine's threads, the audio devices and
their recording buffers, the process thread, and the way of a frame to the screen.
Next, in this order:

1. `VoiceEngineRef`: the counter that `VoiceEngineImpl` shares between its
   interfaces, and `ViERefCount`; abstract: the engine lives while a reference
   does.
2. `UdpTransport`: sockets, their manager's threads and the channel's
   registration; composed with `VoiceChannels`.
3. `AvSync`: `StreamSynchronization` as pure functions checked against a
   reference over small delays, and `ViESyncModule::Process`.
4. Several streams in one view (`ViERenderManager`'s list, whose destructor
   erases while it iterates), and periodic timers.
5. Proofs of what these add; the safety part of `FrameShown` and `FullIsDelivered`.

## 7. Not modelled

Of the repository's 700,000 lines, all but some thousand are vendored WebRTC and
libjingle for every platform, much of it tables and signal processing. What is
modelled is the part in which the application's calls, the objects' lives and the
threads meet; a share of the lines in the order of a third is out of reach of
models that are worth reading.

Codecs, audio and video processing, NetEq, RTP/RTCP packet formats, pacing and
bitrate estimation are numerical code of vendored WebRTC; AVFoundation, OpenGL,
Core Audio and the BSD sockets are outside the repository and appear as calls
that succeed or fail. `src/talk` is not used by the application. Wrapper
functions that nothing calls have no action.
