----------------------------- MODULE CallSession -----------------------------
(***************************************************************************)
(* The life of a call on the main thread: ZYViewController's buttons,      *)
(* ZYRTCMediaEngineAPI's start / stop / switch sequences and the           *)
(* webrtc_native_api wrapper that drives the voice and the video engine.   *)
(*                                                                         *)
(* Every wrapper call is one action, named after the C++ method; `pc' is   *)
(* the call the handler executes next, "ui" when no handler runs.  A call  *)
(* that the engines or iOS may refuse succeeds or fails nondeterministi-   *)
(* cally, as its result is (mostly) only logged.                           *)
(*                                                                         *)
(* An engine is the set of its parts that are in use.  Calls that change   *)
(* none of those parts (codec choice, EC / AGC / NS, NACK, PLI, the send   *)
(* destination) are not modelled.  One engine object serves one call and   *)
(* gives its first channel id 0, so a channel id here is 0 or -1.          *)
(*                                                                         *)
(* Both engines come from a plain `new' with every sub-API compiled in     *)
(* (engine_configurations.h), so VoE_Create and getVideoEngine do not take *)
(* their failing returns and no guard of the wrapper on one of their       *)
(* pointers fails while an engine exists.                                  *)
(***************************************************************************)
EXTENDS Integers

CONSTANT Garbage   \* what an uninitialised `int cameraId' may hold

ASSUME GarbageAssumption == Garbage \subseteq Int /\ Garbage # {}

VARIABLES
    title,     \* the text of the call button
    pc,        \* the wrapper call the main thread makes next
    api,       \* the ZYRTCMediaEngineAPI object (engineAPI)
    voe,       \* the parts of the voice engine in use (voeData)
    vie,       \* the parts of the video engine in use (vieData)
    leaked,    \* the parts to which the program has lost its last pointer
    device,    \* the id of the capture device per camera, 0 if not allocated
    connected, \* the cameras that feed the encoder
    running,   \* the cameras that capture
    rotation,  \* the rotation set for each capture device
    view       \* TRUE iff the remote VideoRenderIosView exists

capture == <<device, connected, running, rotation>>   \* ViEInputManager

vars == <<title, pc, api, voe, vie, leaked, capture, view>>

VoiceParts ==
    {"subApis", "inited", "channel", "transport", "socket", "receiving",
     "playing", "speaker", "sending", "microphone"}

VideoParts ==
    {"engine", "subApis", "channel", "transport", "socket", "sending",
     "receiving", "renderer", "rendering", "observer", "callback"}

Facing == {"back", "front"}      \* enum CaptureType
CaptureIds == {1, 2}             \* kViECaptureIdBase and up; 0 means none

\* The handlers, as the sets of the calls they make.
StartSteps ==
    {"VoE_Create", "VoE_Init", "getVideoEngine", "Init", "startCall",
     "VoE_CreateChannel", "VoE_SetLocalReceiver", "VoE_StartListen",
     "VoE_StartPlayout", "VoE_StartSend", "CreateChannel",
     "SetLocalReceiver", "StartCamera", "SetRotation", "StartSent",
     "AddRemoteRenderer", "StartRender", "StartReceive", "Vie_SetCallback"}
SwitchSteps == {"switch.StopCamera", "switch.StartCamera", "switch.SetRotation"}
StopVoiceSteps ==
    {"VoE_StopSend", "VoE_StopListen", "VoE_StopPlayout",
     "VoE_DeleteChannel", "VoEBase::DeleteChannel", "VoE_Terminate"}
StopVideoSteps ==
    {"StopRender", "StopReceive", "StopSend", "RemoveRemoteRenderer",
     "ViE_DeleteChannel", "ViEBase::DeleteChannel", "Terminate",
     "VideoEngine::Delete"}
StopSteps == StopVoiceSteps \cup StopVideoSteps \cup {"release"}

\* Objective-C zeroes the instance variables, init sets the channels to -1.
NewApi ==
    [live |-> TRUE, voiceChannel |-> -1, videoChannel |-> -1, camID |-> 0,
     currentCapture |-> "back", voERunning |-> FALSE, viERunning |-> FALSE]
NoApi == [NewApi EXCEPT !.live = FALSE]

Zero == [f \in Facing |-> 0]

Init ==
    /\ title = "StartCall"
    /\ pc = "ui"
    /\ api = NoApi
    /\ voe = {}
    /\ vie = {}
    /\ leaked = {}
    /\ device = Zero /\ connected = {} /\ running = {} /\ rotation = Zero
    /\ view = FALSE

-----------------------------------------------------------------------------
(* Helpers                                                                 *)

At(here, next) == pc = here /\ pc' = next

Allocated == {f \in Facing : device[f] # 0}

\* The capture device with id i, as a set of at most one element.
Capturer(i) == {f \in Allocated : device[f] = i}

FreeCameras == device' = Zero /\ connected' = {} /\ running' = {} /\ rotation' = Zero

\* The part p is started if `on' holds and the engine does not refuse.
MayGain(parts, p, on) ==
    {parts} \cup (IF on THEN {parts \cup {p}} ELSE {})

-----------------------------------------------------------------------------
(* Button StartCall: stratMediaEngine, the view, startCall                 *)

ClickStart ==
    /\ title = "StartCall"
    /\ At("ui", "VoE_Create")
    /\ api' = NewApi
    /\ UNCHANGED <<title, voe, vie, leaked, capture, view>>

VoE_Create ==
    /\ At("VoE_Create", "VoE_Init")
    /\ voe' = {"subApis"}
    /\ UNCHANGED <<title, api, vie, leaked, capture, view>>

\* A failure skips getVideoEngine and Init: || stops at the first TRUE.
VoE_Init ==
    /\ pc = "VoE_Init"
    /\ \/ voe' = voe \cup {"inited"} /\ pc' = "getVideoEngine"
       \/ voe' = voe /\ pc' = "startCall"
    /\ UNCHANGED <<title, api, vie, leaked, capture, view>>

getVideoEngine ==
    /\ At("getVideoEngine", "Init")
    /\ vie' = vie \cup {"engine", "subApis"}
    /\ UNCHANGED <<title, api, voe, leaked, capture, view>>

\* ViEBase::Init returns 0 and the result of SetVoiceEngine is only logged.
InitVideo ==
    /\ At("Init", "startCall")
    /\ UNCHANGED <<title, api, voe, vie, leaked, capture, view>>

startCall ==
    /\ At("startCall", "VoE_CreateChannel")
    /\ view' = TRUE
    /\ UNCHANGED <<title, api, voe, vie, leaked, capture>>

\* The process is gone: iOS reclaims ports, devices and memory.
Abort ==
    /\ pc' = "aborted"
    /\ title' = "StartCall"
    /\ api' = NoApi
    /\ voe' = {} /\ vie' = {} /\ leaked' = {} /\ FreeCameras /\ view' = FALSE

\* The transport is built even for channel -1; its registration then fails
\* and the assertion in its constructor is compiled in on iOS.
VoE_CreateChannel ==
    \/ /\ At("VoE_CreateChannel", "VoE_SetLocalReceiver")
       /\ "inited" \in voe
       /\ voe' = voe \cup {"channel", "transport"}
       /\ api' = [api EXCEPT !.voiceChannel = 0]
       /\ UNCHANGED <<title, vie, leaked, capture, view>>
    \/ /\ pc = "VoE_CreateChannel"
       /\ Abort

VoE_SetLocalReceiver ==
    /\ At("VoE_SetLocalReceiver", "VoE_StartListen")
    /\ voe' \in MayGain(voe, "socket", "transport" \in voe)
    /\ UNCHANGED <<title, api, vie, leaked, capture, view>>

VoE_StartListen ==
    /\ At("VoE_StartListen", "VoE_StartPlayout")
    /\ voe' = IF "channel" \in voe THEN voe \cup {"receiving"} ELSE voe
    /\ UNCHANGED <<title, api, vie, leaked, capture, view>>

\* The device is opened before the channel starts, and either may fail.
VoE_StartPlayout ==
    /\ At("VoE_StartPlayout", "VoE_StartSend")
    /\ \E opened \in MayGain(voe, "speaker", "channel" \in voe) :
          voe' \in MayGain(opened, "playing", "speaker" \in opened)
    /\ UNCHANGED <<title, api, vie, leaked, capture, view>>

VoE_StartSend ==
    /\ At("VoE_StartSend", "CreateChannel")
    /\ \E opened \in MayGain(voe, "microphone", "channel" \in voe) :
          voe' \in MayGain(opened, "sending", "microphone" \in opened)
    /\ api' = [api EXCEPT !.voERunning = TRUE]
    /\ UNCHANGED <<title, vie, leaked, capture, view>>

CreateChannel ==
    /\ At("CreateChannel", "SetLocalReceiver")
    /\ \/ /\ "engine" \in vie
          /\ vie' = vie \cup {"channel", "transport"}
          /\ api' = [api EXCEPT !.videoChannel = 0]
       \/ /\ vie' = vie
          /\ api' = [api EXCEPT !.videoChannel = -1]
    /\ UNCHANGED <<title, voe, leaked, capture, view>>

SetLocalReceiver ==
    /\ At("SetLocalReceiver", "StartCamera")
    /\ vie' \in MayGain(vie, "socket", "transport" \in vie)
    /\ UNCHANGED <<title, api, voe, leaked, capture, view>>

\* ConnectCaptureDevice and StartCapture on the devices S (none or one): the
\* encoder takes one frame provider, and starting may fail.
ConnectAndStart(S) ==
    /\ connected' = IF "channel" \in vie /\ connected = {} THEN S ELSE connected
    /\ running' \in {running, running \cup S}

\* Mutant: the search ends one past the table.
Mutant_FreeCaptureId == 3

\* GetFreeCaptureId: the lowest id not in use.
FreeCaptureId == IF Capturer(1) = {} THEN 1 ELSE 2

\* A refused allocation leaves cameraId as it was, uninitialised, and the
\* wrapper goes on with it.  startCall notes the facing before the attempt.
StartCameraFacing(f, noted) ==
    \/ /\ f \notin Allocated
       /\ device' = [device EXCEPT ![f] = FreeCaptureId]
       /\ rotation' = [rotation EXCEPT ![f] = 0]
       /\ api' = [api EXCEPT !.camID = FreeCaptureId, !.currentCapture = noted]
       /\ ConnectAndStart({f})
    \/ \E g \in Garbage :
       /\ api' = [api EXCEPT !.camID = g, !.currentCapture = noted]
       /\ ConnectAndStart(Capturer(g))
       /\ UNCHANGED <<device, rotation>>

SetRotationTo(degrees) ==
    /\ rotation' = [f \in Facing |->
                       IF f \in Capturer(api.camID) THEN degrees ELSE rotation[f]]
    /\ UNCHANGED <<device, connected, running>>

StartCamera ==
    /\ At("StartCamera", "SetRotation")
    /\ StartCameraFacing("front", "front")
    /\ UNCHANGED <<title, voe, vie, leaked, view>>

SetRotation ==
    /\ At("SetRotation", "StartSent")
    /\ IF api.camID > 0 THEN SetRotationTo(270) ELSE UNCHANGED capture
    /\ UNCHANGED <<title, api, voe, vie, leaked, view>>

StartSent ==
    /\ At("StartSent", "AddRemoteRenderer")
    /\ vie' \in MayGain(vie, "sending", "channel" \in vie)
    /\ UNCHANGED <<title, api, voe, leaked, capture, view>>

AddRemoteRenderer ==
    /\ At("AddRemoteRenderer", "StartRender")
    /\ vie' \in MayGain(vie, "renderer", "channel" \in vie)
    /\ UNCHANGED <<title, api, voe, leaked, capture, view>>

StartRender ==
    /\ At("StartRender", "StartReceive")
    /\ vie' \in MayGain(vie, "rendering", "renderer" \in vie)
    /\ UNCHANGED <<title, api, voe, leaked, capture, view>>

StartReceive ==
    /\ At("StartReceive", "Vie_SetCallback")
    /\ vie' \in MayGain(vie, "receiving", "channel" \in vie)
    /\ UNCHANGED <<title, api, voe, leaked, capture, view>>

\* A new VideoCallbackIOS, which a channel takes as its observer.
Observed ==
    vie \cup (IF "subApis" \in vie THEN {"observer"} ELSE {})
        \cup (IF "channel" \in vie THEN {"callback"} ELSE {})

\* Mutant: the flag that stopAll looks at is forgotten.
Mutant_Vie_SetCallback ==
    /\ At("Vie_SetCallback", "ui")
    /\ vie' = Observed
    /\ title' = "StopCall"
    /\ UNCHANGED <<api, voe, leaked, capture, view>>

Vie_SetCallback ==
    /\ At("Vie_SetCallback", "ui")
    /\ vie' = Observed
    /\ api' = [api EXCEPT !.viERunning = TRUE]
    /\ title' = "StopCall"
    /\ UNCHANGED <<voe, leaked, capture, view>>

-----------------------------------------------------------------------------
(* Button SwitchToFront: switchCapture                                     *)

Other(f) == IF f = "front" THEN "back" ELSE "front"

ClickSwitch ==
    /\ api.live
    /\ At("ui", "switch.StopCamera")
    /\ UNCHANGED <<title, api, voe, vie, leaked, capture, view>>

\* Mutant: the camera stops, its device is not released.
Mutant_StopCamera ==
    /\ At("switch.StopCamera", "switch.StartCamera")
    /\ running' = running \ Capturer(api.camID)
    /\ UNCHANGED <<title, api, voe, vie, device, connected, rotation, leaked, view>>

\* Destroying a capturer also takes it away from the encoder.
StopCamera ==
    /\ At("switch.StopCamera", "switch.StartCamera")
    /\ LET gone == Capturer(api.camID) IN
       /\ device' = [f \in Facing |-> IF f \in gone THEN 0 ELSE device[f]]
       /\ connected' = connected \ gone
       /\ running' = running \ gone
    /\ UNCHANGED <<title, api, voe, vie, rotation, leaked, view>>

SwitchStartCamera ==
    /\ At("switch.StartCamera", "switch.SetRotation")
    /\ StartCameraFacing(Other(api.currentCapture), api.currentCapture)
    /\ UNCHANGED <<title, voe, vie, leaked, view>>

\* Mutant: the rotation of the camera that was left.
Mutant_SwitchSetRotation ==
    /\ At("switch.SetRotation", "ui")
    /\ SetRotationTo(IF api.currentCapture = "front" THEN 270 ELSE 0)
    /\ api' = [api EXCEPT !.currentCapture = Other(@)]
    /\ UNCHANGED <<title, voe, vie, leaked, view>>

SwitchSetRotation ==
    /\ At("switch.SetRotation", "ui")
    /\ SetRotationTo(IF api.currentCapture = "front" THEN 0 ELSE 270)
    /\ api' = [api EXCEPT !.currentCapture = Other(@)]
    /\ UNCHANGED <<title, voe, vie, leaked, view>>

-----------------------------------------------------------------------------
(* Button StopCall: stopAll, then the controller drops engine and view     *)

AfterVoice == IF api.viERunning THEN "StopRender" ELSE "release"

ClickStop ==
    /\ title = "StopCall"
    /\ At("ui", IF api.voERunning THEN "VoE_StopSend" ELSE AfterVoice)
    /\ UNCHANGED <<title, api, voe, vie, leaked, capture, view>>

VoE_StopSend ==
    /\ At("VoE_StopSend", "VoE_StopListen")
    /\ api' = [api EXCEPT !.voERunning = FALSE]
    /\ voe' = IF "channel" \in voe THEN voe \ {"sending", "microphone"} ELSE voe
    /\ UNCHANGED <<title, vie, leaked, capture, view>>

\* The wrapper calls StartReceive.
VoE_StopListen ==
    /\ At("VoE_StopListen", "VoE_StopPlayout")
    /\ voe' = IF "channel" \in voe THEN voe \cup {"receiving"} ELSE voe
    /\ UNCHANGED <<title, api, vie, leaked, capture, view>>

VoE_StopPlayout ==
    /\ At("VoE_StopPlayout", "VoE_DeleteChannel")
    /\ voe' = IF "channel" \in voe THEN voe \ {"playing", "speaker"} ELSE voe
    /\ UNCHANGED <<title, api, vie, leaked, capture, view>>

\* What goes with the last channel of the voice engine: the devices as well.
VoiceChannelParts ==
    {"channel", "receiving", "playing", "sending", "speaker", "microphone"}

\* Mutant: the channel goes before its transport.
Mutant_VoE_DeleteChannel ==
    /\ At("VoE_DeleteChannel", "VoEBase::DeleteChannel")
    /\ voe' = voe \ VoiceChannelParts
    /\ UNCHANGED <<title, api, vie, leaked, capture, view>>

\* transport.reset(NULL): the sockets close and their thread ends.
VoE_DeleteChannel ==
    /\ At("VoE_DeleteChannel", "VoEBase::DeleteChannel")
    /\ voe' = voe \ {"transport", "socket"}
    /\ UNCHANGED <<title, api, vie, leaked, capture, view>>

VoEBase_DeleteChannel ==
    /\ At("VoEBase::DeleteChannel", "VoE_Terminate")
    /\ voe' = voe \ VoiceChannelParts
    /\ api' = [api EXCEPT !.voiceChannel = -1]
    /\ UNCHANGED <<title, vie, leaked, capture, view>>

VoE_Terminate ==
    /\ At("VoE_Terminate", AfterVoice)
    /\ voe' = (voe \ VoiceChannelParts) \ {"inited"}
    /\ UNCHANGED <<title, api, vie, leaked, capture, view>>

StopRender ==
    /\ At("StopRender", "StopReceive")
    /\ api' = [api EXCEPT !.viERunning = FALSE]
    /\ vie' = vie \ {"rendering"}
    /\ UNCHANGED <<title, voe, leaked, capture, view>>

StopReceive ==
    /\ At("StopReceive", "StopSend")
    /\ vie' = vie \ {"receiving"}
    /\ UNCHANGED <<title, api, voe, leaked, capture, view>>

\* Mutant: the call that VoE_StopListen is, for video: start instead of stop.
Mutant_StopSend ==
    /\ At("StopSend", "RemoveRemoteRenderer")
    /\ vie' \in MayGain(vie, "sending", "channel" \in vie)
    /\ UNCHANGED <<title, api, voe, leaked, capture, view>>

StopSend ==
    /\ At("StopSend", "RemoveRemoteRenderer")
    /\ vie' = vie \ {"sending"}
    /\ UNCHANGED <<title, api, voe, leaked, capture, view>>

RemoveRemoteRenderer ==
    /\ At("RemoveRemoteRenderer", "ViE_DeleteChannel")
    /\ vie' = vie \ {"renderer", "rendering"}
    /\ UNCHANGED <<title, api, voe, leaked, capture, view>>

ViE_DeleteChannel ==
    /\ At("ViE_DeleteChannel", "ViEBase::DeleteChannel")
    /\ vie' = vie \ {"transport", "socket"}
    /\ UNCHANGED <<title, api, voe, leaked, capture, view>>

\* Mutant: the observer stays registered when its channel goes.
Mutant_ViEBase_DeleteChannel ==
    /\ At("ViEBase::DeleteChannel", "Terminate")
    /\ vie' = vie \cap {"engine", "subApis", "observer", "callback"}
    /\ connected' = {}
    /\ api' = [api EXCEPT !.videoChannel = -1]
    /\ UNCHANGED <<title, voe, device, running, rotation, leaked, view>>

\* A deleted channel takes its renderer, the registration of its observer and
\* the encoder's frame provider with it.
ViEBase_DeleteChannel ==
    /\ At("ViEBase::DeleteChannel", "Terminate")
    /\ vie' = IF "channel" \in vie
              THEN vie \cap {"engine", "subApis", "transport", "socket", "observer"}
              ELSE vie
    /\ connected' = IF "channel" \in vie THEN {} ELSE connected
    /\ api' = [api EXCEPT !.videoChannel = -1]
    /\ UNCHANGED <<title, voe, device, running, rotation, leaked, view>>

Terminate ==
    /\ At("Terminate", "VideoEngine::Delete")
    /\ vie' = vie \ {"subApis"}
    /\ UNCHANGED <<title, api, voe, leaked, capture, view>>

\* The engine's destructor stops and frees the cameras; the memset forgets the
\* observer, and a transport without closing it.
VideoEngineDelete ==
    /\ At("VideoEngine::Delete", "release")
    /\ leaked' = leaked \cup ({"video"} \X (vie \cap {"transport", "socket", "observer"}))
    /\ vie' = {}
    /\ FreeCameras
    /\ UNCHANGED <<title, api, voe, view>>

\* What the wrapper's destructor leaves behind: it closes the transports, which
\* are scoped_ptr's, and neither releases nor deletes an engine.
LeftBehind ==
    ({"voice"} \X (voe \ {"transport", "socket"}))
        \cup ({"video"} \X (vie \ {"transport", "socket"}))

\* Mutant: the button keeps its text.
Mutant_ReleaseApi ==
    /\ At("release", "ui")
    /\ api' = NoApi
    /\ leaked' = leaked \cup LeftBehind
    /\ voe' = {} /\ vie' = {}
    /\ view' = FALSE
    /\ UNCHANGED <<title, capture>>

\* engineAPI = nil deletes the wrapper and with it the last pointers to what is
\* in voeData and vieData: the VoiceEngine and the references to its sub-APIs
\* stay, as nobody calls VoE_Delete.
ReleaseApi ==
    /\ At("release", "ui")
    /\ title' = "StartCall"
    /\ api' = NoApi
    /\ leaked' = leaked \cup LeftBehind
    /\ voe' = {} /\ vie' = {}
    /\ view' = FALSE
    /\ UNCHANGED capture

-----------------------------------------------------------------------------

Relaunch ==
    /\ At("aborted", "ui")
    /\ UNCHANGED <<title, api, voe, vie, leaked, capture, view>>

StartStep ==
    \/ VoE_Create \/ VoE_Init \/ getVideoEngine \/ InitVideo \/ startCall
    \/ VoE_CreateChannel \/ VoE_SetLocalReceiver \/ VoE_StartListen
    \/ VoE_StartPlayout \/ VoE_StartSend
    \/ CreateChannel \/ SetLocalReceiver \/ StartCamera \/ SetRotation
    \/ StartSent \/ AddRemoteRenderer \/ StartRender \/ StartReceive
    \/ Vie_SetCallback

SwitchStep == StopCamera \/ SwitchStartCamera \/ SwitchSetRotation

StopStep ==
    \/ VoE_StopSend \/ VoE_StopListen \/ VoE_StopPlayout
    \/ VoE_DeleteChannel \/ VoEBase_DeleteChannel \/ VoE_Terminate
    \/ StopRender \/ StopReceive \/ StopSend \/ RemoveRemoteRenderer
    \/ ViE_DeleteChannel \/ ViEBase_DeleteChannel \/ Terminate
    \/ VideoEngineDelete \/ ReleaseApi

HandlerStep == StartStep \/ SwitchStep \/ StopStep

Click == ClickStart \/ ClickSwitch \/ ClickStop

Next == HandlerStep \/ Click \/ Relaunch

\* A handler runs on the main thread to its end; nobody has to click.
Spec == Init /\ [][Next]_vars /\ WF_vars(HandlerStep)

-----------------------------------------------------------------------------
(* Properties                                                              *)

Labels == {"ui", "aborted"} \cup StartSteps \cup SwitchSteps \cup StopSteps

\* The variables hold values of their types.
TypeOK ==
    /\ title \in {"StartCall", "StopCall"}
    /\ pc \in Labels
    /\ api \in [live : BOOLEAN, voiceChannel : {-1, 0}, videoChannel : {-1, 0},
                camID : {0} \cup CaptureIds \cup Garbage,
                currentCapture : Facing, voERunning : BOOLEAN,
                viERunning : BOOLEAN]
    /\ voe \subseteq VoiceParts
    /\ vie \subseteq VideoParts
    /\ leaked \subseteq ({"voice"} \X VoiceParts) \cup ({"video"} \X VideoParts)
    /\ device \in [Facing -> {0} \cup CaptureIds]
    /\ connected \subseteq Facing
    /\ running \subseteq Facing
    /\ rotation \in [Facing -> {0, 270}]
    /\ view \in BOOLEAN

\* The only handle to a camera is camID: switchCapture never loses it while a
\* capture device is still allocated, also after allocations that failed, and
\* no camera feeds the encoder or captures without its device.
NoOrphanCamera ==
    /\ Allocated \subseteq Capturer(api.camID)
    /\ connected \cup running \subseteq Allocated

\* Between handlers the camera in use is the one currentCapture names, turned
\* the way that camera needs, and it feeds the encoder of the video channel.
CameraServesCall ==
    pc = "ui" => \A f \in Allocated :
        /\ f = api.currentCapture
        /\ rotation[f] = (IF f = "front" THEN 270 ELSE 0)
        /\ "channel" \in vie => connected = {f}

\* A socket thread delivers into a channel: no socket is open before its channel
\* exists, and VoE_DeleteChannel and ViE_DeleteChannel close the transport before
\* they let the engine delete the channel.
SocketsHaveChannels ==
    /\ "socket" \in voe => "channel" \in voe
    /\ "socket" \in vie => "channel" \in vie

\* The engine's threads call VideoCallbackIOS, which uses vieData.rtp, and
\* draw into the controller's view: both outlive the channel and the renderer.
CallbacksHaveTargets ==
    /\ "callback" \in vie => "subApis" \in vie
    /\ "renderer" \in vie => view

\* Where the contract sees the call, and what it sees it hold.
phase ==
    CASE pc = "aborted"                      -> "Dead"
      [] pc \in StartSteps                   -> "SettingUp"
      [] pc \in StopSteps                    -> "TearingDown"
      [] pc = "ui" /\ title = "StartCall"    -> "Idle"
      [] OTHER                               -> "InCall"

Cameras == {"camera"} \X Facing
Resource ==
    ({"voice"} \X VoiceParts) \cup ({"video"} \X VideoParts) \cup Cameras
        \cup {<<"view", "remote">>}
held ==
    ({"voice"} \X voe) \cup ({"video"} \X vie) \cup leaked
        \cup ({"camera"} \X Allocated) \cup {r \in {<<"view", "remote">>} : view}

\* The objects of a call that nobody deletes: the VoiceEngine with the references
\* to its sub-APIs and the VideoCallbackIOS.
Leaked == {<<"voice", "subApis">>, <<"video", "observer">>}

\* When the button offers a call again, stopAll and the controller have given
\* back every port, channel, device, renderer and view of the last one, whatever
\* failed while it was set up or its camera was switched; of what a call made
\* only the two leaked objects are left.
IdleHoldsOnlyLeaks ==
    pc = "ui" /\ title = "StartCall" => held \subseteq Leaked

Contract == INSTANCE CallContract WITH Swappable <- Cameras

\* The sequences of wrapper calls keep the promise of CallContract: nothing is
\* lost before hang-up, nothing is taken after it, at idle only leaks are left.
ImplementsContract == Contract!Spec

\* Once the user hangs up, the button offers a new call some time later, and
\* ports, channels, devices and the view are free by then.
HangUpCompletes ==
    pc \in StopSteps ~> pc = "ui" /\ title = "StartCall" /\ held \subseteq Leaked

=============================================================================
