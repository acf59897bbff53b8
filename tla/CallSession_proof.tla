-------------------------- MODULE CallSession_proof --------------------------
(***************************************************************************)
(* Proofs about CallSession, for every set Garbage of integers: what an    *)
(* uninitialised camera id may hold does not matter for what is proved.    *)
(*                                                                         *)
(* The invariant is built in layers, each inductive relative to the ones   *)
(* before it: types, control (which flags are set where), the voice        *)
(* engine, the video engine, the leaks, the cameras.  On top of it:        *)
(* CallSession implements CallContract, and a hang-up goes through all of  *)
(* its calls.                                                              *)
(***************************************************************************)
EXTENDS CallSession, TLAPS

-----------------------------------------------------------------------------
(* The inductive invariant                                                 *)

\* The steps of a start before a camera is asked for.
BeforeCamera ==
    {"VoE_Create", "VoE_Init", "getVideoEngine", "Init", "startCall",
     "VoE_CreateChannel", "VoE_SetLocalReceiver", "VoE_StartListen",
     "VoE_StartPlayout", "VoE_StartSend", "CreateChannel",
     "SetLocalReceiver", "StartCamera"}

\* The steps of a start in which voERunning is set already.
VoiceStarted ==
    {"CreateChannel", "SetLocalReceiver", "StartCamera", "SetRotation",
     "StartSent", "AddRemoteRenderer", "StartRender", "StartReceive",
     "Vie_SetCallback"}

\* The steps of a start once the view exists.
ViewShown ==
    {"VoE_CreateChannel", "VoE_SetLocalReceiver", "VoE_StartListen",
     "VoE_StartPlayout", "VoE_StartSend"} \cup VoiceStarted

\* The places where no engine object exists.
NoCall == pc = "aborted" \/ (pc = "ui" /\ title = "StartCall")

\* Inside a call: between the handlers, or while the camera is switched.
CallRuns == pc \in SwitchSteps \/ (pc = "ui" /\ title = "StopCall")

\* Which title and which flags go with which handler.
Control ==
    /\ pc \in StartSteps \cup {"aborted"} => title = "StartCall"
    /\ pc \in SwitchSteps \cup StopSteps => title = "StopCall"
    /\ NoCall => ~api.live
    /\ pc \in VoiceStarted => api.voERunning
    /\ CallRuns => api.voERunning /\ api.viERunning
    /\ pc \in StopVoiceSteps => api.viERunning

\* What the voice engine holds.
Voice ==
    /\ NoCall \/ pc = "VoE_Create" => voe = {}
    /\ ~NoCall /\ pc # "VoE_Create" => "subApis" \in voe
    /\ voe \subseteq {"subApis", "inited"} \/ "channel" \in voe
    /\ "channel" \in voe /\ pc \notin {"VoE_SetLocalReceiver", "VoE_StartListen"} =>
          "receiving" \in voe
    /\ pc = "VoEBase::DeleteChannel" => voe \cap {"transport", "socket"} = {}
    /\ pc = "VoE_Terminate" => voe \subseteq {"subApis", "inited"}
    /\ pc \in StopVideoSteps \cup {"release"} => voe \subseteq {"subApis"}

\* What the video engine and the view hold.
Video ==
    /\ NoCall \/ pc = "release" => vie = {}
    /\ pc = "VideoEngine::Delete" => vie \subseteq {"engine", "observer"}
    /\ pc = "Terminate" => vie \subseteq {"engine", "subApis", "observer"}
    /\ pc = "ViEBase::DeleteChannel" => vie \cap {"transport", "socket"} = {}
    /\ pc # "VideoEngine::Delete" /\ vie # {} => {"engine", "subApis"} \subseteq vie
    /\ vie \subseteq {"engine", "subApis", "observer"} \/ "channel" \in vie
    /\ NoCall => ~view
    /\ pc \in ViewShown => view
    /\ "renderer" \in vie => view

\* What was lost.
Leaks == leaked \subseteq Leaked

\* What the capture devices and camID hold.
Camera ==
    /\ NoCall \/ pc = "release" => Allocated = {}
    /\ NoOrphanCamera
    /\ pc \in BeforeCamera \cup {"switch.StartCamera"} => Allocated = {}

\* The degrees by which the picture of a camera has to be turned.
Needed(f) == IF f = "front" THEN 270 ELSE 0

\* The steps of a start once the camera was turned.
CameraTurned ==
    {"StartSent", "AddRemoteRenderer", "StartRender", "StartReceive",
     "Vie_SetCallback"}

\* Which camera is allocated, how it is turned and whom it feeds.
Serving ==
    /\ pc \in {"ui", "switch.StopCamera"} \cup CameraTurned =>
          \A f \in Allocated : f = api.currentCapture /\ rotation[f] = Needed(f)
    /\ pc = "SetRotation" =>
          api.currentCapture = "front" /\ Allocated \subseteq {"front"}
    /\ pc = "switch.SetRotation" => Allocated \subseteq {Other(api.currentCapture)}
    /\ pc \in StartSteps \cup SwitchSteps \cup {"ui"} /\ "channel" \in vie =>
          Allocated \subseteq connected

IInv == TypeOK /\ Control /\ Voice /\ Video /\ Leaks /\ Camera /\ Serving

-----------------------------------------------------------------------------
(* The cameras: what the helpers of the wrapper's calls do                  *)

\* What StartCameraFacing does, seen from outside: camID gets some id, at most
\* the camera f is allocated, and camID is its handle.
CameraStarted(f, noted) ==
    /\ \E i \in CaptureIds \cup Garbage :
          api' = [api EXCEPT !.camID = i, !.currentCapture = noted]
    /\ device' \in [Facing -> {0} \cup CaptureIds]
    /\ rotation' \in [Facing -> {0, 270}]
    /\ connected' \subseteq Facing
    /\ running' \subseteq Facing
    /\ Allocated = {} =>
          /\ Allocated' \in {{}, {f}}
          /\ f \in Allocated' => rotation'[f] = 0 /\ device'[f] = api'.camID
          /\ connected \cup running = {} =>
                /\ connected' \cup running' \subseteq Allocated'
                /\ "channel" \in vie => Allocated' \subseteq connected'

\* StartCamera of the wrapper does that, also when the allocation is refused
\* and the id is uninitialised.
LEMMA StartCameraEffect ==
  ASSUME TypeOK, NEW f \in Facing, NEW noted \in Facing,
         StartCameraFacing(f, noted)
  PROVE  CameraStarted(f, noted)
<1>1. CASE /\ f \notin Allocated
           /\ device' = [device EXCEPT ![f] = FreeCaptureId]
           /\ rotation' = [rotation EXCEPT ![f] = 0]
           /\ api' = [api EXCEPT !.camID = FreeCaptureId, !.currentCapture = noted]
           /\ ConnectAndStart({f})
  <2>1. FreeCaptureId \in CaptureIds
    BY DEF FreeCaptureId, CaptureIds
  <2>2. api'.camID = FreeCaptureId
    BY <1>1 DEF TypeOK
  <2>3. connected' \subseteq connected \cup {f} /\ running' \subseteq running \cup {f}
    BY <1>1 DEF ConnectAndStart
  <2>7. "channel" \in vie /\ connected = {} => connected' = {f}
    BY <1>1 DEF ConnectAndStart
  <2>4. device' \in [Facing -> {0} \cup CaptureIds] /\ device'[f] = FreeCaptureId
    BY <1>1, <2>1 DEF TypeOK
  <2>5. f \in Allocated' /\ (Allocated = {} => Allocated' = {f})
    BY <1>1, <2>1, <2>4 DEF Allocated, TypeOK, CaptureIds
  <2>6. rotation' \in [Facing -> {0, 270}] /\ rotation'[f] = 0
    BY <1>1 DEF TypeOK
  <2>8. \E i \in CaptureIds \cup Garbage :
           api' = [api EXCEPT !.camID = i, !.currentCapture = noted]
    BY <1>1, <2>1
  <2>9. connected' \subseteq Facing /\ running' \subseteq Facing
    BY <2>3 DEF TypeOK
  <2>10. device'[f] = api'.camID
    BY <2>2, <2>4
  <2>11. ASSUME Allocated = {}, connected \cup running = {}
         PROVE  /\ connected' \cup running' \subseteq Allocated'
                /\ "channel" \in vie => Allocated' \subseteq connected'
    <3>1. connected = {} /\ running = {} /\ Allocated' = {f}
      BY <2>5, <2>11
    <3> QED
      BY <2>3, <2>7, <3>1
  <2> QED
    BY <2>4, <2>5, <2>6, <2>8, <2>9, <2>10, <2>11 DEF CameraStarted
<1>2. CASE \E g \in Garbage :
             /\ api' = [api EXCEPT !.camID = g, !.currentCapture = noted]
             /\ ConnectAndStart(Capturer(g))
             /\ UNCHANGED <<device, rotation>>
  <2>1. PICK g \in Garbage :
             /\ api' = [api EXCEPT !.camID = g, !.currentCapture = noted]
             /\ ConnectAndStart(Capturer(g))
             /\ UNCHANGED <<device, rotation>>
    BY <1>2
  <2>2. Capturer(g) \subseteq Allocated /\ Allocated \subseteq Facing
    BY DEF Capturer, Allocated
  <2>3. /\ connected' \subseteq connected \cup Capturer(g)
        /\ running' \subseteq running \cup Capturer(g)
    BY <2>1 DEF ConnectAndStart
  <2>4. Allocated' = Allocated
    BY <2>1 DEF Allocated
  <2> QED
    BY <2>1, <2>2, <2>3, <2>4 DEF TypeOK, CameraStarted
<1> QED
  BY <1>1, <1>2 DEF StartCameraFacing

\* Turning a capture device keeps the rotations in their range.
LEMMA RotationType ==
  ASSUME TypeOK, NEW degrees \in {0, 270}, SetRotationTo(degrees)
  PROVE  rotation' \in [Facing -> {0, 270}]
BY DEF TypeOK, SetRotationTo

\* A switch first gives back the camera camID stands for.
LEMMA StopCameraEffect ==
  ASSUME TypeOK, StopCamera
  PROVE  /\ device' \in [Facing -> {0} \cup CaptureIds]
         /\ Allocated' = Allocated \ Capturer(api.camID)
         /\ connected' = connected \ Capturer(api.camID)
         /\ running' = running \ Capturer(api.camID)
<1> DEFINE gone == Capturer(api.camID)
<1>1. /\ device' = [f \in Facing |-> IF f \in gone THEN 0 ELSE device[f]]
      /\ connected' = connected \ gone
      /\ running' = running \ gone
  BY DEF StopCamera
<1> HIDE DEF gone
<1>2. device' \in [Facing -> {0} \cup CaptureIds]
  BY <1>1 DEF TypeOK
<1>3. Allocated' = Allocated \ gone
  BY <1>1 DEF Allocated, TypeOK
<1> QED
  BY <1>1, <1>2, <1>3 DEF gone

-----------------------------------------------------------------------------
(* One lemma per layer: every step preserves it                            *)

\* The values stay in their types, whatever an engine refuses and whatever an
\* uninitialised camera id holds.
LEMMA TypeStep == TypeOK /\ [Next]_vars => TypeOK'
<1> SUFFICES ASSUME TypeOK, [Next]_vars PROVE TypeOK'
  OBVIOUS
<1> USE GarbageAssumption DEF TypeOK, Labels, StartSteps, SwitchSteps,
      StopSteps, StopVoiceSteps, StopVideoSteps, VoiceParts, VideoParts,
      Facing, CaptureIds, At, capture
<1>1. CASE VoE_Create
  BY <1>1 DEF VoE_Create
<1>2. CASE VoE_Init
  <2>1. /\ voe' \in {voe, voe \cup {"inited"}}
        /\ pc' \in {"getVideoEngine", "startCall"}
        /\ UNCHANGED <<title, api, vie, leaked, capture, view>>
    BY <1>2 DEF VoE_Init
  <2> QED
    BY <2>1
<1>3. CASE getVideoEngine
  BY <1>3 DEF getVideoEngine
<1>4. CASE InitVideo
  BY <1>4 DEF InitVideo
<1>5. CASE startCall
  BY <1>5 DEF startCall
<1>6. CASE VoE_CreateChannel
  <2>1. CASE Abort
    BY <1>6, <2>1 DEF Abort, FreeCameras, Zero, NoApi, NewApi
  <2>2. CASE ~Abort
    <3>1. /\ UNCHANGED <<title, vie, leaked, capture, view>>
          /\ pc' = "VoE_SetLocalReceiver"
          /\ voe' = voe \cup {"channel", "transport"}
          /\ api' = [api EXCEPT !.voiceChannel = 0]
      BY <1>6, <2>2 DEF VoE_CreateChannel
    <3> QED
      BY <3>1
  <2> QED
    BY <2>1, <2>2
<1>7. CASE VoE_SetLocalReceiver
  BY <1>7 DEF VoE_SetLocalReceiver, MayGain
<1>8. CASE VoE_StartListen
  BY <1>8 DEF VoE_StartListen
<1>9. CASE VoE_StartPlayout
  BY <1>9 DEF VoE_StartPlayout, MayGain
<1>10. CASE VoE_StartSend
  <2>1. voe' \subseteq VoiceParts
    BY <1>10 DEF VoE_StartSend, MayGain
  <2> QED
    BY <1>10, <2>1 DEF VoE_StartSend
<1>11. CASE CreateChannel
  BY <1>11 DEF CreateChannel
<1>12. CASE SetLocalReceiver
  BY <1>12 DEF SetLocalReceiver, MayGain
<1>13. CASE StartCamera
  <2>1. StartCameraFacing("front", "front")
    BY <1>13 DEF StartCamera
  <2>2. CameraStarted("front", "front")
    BY <2>1, StartCameraEffect
  <2>3. PICK i \in CaptureIds \cup Garbage :
              api' = [api EXCEPT !.camID = i, !.currentCapture = "front"]
    BY <2>2 DEF CameraStarted
  <2>4. /\ device' \in [Facing -> {0} \cup CaptureIds]
        /\ rotation' \in [Facing -> {0, 270}]
        /\ connected' \subseteq Facing
        /\ running' \subseteq Facing
    BY <2>2 DEF CameraStarted
  <2>5. api' \in [live : BOOLEAN, voiceChannel : {-1, 0}, videoChannel : {-1, 0},
                  camID : {0} \cup CaptureIds \cup Garbage,
                  currentCapture : Facing, voERunning : BOOLEAN,
                  viERunning : BOOLEAN]
    BY <2>3
  <2> QED
    BY <1>13, <2>4, <2>5 DEF StartCamera
<1>14. CASE SetRotation
  <2>1. rotation' \in [Facing -> {0, 270}]
    BY <1>14, RotationType DEF SetRotation
  <2>2. device' = device /\ connected' = connected /\ running' = running
    BY <1>14 DEF SetRotation, SetRotationTo
  <2> QED
    BY <1>14, <2>1, <2>2 DEF SetRotation
<1>15. CASE StartSent
  BY <1>15 DEF StartSent, MayGain
<1>16. CASE AddRemoteRenderer
  BY <1>16 DEF AddRemoteRenderer, MayGain
<1>17. CASE StartRender
  BY <1>17 DEF StartRender, MayGain
<1>18. CASE StartReceive
  BY <1>18 DEF StartReceive, MayGain
<1>19. CASE Vie_SetCallback
  BY <1>19 DEF Vie_SetCallback, Observed
<1>20. CASE StopCamera
  <2>1. /\ device' \in [Facing -> {0} \cup CaptureIds]
        /\ connected' \subseteq connected
        /\ running' \subseteq running
    BY <1>20, StopCameraEffect
  <2>2. /\ pc' = "switch.StartCamera"
        /\ UNCHANGED <<title, api, voe, vie, leaked, rotation, view>>
    BY <1>20 DEF StopCamera
  <2> QED
    BY <2>1, <2>2
<1>21. CASE SwitchStartCamera
  <2>0. Other(api.currentCapture) \in Facing /\ api.currentCapture \in Facing
    BY DEF Other
  <2>1. StartCameraFacing(Other(api.currentCapture), api.currentCapture)
    BY <1>21 DEF SwitchStartCamera
  <2>2. CameraStarted(Other(api.currentCapture), api.currentCapture)
    BY <2>0, <2>1, StartCameraEffect
  <2>3. PICK i \in CaptureIds \cup Garbage :
              api' = [api EXCEPT !.camID = i, !.currentCapture = api.currentCapture]
    BY <2>2 DEF CameraStarted
  <2>4. /\ device' \in [Facing -> {0} \cup CaptureIds]
        /\ rotation' \in [Facing -> {0, 270}]
        /\ connected' \subseteq Facing
        /\ running' \subseteq Facing
    BY <2>2 DEF CameraStarted
  <2>5. api' \in [live : BOOLEAN, voiceChannel : {-1, 0}, videoChannel : {-1, 0},
                  camID : {0} \cup CaptureIds \cup Garbage,
                  currentCapture : Facing, voERunning : BOOLEAN,
                  viERunning : BOOLEAN]
    BY <2>3
  <2> QED
    BY <1>21, <2>4, <2>5 DEF SwitchStartCamera
<1>22. CASE SwitchSetRotation
  <2>1. rotation' \in [Facing -> {0, 270}]
    <3>1. SetRotationTo(0) \/ SetRotationTo(270)
      BY <1>22 DEF SwitchSetRotation
    <3> QED
      BY <3>1, RotationType
  <2> QED
    BY <1>22, <2>1 DEF SwitchSetRotation, SetRotationTo, Other
<1>23. CASE VoE_StopSend
  BY <1>23 DEF VoE_StopSend
<1>24. CASE VoE_StopListen
  BY <1>24 DEF VoE_StopListen
<1>25. CASE VoE_StopPlayout
  BY <1>25 DEF VoE_StopPlayout
<1>26. CASE VoE_DeleteChannel
  BY <1>26 DEF VoE_DeleteChannel
<1>27. CASE VoEBase_DeleteChannel
  BY <1>27 DEF VoEBase_DeleteChannel, VoiceChannelParts
<1>28. CASE VoE_Terminate
  BY <1>28 DEF VoE_Terminate, AfterVoice, VoiceChannelParts
<1>29. CASE StopRender
  BY <1>29 DEF StopRender
<1>30. CASE StopReceive
  BY <1>30 DEF StopReceive
<1>31. CASE StopSend
  BY <1>31 DEF StopSend
<1>32. CASE RemoveRemoteRenderer
  BY <1>32 DEF RemoveRemoteRenderer
<1>33. CASE ViE_DeleteChannel
  BY <1>33 DEF ViE_DeleteChannel
<1>34. CASE ViEBase_DeleteChannel
  BY <1>34 DEF ViEBase_DeleteChannel
<1>35. CASE Terminate
  BY <1>35 DEF Terminate
<1>36. CASE VideoEngineDelete
  BY <1>36 DEF VideoEngineDelete, FreeCameras, Zero
<1>37. CASE ReleaseApi
  <2>1. LeftBehind \subseteq ({"voice"} \X VoiceParts) \cup ({"video"} \X VideoParts)
    <3>1. voe \ {"transport", "socket"} \subseteq VoiceParts
          /\ vie \ {"transport", "socket"} \subseteq VideoParts
      OBVIOUS
    <3> HIDE DEF VoiceParts, VideoParts, TypeOK
    <3> QED
      BY <3>1 DEF LeftBehind
  <2>2. leaked' \subseteq ({"voice"} \X VoiceParts) \cup ({"video"} \X VideoParts)
    BY <1>37, <2>1 DEF ReleaseApi
  <2> QED
    BY <1>37, <2>2 DEF ReleaseApi, NoApi, NewApi
<1>38. CASE ClickStart
  BY <1>38 DEF ClickStart, NewApi
<1>39. CASE ClickSwitch
  BY <1>39 DEF ClickSwitch
<1>40. CASE ClickStop
  BY <1>40 DEF ClickStop, AfterVoice
<1>41. CASE Relaunch
  BY <1>41 DEF Relaunch
<1>42. CASE UNCHANGED vars
  BY <1>42 DEF vars, capture, Allocated, Capturer
<1> QED
  BY <1>1, <1>2, <1>3, <1>4, <1>5, <1>6, <1>7, <1>8, <1>9, <1>10, <1>11,
     <1>12, <1>13, <1>14, <1>15, <1>16, <1>17, <1>18, <1>19, <1>20, <1>21,
     <1>22, <1>23, <1>24, <1>25, <1>26, <1>28, <1>29, <1>30, <1>31, <1>32,
     <1>33, <1>35, <1>36, <1>37, <1>38, <1>39, <1>40, <1>41, <1>42, <1>27,
     <1>34
     DEF Next, HandlerStep, StartStep, SwitchStep, StopStep, Click

\* The title and the two flags follow the handlers.
LEMMA ControlStep == TypeOK /\ Control /\ [Next]_vars => Control'
<1> SUFFICES ASSUME TypeOK, Control, [Next]_vars PROVE Control'
  OBVIOUS
<1> USE DEF Control, NoCall, CallRuns, VoiceStarted, StartSteps, SwitchSteps,
      StopSteps, StopVoiceSteps, StopVideoSteps, At, TypeOK
<1>1. CASE VoE_Create
  BY <1>1 DEF VoE_Create
<1>2. CASE VoE_Init
  BY <1>2 DEF VoE_Init
<1>3. CASE getVideoEngine
  BY <1>3 DEF getVideoEngine
<1>4. CASE InitVideo
  BY <1>4 DEF InitVideo
<1>5. CASE startCall
  BY <1>5 DEF startCall
<1>6. CASE VoE_CreateChannel
  BY <1>6 DEF VoE_CreateChannel, Abort, NoApi, NewApi
<1>7. CASE VoE_SetLocalReceiver
  BY <1>7 DEF VoE_SetLocalReceiver
<1>8. CASE VoE_StartListen
  BY <1>8 DEF VoE_StartListen
<1>9. CASE VoE_StartPlayout
  BY <1>9 DEF VoE_StartPlayout
<1>10. CASE VoE_StartSend
  BY <1>10 DEF VoE_StartSend
<1>11. CASE CreateChannel
  BY <1>11 DEF CreateChannel
<1>12. CASE SetLocalReceiver
  BY <1>12 DEF SetLocalReceiver
<1>13. CASE StartCamera
  <2>1. StartCameraFacing("front", "front")
    BY <1>13 DEF StartCamera
  <2>2. CameraStarted("front", "front")
    BY <2>1, StartCameraEffect DEF Facing
  <2>3. PICK i \in CaptureIds \cup Garbage :
              api' = [api EXCEPT !.camID = i, !.currentCapture = "front"]
    BY <2>2 DEF CameraStarted
  <2>4. /\ api'.live = api.live
        /\ api'.voERunning = api.voERunning
        /\ api'.viERunning = api.viERunning
    BY <2>3
  <2> QED
    BY <1>13, <2>4 DEF StartCamera
<1>14. CASE SetRotation
  BY <1>14 DEF SetRotation
<1>15. CASE StartSent
  BY <1>15 DEF StartSent
<1>16. CASE AddRemoteRenderer
  BY <1>16 DEF AddRemoteRenderer
<1>17. CASE StartRender
  BY <1>17 DEF StartRender
<1>18. CASE StartReceive
  BY <1>18 DEF StartReceive
<1>19. CASE Vie_SetCallback
  BY <1>19 DEF Vie_SetCallback, Observed
<1>20. CASE StopCamera
  BY <1>20 DEF StopCamera
<1>21. CASE SwitchStartCamera
  <2>0. Other(api.currentCapture) \in Facing /\ api.currentCapture \in Facing
    BY DEF Other, Facing
  <2>1. StartCameraFacing(Other(api.currentCapture), api.currentCapture)
    BY <1>21 DEF SwitchStartCamera
  <2>2. CameraStarted(Other(api.currentCapture), api.currentCapture)
    BY <2>0, <2>1, StartCameraEffect
  <2>3. PICK i \in CaptureIds \cup Garbage :
              api' = [api EXCEPT !.camID = i, !.currentCapture = api.currentCapture]
    BY <2>2 DEF CameraStarted
  <2>4. /\ api'.live = api.live
        /\ api'.voERunning = api.voERunning
        /\ api'.viERunning = api.viERunning
    BY <2>3
  <2> QED
    BY <1>21, <2>4 DEF SwitchStartCamera
<1>22. CASE SwitchSetRotation
  BY <1>22 DEF SwitchSetRotation, Other
<1>23. CASE VoE_StopSend
  BY <1>23 DEF VoE_StopSend
<1>24. CASE VoE_StopListen
  BY <1>24 DEF VoE_StopListen
<1>25. CASE VoE_StopPlayout
  BY <1>25 DEF VoE_StopPlayout
<1>26. CASE VoE_DeleteChannel
  BY <1>26 DEF VoE_DeleteChannel
<1>27. CASE VoEBase_DeleteChannel
  BY <1>27 DEF VoEBase_DeleteChannel, VoiceChannelParts
<1>28. CASE VoE_Terminate
  BY <1>28 DEF VoE_Terminate, AfterVoice, VoiceChannelParts
<1>29. CASE StopRender
  BY <1>29 DEF StopRender
<1>30. CASE StopReceive
  BY <1>30 DEF StopReceive
<1>31. CASE StopSend
  BY <1>31 DEF StopSend
<1>32. CASE RemoveRemoteRenderer
  BY <1>32 DEF RemoveRemoteRenderer
<1>33. CASE ViE_DeleteChannel
  BY <1>33 DEF ViE_DeleteChannel
<1>34. CASE ViEBase_DeleteChannel
  BY <1>34 DEF ViEBase_DeleteChannel
<1>35. CASE Terminate
  BY <1>35 DEF Terminate
<1>36. CASE VideoEngineDelete
  BY <1>36 DEF VideoEngineDelete
<1>37. CASE ReleaseApi
  BY <1>37 DEF ReleaseApi, NoApi, NewApi
<1>38. CASE ClickStart
  BY <1>38 DEF ClickStart, NewApi
<1>39. CASE ClickSwitch
  BY <1>39 DEF ClickSwitch
<1>40. CASE ClickStop
  BY <1>40 DEF ClickStop, AfterVoice
<1>41. CASE Relaunch
  BY <1>41 DEF Relaunch
<1>42. CASE UNCHANGED vars
  BY <1>42 DEF vars, capture, Allocated, Capturer
<1> QED
  BY <1>1, <1>2, <1>3, <1>4, <1>5, <1>6, <1>7, <1>8, <1>9, <1>10, <1>11,
     <1>12, <1>13, <1>14, <1>15, <1>16, <1>17, <1>18, <1>19, <1>20, <1>21,
     <1>22, <1>23, <1>24, <1>25, <1>26, <1>28, <1>29, <1>30, <1>31, <1>32,
     <1>33, <1>35, <1>36, <1>37, <1>38, <1>39, <1>40, <1>41, <1>42, <1>27,
     <1>34
     DEF Next, HandlerStep, StartStep, SwitchStep, StopStep, Click

\* What the voice engine holds shrinks to its sub-APIs while it is stopped.
LEMMA VoiceStep == TypeOK /\ Control /\ Voice /\ [Next]_vars => Voice'
<1> SUFFICES ASSUME TypeOK, Control, Voice, [Next]_vars PROVE Voice'
  OBVIOUS
<1> USE DEF Control, Voice, NoCall, CallRuns, VoiceStarted, StartSteps,
      SwitchSteps, StopSteps, StopVoiceSteps, StopVideoSteps, At, TypeOK, VoiceParts
<1>1. CASE VoE_Create
  BY <1>1 DEF VoE_Create
<1>2. CASE VoE_Init
  BY <1>2 DEF VoE_Init
<1>3. CASE getVideoEngine
  BY <1>3 DEF getVideoEngine
<1>4. CASE InitVideo
  BY <1>4 DEF InitVideo
<1>5. CASE startCall
  BY <1>5 DEF startCall
<1>6. CASE VoE_CreateChannel
  BY <1>6 DEF VoE_CreateChannel, Abort, NoApi, NewApi
<1>7. CASE VoE_SetLocalReceiver
  BY <1>7 DEF VoE_SetLocalReceiver, MayGain
<1>8. CASE VoE_StartListen
  BY <1>8 DEF VoE_StartListen
<1>9. CASE VoE_StartPlayout
  BY <1>9 DEF VoE_StartPlayout, MayGain
<1>10. CASE VoE_StartSend
  <2>1. voe \subseteq voe' /\ (voe' = voe \/ "channel" \in voe)
    <3>1. PICK opened \in MayGain(voe, "microphone", "channel" \in voe) :
              voe' \in MayGain(opened, "sending", "microphone" \in opened)
      BY <1>10 DEF VoE_StartSend
    <3>2. voe \subseteq opened /\ opened \subseteq voe'
      BY <3>1 DEF MayGain
    <3> QED
      BY <3>1, <3>2 DEF MayGain
  <2> QED
    BY <1>10, <2>1 DEF VoE_StartSend
<1>11. CASE CreateChannel
  BY <1>11 DEF CreateChannel
<1>12. CASE SetLocalReceiver
  BY <1>12 DEF SetLocalReceiver, MayGain
<1>13. CASE StartCamera
  BY <1>13 DEF StartCamera
<1>14. CASE SetRotation
  BY <1>14 DEF SetRotation
<1>15. CASE StartSent
  BY <1>15 DEF StartSent, MayGain
<1>16. CASE AddRemoteRenderer
  BY <1>16 DEF AddRemoteRenderer, MayGain
<1>17. CASE StartRender
  BY <1>17 DEF StartRender, MayGain
<1>18. CASE StartReceive
  BY <1>18 DEF StartReceive, MayGain
<1>19. CASE Vie_SetCallback
  BY <1>19 DEF Vie_SetCallback, Observed
<1>20. CASE StopCamera
  BY <1>20 DEF StopCamera
<1>21. CASE SwitchStartCamera
  BY <1>21 DEF SwitchStartCamera, Other
<1>22. CASE SwitchSetRotation
  BY <1>22 DEF SwitchSetRotation, Other
<1>23. CASE VoE_StopSend
  BY <1>23 DEF VoE_StopSend
<1>24. CASE VoE_StopListen
  BY <1>24 DEF VoE_StopListen
<1>25. CASE VoE_StopPlayout
  BY <1>25 DEF VoE_StopPlayout
<1>26. CASE VoE_DeleteChannel
  BY <1>26 DEF VoE_DeleteChannel
<1>27. CASE VoEBase_DeleteChannel
  BY <1>27 DEF VoEBase_DeleteChannel, VoiceChannelParts
<1>28. CASE VoE_Terminate
  BY <1>28 DEF VoE_Terminate, AfterVoice, VoiceChannelParts
<1>29. CASE StopRender
  BY <1>29 DEF StopRender
<1>30. CASE StopReceive
  BY <1>30 DEF StopReceive
<1>31. CASE StopSend
  BY <1>31 DEF StopSend
<1>32. CASE RemoveRemoteRenderer
  BY <1>32 DEF RemoveRemoteRenderer
<1>33. CASE ViE_DeleteChannel
  BY <1>33 DEF ViE_DeleteChannel
<1>34. CASE ViEBase_DeleteChannel
  BY <1>34 DEF ViEBase_DeleteChannel
<1>35. CASE Terminate
  BY <1>35 DEF Terminate
<1>36. CASE VideoEngineDelete
  BY <1>36 DEF VideoEngineDelete
<1>37. CASE ReleaseApi
  BY <1>37 DEF ReleaseApi, NoApi, NewApi
<1>38. CASE ClickStart
  BY <1>38 DEF ClickStart, NewApi
<1>39. CASE ClickSwitch
  BY <1>39 DEF ClickSwitch
<1>40. CASE ClickStop
  BY <1>40 DEF ClickStop, AfterVoice
<1>41. CASE Relaunch
  BY <1>41 DEF Relaunch
<1>42. CASE UNCHANGED vars
  BY <1>42 DEF vars, capture, Allocated, Capturer
<1> QED
  BY <1>1, <1>2, <1>3, <1>4, <1>5, <1>6, <1>7, <1>8, <1>9, <1>10, <1>11,
     <1>12, <1>13, <1>14, <1>15, <1>16, <1>17, <1>18, <1>19, <1>20, <1>21,
     <1>22, <1>23, <1>24, <1>25, <1>26, <1>28, <1>29, <1>30, <1>31, <1>32,
     <1>33, <1>35, <1>36, <1>37, <1>38, <1>39, <1>40, <1>41, <1>42, <1>27,
     <1>34
     DEF Next, HandlerStep, StartStep, SwitchStep, StopStep, Click

\* What the video engine holds is gone before the view is.
LEMMA VideoStep == TypeOK /\ Control /\ Voice /\ Video /\ [Next]_vars => Video'
<1> SUFFICES ASSUME TypeOK, Control, Voice, Video, [Next]_vars PROVE Video'
  OBVIOUS
<1> USE DEF Control, Voice, Video, ViewShown, NoCall, CallRuns, VoiceStarted, StartSteps,
      SwitchSteps, StopSteps, StopVoiceSteps, StopVideoSteps, At, TypeOK, VideoParts
<1>1. CASE VoE_Create
  BY <1>1 DEF VoE_Create
<1>2. CASE VoE_Init
  BY <1>2 DEF VoE_Init
<1>3. CASE getVideoEngine
  BY <1>3 DEF getVideoEngine
<1>4. CASE InitVideo
  BY <1>4 DEF InitVideo
<1>5. CASE startCall
  BY <1>5 DEF startCall
<1>6. CASE VoE_CreateChannel
  BY <1>6 DEF VoE_CreateChannel, Abort, NoApi, NewApi
<1>7. CASE VoE_SetLocalReceiver
  BY <1>7 DEF VoE_SetLocalReceiver, MayGain
<1>8. CASE VoE_StartListen
  BY <1>8 DEF VoE_StartListen
<1>9. CASE VoE_StartPlayout
  BY <1>9 DEF VoE_StartPlayout, MayGain
<1>10. CASE VoE_StartSend
  <2>1. /\ UNCHANGED <<title, vie, view>>
        /\ pc = "VoE_StartSend" /\ pc' = "CreateChannel"
    BY <1>10 DEF VoE_StartSend
  <2> QED
    BY <2>1
<1>11. CASE CreateChannel
  BY <1>11 DEF CreateChannel
<1>12. CASE SetLocalReceiver
  BY <1>12 DEF SetLocalReceiver, MayGain
<1>13. CASE StartCamera
  BY <1>13 DEF StartCamera
<1>14. CASE SetRotation
  BY <1>14 DEF SetRotation
<1>15. CASE StartSent
  BY <1>15 DEF StartSent, MayGain
<1>16. CASE AddRemoteRenderer
  BY <1>16 DEF AddRemoteRenderer, MayGain
<1>17. CASE StartRender
  BY <1>17 DEF StartRender, MayGain
<1>18. CASE StartReceive
  BY <1>18 DEF StartReceive, MayGain
<1>19. CASE Vie_SetCallback
  BY <1>19 DEF Vie_SetCallback, Observed
<1>20. CASE StopCamera
  BY <1>20 DEF StopCamera
<1>21. CASE SwitchStartCamera
  BY <1>21 DEF SwitchStartCamera, Other
<1>22. CASE SwitchSetRotation
  BY <1>22 DEF SwitchSetRotation, Other
<1>23. CASE VoE_StopSend
  BY <1>23 DEF VoE_StopSend
<1>24. CASE VoE_StopListen
  BY <1>24 DEF VoE_StopListen
<1>25. CASE VoE_StopPlayout
  BY <1>25 DEF VoE_StopPlayout
<1>26. CASE VoE_DeleteChannel
  BY <1>26 DEF VoE_DeleteChannel
<1>27. CASE VoEBase_DeleteChannel
  BY <1>27 DEF VoEBase_DeleteChannel, VoiceChannelParts
<1>28. CASE VoE_Terminate
  BY <1>28 DEF VoE_Terminate, AfterVoice, VoiceChannelParts
<1>29. CASE StopRender
  BY <1>29 DEF StopRender
<1>30. CASE StopReceive
  BY <1>30 DEF StopReceive
<1>31. CASE StopSend
  BY <1>31 DEF StopSend
<1>32. CASE RemoveRemoteRenderer
  BY <1>32 DEF RemoveRemoteRenderer
<1>33. CASE ViE_DeleteChannel
  BY <1>33 DEF ViE_DeleteChannel
<1>34. CASE ViEBase_DeleteChannel
  BY <1>34 DEF ViEBase_DeleteChannel
<1>35. CASE Terminate
  BY <1>35 DEF Terminate
<1>36. CASE VideoEngineDelete
  BY <1>36 DEF VideoEngineDelete
<1>37. CASE ReleaseApi
  BY <1>37 DEF ReleaseApi, NoApi, NewApi
<1>38. CASE ClickStart
  BY <1>38 DEF ClickStart, NewApi
<1>39. CASE ClickSwitch
  BY <1>39 DEF ClickSwitch
<1>40. CASE ClickStop
  BY <1>40 DEF ClickStop, AfterVoice
<1>41. CASE Relaunch
  BY <1>41 DEF Relaunch
<1>42. CASE UNCHANGED vars
  BY <1>42 DEF vars, capture, Allocated, Capturer
<1> QED
  BY <1>1, <1>2, <1>3, <1>4, <1>5, <1>6, <1>7, <1>8, <1>9, <1>10, <1>11,
     <1>12, <1>13, <1>14, <1>15, <1>16, <1>17, <1>18, <1>19, <1>20, <1>21,
     <1>22, <1>23, <1>24, <1>25, <1>26, <1>28, <1>29, <1>30, <1>31, <1>32,
     <1>33, <1>35, <1>36, <1>37, <1>38, <1>39, <1>40, <1>41, <1>42, <1>27,
     <1>34
     DEF Next, HandlerStep, StartStep, SwitchStep, StopStep, Click

\* What goes out of reach: VideoEngine::Delete forgets the observer only, as the
\* transport is closed by then, and the wrapper's destructor the voice engine.
LEMMA LeaksStep == TypeOK /\ Voice /\ Video /\ Leaks /\ [Next]_vars => Leaks'
<1> SUFFICES ASSUME TypeOK, Voice, Video, Leaks, [Next]_vars PROVE Leaks'
  OBVIOUS
<1> USE DEF Leaks
<1>1. CASE StartStep
  <2>1. leaked' = leaked \/ leaked' = {}
    BY <1>1 DEF StartStep, VoE_Create, VoE_Init, getVideoEngine, InitVideo, startCall,
         VoE_CreateChannel, Abort, VoE_SetLocalReceiver, VoE_StartListen,
         VoE_StartPlayout, VoE_StartSend, CreateChannel, SetLocalReceiver, StartCamera,
         SetRotation, StartSent, AddRemoteRenderer, StartRender, StartReceive,
         Vie_SetCallback
  <2> QED
    BY <2>1 DEF Leaked
<1>2. CASE StopStep
  <2>1. CASE VideoEngineDelete
    <3>1. vie \cap {"transport", "socket", "observer"} \subseteq {"observer"}
      BY <2>1 DEF VideoEngineDelete, At, Video
    <3> QED
      BY <2>1, <3>1 DEF VideoEngineDelete, Leaked
  <2>2. CASE ReleaseApi
    <3>1. vie = {} /\ voe \subseteq {"subApis"}
      BY <2>2 DEF ReleaseApi, At, Video, Voice
    <3>2. ASSUME NEW r \in LeftBehind PROVE r = <<"voice", "subApis">>
      <4>1. r \in {"voice"} \X (voe \ {"transport", "socket"})
        BY <3>1, <3>2 DEF LeftBehind
      <4>2. PICK x \in {"voice"}, y \in voe : r = <<x, y>>
        BY <4>1
      <4> QED
        BY <3>1, <4>2
    <3>3. LeftBehind \subseteq Leaked
      BY <3>2 DEF Leaked
    <3> QED
      BY <2>2, <3>3 DEF ReleaseApi
  <2>3. CASE ~(VideoEngineDelete \/ ReleaseApi)
    BY <1>2, <2>3 DEF StopStep, VoE_StopSend, VoE_StopListen, VoE_StopPlayout,
         VoE_DeleteChannel, VoEBase_DeleteChannel, VoE_Terminate, StopRender,
         StopReceive, StopSend, RemoveRemoteRenderer, ViE_DeleteChannel,
         ViEBase_DeleteChannel, Terminate, Leaked
  <2> QED
    BY <2>1, <2>2, <2>3
<1>3. CASE SwitchStep \/ Click \/ Relaunch \/ UNCHANGED vars
  BY <1>3 DEF SwitchStep, StopCamera, SwitchStartCamera, SwitchSetRotation, Click,
       ClickStart, ClickSwitch, ClickStop, Relaunch, vars, Leaked
<1> QED
  BY <1>1, <1>2, <1>3 DEF Next, HandlerStep

\* camID stays the handle of every camera that is allocated.
LEMMA CameraStep == TypeOK /\ Control /\ Camera /\ [Next]_vars => Camera'
<1> SUFFICES ASSUME TypeOK, Control, Camera, [Next]_vars PROVE Camera'
  OBVIOUS
<1> USE DEF Control, Camera, NoOrphanCamera, Allocated, Capturer, NoCall,
      CallRuns, BeforeCamera, StartSteps, SwitchSteps, StopSteps,
      StopVoiceSteps, StopVideoSteps, At, TypeOK, Facing, capture
<1>1. CASE VoE_Create
  BY <1>1 DEF VoE_Create
<1>2. CASE VoE_Init
  BY <1>2 DEF VoE_Init
<1>3. CASE getVideoEngine
  BY <1>3 DEF getVideoEngine
<1>4. CASE InitVideo
  BY <1>4 DEF InitVideo
<1>5. CASE startCall
  BY <1>5 DEF startCall
<1>6. CASE VoE_CreateChannel
  BY <1>6 DEF VoE_CreateChannel, Abort, FreeCameras, Zero, NoApi, NewApi
<1>7. CASE VoE_SetLocalReceiver
  BY <1>7 DEF VoE_SetLocalReceiver
<1>8. CASE VoE_StartListen
  BY <1>8 DEF VoE_StartListen
<1>9. CASE VoE_StartPlayout
  BY <1>9 DEF VoE_StartPlayout
<1>10. CASE VoE_StartSend
  BY <1>10 DEF VoE_StartSend
<1>11. CASE CreateChannel
  BY <1>11 DEF CreateChannel
<1>12. CASE SetLocalReceiver
  BY <1>12 DEF SetLocalReceiver
<1>13. CASE StartCamera
  <2>1. StartCameraFacing("front", "front")
    BY <1>13 DEF StartCamera
  <2>2. CameraStarted("front", "front")
    <3> HIDE DEF TypeOK, Allocated, Capturer
    <3> QED
      BY <2>1, StartCameraEffect DEF Facing
  <2>3. Allocated = {} /\ connected \cup running = {}
    BY <1>13 DEF StartCamera
  <2>4. /\ \A f \in Allocated' : device'[f] = api'.camID
        /\ connected' \cup running' \subseteq Allocated'
    BY <2>2, <2>3 DEF CameraStarted
  <2> QED
    BY <1>13, <2>4 DEF StartCamera
<1>14. CASE SetRotation
  <2>1. device' = device /\ connected' = connected /\ running' = running
    BY <1>14 DEF SetRotation, SetRotationTo
  <2> QED
    BY <1>14, <2>1 DEF SetRotation
<1>15. CASE StartSent
  BY <1>15 DEF StartSent
<1>16. CASE AddRemoteRenderer
  BY <1>16 DEF AddRemoteRenderer
<1>17. CASE StartRender
  BY <1>17 DEF StartRender
<1>18. CASE StartReceive
  BY <1>18 DEF StartReceive
<1>19. CASE Vie_SetCallback
  BY <1>19 DEF Vie_SetCallback, Observed
<1>20. CASE StopCamera
  <2>1. /\ Allocated' = {}
        /\ connected' = {}
        /\ running' = {}
    <3> HIDE DEF Allocated, Capturer, TypeOK
    <3>1. /\ Allocated \ Capturer(api.camID) = {}
          /\ connected \ Capturer(api.camID) = {}
          /\ running \ Capturer(api.camID) = {}
      BY DEF Camera, NoOrphanCamera
    <3> QED
      BY <1>20, <3>1, StopCameraEffect
  <2> QED
    BY <1>20, <2>1 DEF StopCamera
<1>21. CASE SwitchStartCamera
  <2>0. Other(api.currentCapture) \in Facing /\ api.currentCapture \in Facing
    BY DEF Other
  <2>1. StartCameraFacing(Other(api.currentCapture), api.currentCapture)
    BY <1>21 DEF SwitchStartCamera
  <2>2. CameraStarted(Other(api.currentCapture), api.currentCapture)
    <3> HIDE DEF TypeOK, Allocated, Capturer
    <3> QED
      BY <2>0, <2>1, StartCameraEffect DEF Facing
  <2>3. Allocated = {} /\ connected \cup running = {}
    BY <1>21 DEF SwitchStartCamera
  <2>4. /\ \A f \in Allocated' : device'[f] = api'.camID
        /\ connected' \cup running' \subseteq Allocated'
    BY <2>2, <2>3 DEF CameraStarted
  <2> QED
    BY <1>21, <2>4 DEF SwitchStartCamera
<1>22. CASE SwitchSetRotation
  <2>1. device' = device /\ connected' = connected /\ running' = running
    BY <1>22 DEF SwitchSetRotation, SetRotationTo
  <2> QED
    BY <1>22, <2>1 DEF SwitchSetRotation
<1>23. CASE VoE_StopSend
  BY <1>23 DEF VoE_StopSend
<1>24. CASE VoE_StopListen
  BY <1>24 DEF VoE_StopListen
<1>25. CASE VoE_StopPlayout
  BY <1>25 DEF VoE_StopPlayout
<1>26. CASE VoE_DeleteChannel
  BY <1>26 DEF VoE_DeleteChannel
<1>27. CASE VoEBase_DeleteChannel
  BY <1>27 DEF VoEBase_DeleteChannel, VoiceChannelParts
<1>28. CASE VoE_Terminate
  BY <1>28 DEF VoE_Terminate, AfterVoice, VoiceChannelParts
<1>29. CASE StopRender
  BY <1>29 DEF StopRender
<1>30. CASE StopReceive
  BY <1>30 DEF StopReceive
<1>31. CASE StopSend
  BY <1>31 DEF StopSend
<1>32. CASE RemoveRemoteRenderer
  BY <1>32 DEF RemoveRemoteRenderer
<1>33. CASE ViE_DeleteChannel
  BY <1>33 DEF ViE_DeleteChannel
<1>34. CASE ViEBase_DeleteChannel
  BY <1>34 DEF ViEBase_DeleteChannel
<1>35. CASE Terminate
  BY <1>35 DEF Terminate
<1>36. CASE VideoEngineDelete
  BY <1>36 DEF VideoEngineDelete, FreeCameras, Zero
<1>37. CASE ReleaseApi
  BY <1>37 DEF ReleaseApi, NoApi, NewApi
<1>38. CASE ClickStart
  BY <1>38 DEF ClickStart, NewApi
<1>39. CASE ClickSwitch
  BY <1>39 DEF ClickSwitch
<1>40. CASE ClickStop
  BY <1>40 DEF ClickStop, AfterVoice
<1>41. CASE Relaunch
  BY <1>41 DEF Relaunch
<1>42. CASE UNCHANGED vars
  BY <1>42 DEF vars, capture, Allocated, Capturer
<1> QED
  BY <1>1, <1>2, <1>3, <1>4, <1>5, <1>6, <1>7, <1>8, <1>9, <1>10, <1>11,
     <1>12, <1>13, <1>14, <1>15, <1>16, <1>17, <1>18, <1>19, <1>20, <1>21,
     <1>22, <1>23, <1>24, <1>25, <1>26, <1>28, <1>29, <1>30, <1>31, <1>32,
     <1>33, <1>35, <1>36, <1>37, <1>38, <1>39, <1>40, <1>41, <1>42, <1>27,
     <1>34
     DEF Next, HandlerStep, StartStep, SwitchStep, StopStep, Click

\* The camera of a call is the one that was asked for, it is turned right and it
\* feeds the encoder.
LEMMA ServingStep == TypeOK /\ Control /\ Video /\ Camera /\ Serving /\ [Next]_vars => Serving'
<1> SUFFICES ASSUME TypeOK, Control, Video, Camera, Serving, [Next]_vars PROVE Serving'
  OBVIOUS
<1> USE DEF Control, Video, Camera, Serving, NoOrphanCamera, Allocated, Capturer,
      Needed, CameraTurned, NoCall, CallRuns, BeforeCamera, StartSteps, SwitchSteps,
      StopSteps, StopVoiceSteps, StopVideoSteps, At, TypeOK, Facing, capture
<1>1. CASE VoE_Create
  BY <1>1 DEF VoE_Create
<1>2. CASE VoE_Init
  BY <1>2 DEF VoE_Init
<1>3. CASE getVideoEngine
  BY <1>3 DEF getVideoEngine
<1>4. CASE InitVideo
  BY <1>4 DEF InitVideo
<1>5. CASE startCall
  BY <1>5 DEF startCall
<1>6. CASE VoE_CreateChannel
  BY <1>6 DEF VoE_CreateChannel, Abort, FreeCameras, Zero, NoApi, NewApi
<1>7. CASE VoE_SetLocalReceiver
  BY <1>7 DEF VoE_SetLocalReceiver, MayGain
<1>8. CASE VoE_StartListen
  BY <1>8 DEF VoE_StartListen
<1>9. CASE VoE_StartPlayout
  BY <1>9 DEF VoE_StartPlayout, MayGain
<1>10. CASE VoE_StartSend
  BY <1>10 DEF VoE_StartSend, MayGain
<1>11. CASE CreateChannel
  BY <1>11 DEF CreateChannel
<1>12. CASE SetLocalReceiver
  BY <1>12 DEF SetLocalReceiver, MayGain
<1>13. CASE StartCamera
  <2>1. StartCameraFacing("front", "front")
    BY <1>13 DEF StartCamera
  <2>2. CameraStarted("front", "front")
    <3> HIDE DEF TypeOK, Allocated, Capturer
    <3> QED
      BY <2>1, StartCameraEffect DEF Facing
  <2>3. Allocated = {} /\ connected \cup running = {}
    BY <1>13 DEF StartCamera
  <2>4. /\ Allocated' \subseteq {"front"}
        /\ "channel" \in vie => Allocated' \subseteq connected'
    <3> HIDE DEF Allocated
    <3> QED
      BY <2>2, <2>3 DEF CameraStarted
  <2>5. api'.currentCapture = "front"
    BY <2>2 DEF CameraStarted
  <2> QED
    BY <1>13, <2>4, <2>5 DEF StartCamera
<1>14. CASE SetRotation
  <2>1. /\ device' = device /\ connected' = connected
        /\ api' = api /\ vie' = vie /\ pc' = "StartSent"
    BY <1>14 DEF SetRotation, SetRotationTo
  <2>2. ASSUME "front" \in Allocated PROVE rotation'["front"] = 270
    <3>1. "front" \in Capturer(api.camID) /\ api.camID > 0
      BY <2>2 DEF CaptureIds
    <3> QED
      BY <1>14, <3>1 DEF SetRotation, SetRotationTo
  <2> QED
    BY <1>14, <2>1, <2>2 DEF SetRotation
<1>15. CASE StartSent
  BY <1>15 DEF StartSent, MayGain
<1>16. CASE AddRemoteRenderer
  BY <1>16 DEF AddRemoteRenderer, MayGain
<1>17. CASE StartRender
  BY <1>17 DEF StartRender, MayGain
<1>18. CASE StartReceive
  BY <1>18 DEF StartReceive, MayGain
<1>19. CASE Vie_SetCallback
  BY <1>19 DEF Vie_SetCallback, Observed
<1>20. CASE StopCamera
  <2>1. /\ Allocated' = {}
        /\ connected' = {}
        /\ running' = {}
    <3> HIDE DEF Allocated, Capturer, TypeOK
    <3>1. /\ Allocated \ Capturer(api.camID) = {}
          /\ connected \ Capturer(api.camID) = {}
          /\ running \ Capturer(api.camID) = {}
      BY DEF Camera, NoOrphanCamera
    <3> QED
      BY <1>20, <3>1, StopCameraEffect
  <2> QED
    BY <1>20, <2>1 DEF StopCamera
<1>21. CASE SwitchStartCamera
  <2>0. Other(api.currentCapture) \in Facing /\ api.currentCapture \in Facing
    BY DEF Other
  <2>1. StartCameraFacing(Other(api.currentCapture), api.currentCapture)
    BY <1>21 DEF SwitchStartCamera
  <2>2. CameraStarted(Other(api.currentCapture), api.currentCapture)
    <3> HIDE DEF TypeOK, Allocated, Capturer
    <3> QED
      BY <2>0, <2>1, StartCameraEffect DEF Facing
  <2>3. Allocated = {} /\ connected \cup running = {}
    BY <1>21 DEF SwitchStartCamera
  <2>4. /\ Allocated' \subseteq {Other(api.currentCapture)}
        /\ "channel" \in vie => Allocated' \subseteq connected'
    <3> HIDE DEF Allocated
    <3> QED
      BY <2>2, <2>3 DEF CameraStarted
  <2>5. api'.currentCapture = api.currentCapture
    BY <2>2 DEF CameraStarted
  <2> QED
    BY <1>21, <2>4, <2>5 DEF SwitchStartCamera
<1>22. CASE SwitchSetRotation
  BY <1>22 DEF SwitchSetRotation, SetRotationTo, Other
<1>23. CASE VoE_StopSend
  BY <1>23 DEF VoE_StopSend
<1>24. CASE VoE_StopListen
  BY <1>24 DEF VoE_StopListen
<1>25. CASE VoE_StopPlayout
  BY <1>25 DEF VoE_StopPlayout
<1>26. CASE VoE_DeleteChannel
  BY <1>26 DEF VoE_DeleteChannel
<1>27. CASE VoEBase_DeleteChannel
  BY <1>27 DEF VoEBase_DeleteChannel, VoiceChannelParts
<1>28. CASE VoE_Terminate
  BY <1>28 DEF VoE_Terminate, AfterVoice, VoiceChannelParts
<1>29. CASE StopRender
  BY <1>29 DEF StopRender
<1>30. CASE StopReceive
  BY <1>30 DEF StopReceive
<1>31. CASE StopSend
  BY <1>31 DEF StopSend
<1>32. CASE RemoveRemoteRenderer
  BY <1>32 DEF RemoveRemoteRenderer
<1>33. CASE ViE_DeleteChannel
  BY <1>33 DEF ViE_DeleteChannel
<1>34. CASE ViEBase_DeleteChannel
  BY <1>34 DEF ViEBase_DeleteChannel
<1>35. CASE Terminate
  BY <1>35 DEF Terminate
<1>36. CASE VideoEngineDelete
  BY <1>36 DEF VideoEngineDelete, FreeCameras, Zero
<1>37. CASE ReleaseApi
  BY <1>37 DEF ReleaseApi, NoApi, NewApi
<1>38. CASE ClickStart
  BY <1>38 DEF ClickStart, NewApi
<1>39. CASE ClickSwitch
  BY <1>39 DEF ClickSwitch
<1>40. CASE ClickStop
  BY <1>40 DEF ClickStop, AfterVoice
<1>41. CASE Relaunch
  BY <1>41 DEF Relaunch
<1>42. CASE UNCHANGED vars
  BY <1>42 DEF vars, capture, Allocated, Capturer
<1> QED
  BY <1>1, <1>2, <1>3, <1>4, <1>5, <1>6, <1>7, <1>8, <1>9, <1>10, <1>11,
     <1>12, <1>13, <1>14, <1>15, <1>16, <1>17, <1>18, <1>19, <1>20, <1>21,
     <1>22, <1>23, <1>24, <1>25, <1>26, <1>28, <1>29, <1>30, <1>31, <1>32,
     <1>33, <1>35, <1>36, <1>37, <1>38, <1>39, <1>40, <1>41, <1>42, <1>27,
     <1>34
     DEF Next, HandlerStep, StartStep, SwitchStep, StopStep, Click

-----------------------------------------------------------------------------
(* The theorems                                                            *)

\* At launch nothing exists yet.
LEMMA InitInv == Init => IInv
BY DEF Init, IInv, TypeOK, Control, Voice, Video, Leaks, Leaked, Camera, Serving, NoOrphanCamera,
   NoApi, NewApi, Zero, Allocated, Capturer, NoCall, CallRuns, Labels, StartSteps,
   SwitchSteps, StopSteps, StopVoiceSteps, StopVideoSteps, BeforeCamera, ViewShown,
   VoiceStarted, CameraTurned, Facing, CaptureIds, VoiceParts, VideoParts

\* The invariant holds at every step of every call.
THEOREM Invariance == Spec => []IInv
<1>1. IInv /\ [Next]_vars => IInv'
  BY TypeStep, ControlStep, VoiceStep, VideoStep, LeaksStep, CameraStep, ServingStep DEF IInv
<1> QED
  BY <1>1, InitInv, PTL DEF Spec

\* The values stay in their types, for every garbage an uninitialised camera id
\* may hold.
THEOREM TypeCorrect == Spec => []TypeOK
<1>1. IInv => TypeOK
  BY DEF IInv
<1> QED
  BY <1>1, Invariance, PTL

\* Where no call is, of all that the last one held there are leaks at most.
LEMMA NoCallHolds == ASSUME IInv, NoCall PROVE held \subseteq Leaked
<1>1. voe = {} /\ vie = {} /\ Allocated = {} /\ ~view /\ leaked \subseteq Leaked
  BY DEF IInv, Voice, Video, Leaks, Camera
<1> HIDE DEF Allocated
<1> QED
  BY <1>1 DEF held

\* Before a new call is offered stopAll and the controller have given back every
\* port, channel, device, renderer and view, whatever failed; of the objects the
\* call made, the voice engine and the observer alone are left.
THEOREM HangUpFreesAll == Spec => []IdleHoldsOnlyLeaks
<1>1. IInv => IdleHoldsOnlyLeaks
  BY NoCallHolds DEF IdleHoldsOnlyLeaks, NoCall
<1> QED
  BY <1>1, Invariance, PTL

\* switchCapture never loses the handle of an allocated camera.
THEOREM CameraKept == Spec => []NoOrphanCamera
<1>1. IInv => NoOrphanCamera
  BY DEF IInv, Camera
<1> QED
  BY <1>1, Invariance, PTL

\* Between handlers the camera is the one named, upright and connected.
THEOREM CameraServes == Spec => []CameraServesCall
<1>1. IInv => CameraServesCall
  <2> SUFFICES ASSUME IInv, pc = "ui", NEW f \in Allocated
               PROVE  /\ f = api.currentCapture
                      /\ rotation[f] = (IF f = "front" THEN 270 ELSE 0)
                      /\ "channel" \in vie => connected = {f}
    BY DEF CameraServesCall
  <2>1. f = api.currentCapture /\ rotation[f] = Needed(f)
    BY DEF IInv, Serving
  <2>2. \A g \in Allocated : g = f
    BY <2>1 DEF IInv, Serving
  <2>3. "channel" \in vie => connected = Allocated
    <3> HIDE DEF Allocated
    <3> QED
      BY DEF IInv, Serving, Camera, NoOrphanCamera
  <2>4. Allocated = {f}
    BY <2>2
  <2> QED
    BY <2>1, <2>3, <2>4 DEF Needed
<1> QED
  BY <1>1, Invariance, PTL

\* The wrappers close a socket before the engine deletes the channel it delivers
\* into, in both engines.
THEOREM SocketsSafe == Spec => []SocketsHaveChannels
<1>1. IInv => SocketsHaveChannels
  BY DEF IInv, SocketsHaveChannels, Voice, Video
<1> QED
  BY <1>1, Invariance, PTL

\* The decoder's callback and the renderer never outlive what they use.
THEOREM CallbacksSafe == Spec => []CallbacksHaveTargets
<1>1. IInv => CallbacksHaveTargets
  BY DEF IInv, CallbacksHaveTargets, Voice, Video
<1> QED
  BY <1>1, Invariance, PTL

-----------------------------------------------------------------------------
(* CallSession implements CallContract                                     *)

\* What there is of the two engines, reachable or not.
Engines == ({"voice"} \X voe) \cup ({"video"} \X vie) \cup leaked

\* What is held follows its parts.
LEMMA HeldGrows ==
  ASSUME voe \subseteq voe', vie \subseteq vie', leaked' = leaked,
         Allocated \subseteq Allocated', view => view'
  PROVE  held \subseteq held'
BY DEF held

\* What is held goes with its parts.
LEMMA HeldShrinks ==
  ASSUME Engines' \subseteq Engines, Allocated' \subseteq Allocated, view' => view
  PROVE  held' \subseteq held
BY DEF held, Engines

\* What is held is a resource.
LEMMA HeldIsResource == TypeOK => held \subseteq Resource
BY DEF held, Resource, Cameras, TypeOK, Allocated

\* A start that does not end the process takes and never gives back.
LEMMA StartGrows ==
  ASSUME IInv, StartStep, pc' # "aborted"
  PROVE  /\ phase = "SettingUp"
         /\ phase' \in {"SettingUp", "InCall"}
         /\ voe \subseteq voe' /\ vie \subseteq vie' /\ leaked' = leaked
         /\ Allocated \subseteq Allocated' /\ (view => view')
<1> USE DEF At, phase, StartSteps, SwitchSteps,
      StopSteps, StopVoiceSteps, StopVideoSteps, Allocated, capture
<1>1. CASE VoE_Create
  BY <1>1 DEF VoE_Create, IInv, Voice
<1>2. CASE VoE_Init
  BY <1>2 DEF VoE_Init
<1>3. CASE getVideoEngine
  BY <1>3 DEF getVideoEngine
<1>4. CASE InitVideo
  BY <1>4 DEF InitVideo
<1>5. CASE startCall
  BY <1>5 DEF startCall
<1>6. CASE VoE_CreateChannel
  BY <1>6 DEF VoE_CreateChannel, Abort
<1>7. CASE VoE_SetLocalReceiver
  BY <1>7 DEF VoE_SetLocalReceiver, MayGain
<1>8. CASE VoE_StartListen
  BY <1>8 DEF VoE_StartListen
<1>9. CASE VoE_StartPlayout
  BY <1>9 DEF VoE_StartPlayout, MayGain
<1>10. CASE VoE_StartSend
  BY <1>10 DEF VoE_StartSend, MayGain
<1>11. CASE CreateChannel
  BY <1>11 DEF CreateChannel
<1>12. CASE SetLocalReceiver
  BY <1>12 DEF SetLocalReceiver, MayGain
<1>13. CASE StartCamera
  <2>1. Allocated = {}
    <3> HIDE DEF Allocated
    <3> QED
      BY <1>13 DEF StartCamera, IInv, Camera, BeforeCamera
  <2> QED
    BY <1>13, <2>1 DEF StartCamera
<1>14. CASE SetRotation
  BY <1>14 DEF SetRotation, SetRotationTo
<1>15. CASE StartSent
  BY <1>15 DEF StartSent, MayGain
<1>16. CASE AddRemoteRenderer
  BY <1>16 DEF AddRemoteRenderer, MayGain
<1>17. CASE StartRender
  BY <1>17 DEF StartRender, MayGain
<1>18. CASE StartReceive
  BY <1>18 DEF StartReceive, MayGain
<1>19. CASE Vie_SetCallback
  BY <1>19 DEF Vie_SetCallback, Observed
<1> QED
  BY <1>1, <1>2, <1>3, <1>4, <1>5, <1>6, <1>7, <1>8, <1>9, <1>10, <1>11,
     <1>12, <1>13, <1>14, <1>15, <1>16, <1>17, <1>18, <1>19 DEF StartStep

\* A stop gives back and takes nothing, although VoE_StopListen starts receiving
\* (the channel receives already), and what goes out of reach was there before.
LEMMA StopShrinks ==
  ASSUME IInv, StopStep
  PROVE  /\ phase = "TearingDown"
         /\ phase' \in {"TearingDown", "Idle"}
         /\ Engines' \subseteq Engines
         /\ Allocated' \subseteq Allocated /\ (view' => view)
<1> USE DEF At, phase, StartSteps, SwitchSteps,
      StopSteps, StopVoiceSteps, StopVideoSteps, Allocated, capture
<1> DEFINE Shrinks == voe' \subseteq voe /\ vie' \subseteq vie /\ leaked' = leaked
<1>0. Shrinks => Engines' \subseteq Engines
  BY DEF Engines
<1>1. CASE VoE_StopSend
  BY <1>0, <1>1 DEF VoE_StopSend
<1>2. CASE VoE_StopListen
  BY <1>0, <1>2 DEF VoE_StopListen, IInv, Voice
<1>3. CASE VoE_StopPlayout
  BY <1>0, <1>3 DEF VoE_StopPlayout
<1>4. CASE VoE_DeleteChannel
  BY <1>0, <1>4 DEF VoE_DeleteChannel
<1>5. CASE VoEBase_DeleteChannel
  BY <1>0, <1>5 DEF VoEBase_DeleteChannel
<1>6. CASE VoE_Terminate
  BY <1>0, <1>6 DEF VoE_Terminate, AfterVoice
<1>7. CASE StopRender
  BY <1>0, <1>7 DEF StopRender
<1>8. CASE StopReceive
  BY <1>0, <1>8 DEF StopReceive
<1>9. CASE StopSend
  BY <1>0, <1>9 DEF StopSend
<1>10. CASE RemoveRemoteRenderer
  BY <1>0, <1>10 DEF RemoveRemoteRenderer
<1>11. CASE ViE_DeleteChannel
  BY <1>0, <1>11 DEF ViE_DeleteChannel
<1>12. CASE ViEBase_DeleteChannel
  BY <1>0, <1>12 DEF ViEBase_DeleteChannel
<1>13. CASE Terminate
  BY <1>0, <1>13 DEF Terminate
<1>14. CASE VideoEngineDelete
  <2>1. Engines' \subseteq Engines
    BY <1>14 DEF VideoEngineDelete, Engines
  <2> QED
    BY <1>14, <2>1 DEF VideoEngineDelete, FreeCameras, Zero
<1>15. CASE ReleaseApi
  <2>1. Engines' \subseteq Engines
    BY <1>15 DEF ReleaseApi, LeftBehind, Engines
  <2> QED
    BY <1>15, <2>1 DEF ReleaseApi
<1> QED
  BY <1>1, <1>2, <1>3, <1>4, <1>5, <1>6, <1>7, <1>8, <1>9, <1>10, <1>11,
     <1>12, <1>13, <1>14, <1>15 DEF StopStep

\* Every step of the session is a step of the contract or leaves it alone.
LEMMA StepImplements == IInv /\ IInv' /\ [Next]_vars => [Contract!Next]_<<phase, held>>
<1> SUFFICES ASSUME IInv, IInv', [Next]_vars
             PROVE  Contract!Next \/ UNCHANGED <<phase, held>>
  OBVIOUS
<1> USE DEF Contract!Next
<1>1. CASE StartStep /\ pc' # "aborted"
  <2>1. /\ phase = "SettingUp" /\ phase' \in {"SettingUp", "InCall"}
        /\ held \subseteq held'
    BY <1>1, StartGrows, HeldGrows
  <2>2. held' \subseteq Resource
    <3>1. TypeOK'
      BY DEF IInv
    <3>2. (TypeOK => held \subseteq Resource)'
      BY HeldIsResource, PTL
    <3> QED
      BY <3>1, <3>2 DEF Resource, Cameras, Facing, VoiceParts, VideoParts
  <2> QED
    BY <2>1, <2>2 DEF Contract!Acquire
<1>2. CASE StartStep /\ pc' = "aborted"
  <2>1. VoE_CreateChannel /\ Abort
    BY <1>2 DEF StartStep, VoE_Create, VoE_Init, getVideoEngine, InitVideo, startCall,
         VoE_CreateChannel, VoE_SetLocalReceiver, VoE_StartListen, VoE_StartPlayout,
         VoE_StartSend, CreateChannel, SetLocalReceiver, StartCamera, SetRotation,
         StartSent, AddRemoteRenderer, StartRender, StartReceive, Vie_SetCallback, At
  <2>2. phase = "SettingUp" /\ phase' = "Dead"
    <3>1. pc = "VoE_CreateChannel" /\ pc' = "aborted"
      BY <2>1 DEF VoE_CreateChannel, Abort, At
    <3> QED
      BY <3>1 DEF phase, StartSteps, StopSteps, StopVoiceSteps, StopVideoSteps
  <2>3. held' = {}
    BY <2>1 DEF Abort, FreeCameras, Zero, held, Allocated
  <2> QED
    BY <2>2, <2>3 DEF Contract!Die
<1>3. CASE SwitchStep
  <2>1. phase = "InCall" /\ phase' = "InCall" /\ UNCHANGED <<voe, vie, leaked, view>>
    BY <1>3 DEF SwitchStep, StopCamera, SwitchStartCamera, SwitchSetRotation, At, phase,
         StartSteps, SwitchSteps, StopSteps, StopVoiceSteps, StopVideoSteps, IInv,
         Control
  <2>2. held' \ Cameras = held \ Cameras
    BY <2>1 DEF held, Cameras, Allocated, Facing
  <2>3. held' \subseteq Resource
    BY <2>1 DEF IInv, TypeOK, held, Resource, Cameras, Allocated
  <2> QED
    BY <2>1, <2>2, <2>3 DEF Contract!Swap
<1>4. CASE StopStep
  <2>1. /\ phase = "TearingDown" /\ phase' \in {"TearingDown", "Idle"}
        /\ held' \subseteq held
    BY <1>4, StopShrinks, HeldShrinks
  <2>2. phase' = "Idle" => held' \subseteq Leaked
    <3>1. phase' = "Idle" => NoCall'
      BY DEF phase, NoCall
    <3>2. (IInv /\ NoCall => held \subseteq Leaked)'
      BY NoCallHolds, PTL
    <3> QED
      BY <3>1, <3>2 DEF Leaked
  <2> QED
    BY <2>1, <2>2 DEF Contract!Release
<1>5. CASE Click
  <2>1. held' = held
    BY <1>5 DEF Click, ClickStart, ClickSwitch, ClickStop, held, Allocated, capture
  <2>2. CASE ClickStart
    BY <2>1, <2>2 DEF ClickStart, At, phase, StartSteps, StopSteps, StopVoiceSteps,
         StopVideoSteps, Contract!Begin
  <2>3. CASE ClickSwitch
    <3>1. pc = "ui" /\ pc' = "switch.StopCamera" /\ title' = title /\ title = "StopCall"
      BY <2>3 DEF ClickSwitch, At, IInv, Control, NoCall, TypeOK
    <3> QED
      BY <2>1, <3>1 DEF phase, StartSteps, StopSteps, StopVoiceSteps, StopVideoSteps
  <2>4. CASE ClickStop
    BY <2>1, <2>4 DEF ClickStop, AfterVoice, At, phase, StartSteps, StopSteps,
         StopVoiceSteps, StopVideoSteps, Contract!HangUp
  <2> QED
    BY <1>5, <2>2, <2>3, <2>4 DEF Click
<1>6. CASE Relaunch
  BY <1>6 DEF Relaunch, At, phase, held, Allocated, capture, Contract!Relaunch,
       StartSteps, StopSteps, StopVoiceSteps, StopVideoSteps, IInv, Control, TypeOK
<1>7. CASE UNCHANGED vars
  BY <1>7 DEF vars, phase, held, Allocated, capture
<1> QED
  BY <1>1, <1>2, <1>3, <1>4, <1>5, <1>6, <1>7 DEF Next, HandlerStep

\* The sequences of wrapper calls implement the contract of a call.
THEOREM Refinement == Spec => ImplementsContract
<1>1. Init => Contract!Init
  BY DEF Init, Contract!Init, phase, held, StartSteps, StopSteps, StopVoiceSteps,
     StopVideoSteps, Allocated, Zero
<1> QED
  BY <1>1, StepImplements, Invariance, PTL
     DEF Spec, ImplementsContract, Contract!Spec, Contract!contractVars

-----------------------------------------------------------------------------
(* Hanging up                                                              *)

\* The wrapper calls that a hang-up has still to make.
CallsLeft ==
    CASE pc = "VoE_StopSend" -> 15
      [] pc = "VoE_StopListen" -> 14
      [] pc = "VoE_StopPlayout" -> 13
      [] pc = "VoE_DeleteChannel" -> 12
      [] pc = "VoEBase::DeleteChannel" -> 11
      [] pc = "VoE_Terminate" -> 10
      [] pc = "StopRender" -> 9
      [] pc = "StopReceive" -> 8
      [] pc = "StopSend" -> 7
      [] pc = "RemoveRemoteRenderer" -> 6
      [] pc = "ViE_DeleteChannel" -> 5
      [] pc = "ViEBase::DeleteChannel" -> 4
      [] pc = "Terminate" -> 3
      [] pc = "VideoEngine::Delete" -> 2
      [] pc = "release" -> 1
      [] OTHER -> 0

\* Nothing interrupts a hang-up or leads it back: every step is the next of its
\* calls, none is left out once the engines run, and after the last the button
\* offers a call and only what is leaked is still held.
HangUpDescends ==
    pc \in StopSteps =>
        \/ pc' \in StopSteps /\ CallsLeft' = CallsLeft - 1
        \/ /\ CallsLeft = 1 /\ CallsLeft' = 0
           /\ pc' = "ui" /\ title' = "StartCall" /\ held' \subseteq Leaked

\* A hang-up that has begun goes through all of its calls, so with a main
\* thread that runs on it ends.
THEOREM HangUpComesToItsEnd == Spec => [][HangUpDescends]_vars
<1>1. ASSUME IInv, IInv', Next PROVE HangUpDescends
  <2> SUFFICES ASSUME pc \in StopSteps
               PROVE  \/ pc' \in StopSteps /\ CallsLeft' = CallsLeft - 1
                      \/ /\ CallsLeft = 1 /\ CallsLeft' = 0
                         /\ pc' = "ui" /\ title' = "StartCall" /\ held' \subseteq Leaked
    BY DEF HangUpDescends
  <2>1. StopStep
    BY <1>1 DEF Next, HandlerStep, StartStep, SwitchStep, Click, ClickStart, ClickSwitch,
         ClickStop, Relaunch, At, StopSteps, StopVoiceSteps, StopVideoSteps,
         VoE_Create, VoE_Init, getVideoEngine, InitVideo, startCall, VoE_CreateChannel,
         VoE_SetLocalReceiver, VoE_StartListen, VoE_StartPlayout, VoE_StartSend,
         CreateChannel, SetLocalReceiver, StartCamera, SetRotation, StartSent,
         AddRemoteRenderer, StartRender, StartReceive, Vie_SetCallback, StopCamera,
         SwitchStartCamera, SwitchSetRotation
  <2>2. CASE \/ VoE_StopSend \/ VoE_StopListen \/ VoE_StopPlayout
             \/ VoE_DeleteChannel \/ VoEBase_DeleteChannel
    BY <2>2 DEF VoE_StopSend, VoE_StopListen, VoE_StopPlayout, VoE_DeleteChannel,
         VoEBase_DeleteChannel, At, CallsLeft, StopSteps, StopVoiceSteps
  <2>3. CASE VoE_Terminate
    BY <1>1, <2>3 DEF VoE_Terminate, At, AfterVoice, IInv, Control, CallsLeft, StopSteps,
         StopVoiceSteps, StopVideoSteps
  <2>4. CASE StopRender \/ StopReceive \/ StopSend \/ RemoveRemoteRenderer
    BY <2>4 DEF StopRender, StopReceive, StopSend, RemoveRemoteRenderer, At, CallsLeft,
         StopSteps, StopVideoSteps
  <2>5. CASE \/ ViE_DeleteChannel \/ ViEBase_DeleteChannel \/ Terminate
             \/ VideoEngineDelete
    BY <2>5 DEF ViE_DeleteChannel, ViEBase_DeleteChannel, Terminate, VideoEngineDelete,
         At, CallsLeft, StopSteps, StopVideoSteps
  <2>6. CASE ReleaseApi
    <3>1. /\ pc = "release" /\ pc' = "ui" /\ title' = "StartCall"
      BY <2>6 DEF ReleaseApi, At
    <3>2. NoCall'
      BY <3>1 DEF NoCall
    <3>3. (IInv /\ NoCall => held \subseteq Leaked)'
      BY NoCallHolds, PTL
    <3>4. held' \subseteq Leaked
      BY <1>1, <3>2, <3>3 DEF Leaked
    <3> QED
      BY <3>1, <3>4 DEF CallsLeft
  <2> QED
    BY <2>1, <2>2, <2>3, <2>4, <2>5, <2>6 DEF StopStep
<1>2. IInv /\ IInv' /\ [Next]_vars => [HangUpDescends]_vars
  BY <1>1
<1> QED
  BY <1>2, Invariance, PTL DEF Spec

=============================================================================
