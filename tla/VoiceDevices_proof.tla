-------------------------- MODULE VoiceDevices_proof --------------------------
(***************************************************************************)
(* Proofs about VoiceDevices, for every set of channels.                   *)
(***************************************************************************)
EXTENDS VoiceDevices, TLAPS

(***************************************************************************)
(* The audio unit                                                          *)
(***************************************************************************)

\* What every operation of the device keeps: the unit runs while a direction is
\* on, a direction is on only when ready, and there is no unit for nobody.
Sound(d) ==
    /\ d \in Device
    /\ d.unit = "running" <=> d.on # {}
    /\ d.on \subseteq d.ready
    /\ d.unit # "none" => d.ready # {}
    /\ d.ready # {} => d.initialized

\* A device that is made has no unit.
LEMMA NewSound == Sound(NewDevice)
BY DEF Sound, NewDevice, Device

\* Initialising a direction makes the unit at most.
LEMMA InitStreamSound ==
  ASSUME NEW d, Sound(d), NEW x \in Direction, NEW r \in InitStream(d, x)
  PROVE  Sound(r.dev) /\ r.dev.initialized = d.initialized /\ r.dev.on = d.on
<1> DEFINE prepared == [d EXCEPT !.ready = @ \cup {x}]
<1>1. CASE ~d.initialized \/ x \in d.on \/ x \in d.ready
  BY <1>1 DEF InitStream, Done, Refused
<1>2. CASE d.initialized /\ x \notin d.on /\ x \notin d.ready
  <2>1. prepared \in Device /\ prepared.ready = d.ready \cup {x} /\ prepared.on = d.on
        /\ prepared.unit = d.unit /\ prepared.initialized
    BY <1>2 DEF Sound, Device
  <2>2. CASE d.ready = {}
    <3>1. \E e \in InitPlayOrRecord(prepared) : r = Done(e)
      BY <1>2, <2>2 DEF InitStream
    <3>2. \/ r.dev = prepared
          \/ r.dev = [prepared EXCEPT !.unit = "stopped"] /\ prepared.unit = "none"
      BY <3>1 DEF InitPlayOrRecord, Done
    <3> QED
      BY <1>2, <2>1, <2>2, <3>2 DEF Sound, Device
  <2>3. CASE d.ready # {}
    <3>1. r.dev = prepared
      BY <1>2, <2>3 DEF InitStream, Done
    <3> QED
      BY <1>2, <2>1, <2>3, <3>1 DEF Sound, Device
  <2> QED
    BY <2>2, <2>3
<1> QED
  BY <1>1, <1>2

\* Starting a direction turns on that one and no other.
LEMMA StartStreamSound ==
  ASSUME NEW d, Sound(d), NEW x \in Direction, NEW r \in StartStream(d, x)
  PROVE  /\ Sound(r.dev) /\ r.dev.initialized = d.initialized
         /\ r.dev.on = IF r.ok THEN d.on \cup {x} ELSE d.on
<1> DEFINE started == [d EXCEPT !.on = @ \cup {x}]
<1>1. CASE r = Refused(d)
  BY <1>1 DEF Refused
<1>2. CASE r # Refused(d)
  <2>1. /\ d.initialized /\ x \in d.ready /\ r.ok
        /\ \/ d.on # {} /\ r.dev = started
           \/ d.unit # "none" /\ r.dev = [started EXCEPT !.unit = "running"]
    BY <1>2 DEF StartStream, Done
  <2>2. /\ started \in Device /\ started.on = d.on \cup {x}
        /\ started.unit = d.unit /\ started.ready = d.ready /\ started.initialized
    BY <2>1 DEF Sound, Device
  <2> HIDE DEF started
  <2>3. CASE d.on # {} /\ r.dev = started
    BY <2>1, <2>2, <2>3 DEF Sound
  <2>4. CASE d.unit # "none" /\ r.dev = [started EXCEPT !.unit = "running"]
    BY <2>1, <2>2, <2>4 DEF Sound, Device
  <2> QED
    BY <2>1, <2>3, <2>4
<1> QED
  BY <1>1, <1>2

\* Stopping a direction turns off that one and no other, and afterwards the
\* direction is not ready.
LEMMA StopStreamSound ==
  ASSUME NEW d, Sound(d), NEW x \in Direction
  PROVE  /\ Sound(StopStream(d, x).dev)
         /\ StopStream(d, x).dev.initialized = d.initialized
         /\ StopStream(d, x).ok = d.initialized
         /\ StopStream(d, x).dev.on = d.on \ {x}
         /\ StopStream(d, x).dev.ready = IF d.initialized THEN d.ready \ {x} ELSE d.ready
<1>1. CASE ~d.initialized
  BY <1>1 DEF Sound, Device, StopStream, Refused
<1>2. CASE d.initialized /\ x \notin d.ready
  BY <1>2 DEF Sound, Device, StopStream, Done
<1>3. CASE d.initialized /\ x \in d.ready
  BY <1>3 DEF Sound, Device, StopStream, Done, ShutdownPlayOrRecord
<1> QED
  BY <1>1, <1>2, <1>3 DEF Sound, Device

\* The operations VoEBaseImpl uses, in terms of the two directions.
LEMMA Stops ==
  ASSUME NEW d, Sound(d)
  PROVE  /\ Sound(StopPlayout(d).dev) /\ Sound(StopRecording(d).dev)
         /\ StopPlayout(d).ok = d.initialized /\ StopRecording(d).ok = d.initialized
         /\ StopPlayout(d).dev.initialized = d.initialized
         /\ StopRecording(d).dev.initialized = d.initialized
         /\ StopPlayout(d).dev.on = d.on \ {"playout"}
         /\ StopRecording(d).dev.on = d.on \ {"recording"}
         /\ d.initialized => /\ StopPlayout(d).dev.ready = d.ready \ {"playout"}
                             /\ StopRecording(d).dev.ready = d.ready \ {"recording"}
<1>1. "playout" \in Direction /\ "recording" \in Direction
  BY DEF Direction
<1> QED
  BY <1>1, StopStreamSound DEF StopPlayout, StopRecording

\* StartSend of the engine turns the microphone on, or nothing.
LEMMA StartSendSound ==
  ASSUME NEW d, Sound(d), NEW r \in StartSendDevice(d)
  PROVE  /\ Sound(r.dev) /\ r.dev.initialized = d.initialized
         /\ r.dev.on = IF r.ok THEN d.on \cup {"recording"} ELSE d.on
<1>1. CASE "recording" \in d.on
  BY <1>1 DEF StartSendDevice, Done, Sound, Device
<1>2. CASE "recording" \notin d.on
  <2>1. PICK i \in InitStream(d, "recording") :
           r \in IF i.ok THEN StartStream(i.dev, "recording") ELSE {i}
    BY <1>2 DEF StartSendDevice, InitRecording, StartRecording
  <2>2. Sound(i.dev) /\ i.dev.initialized = d.initialized /\ i.dev.on = d.on
    BY InitStreamSound DEF Direction
  <2>3. CASE i.ok
    BY <2>1, <2>2, <2>3, StartStreamSound DEF Direction
  <2>4. CASE ~i.ok
    BY <2>1, <2>2, <2>4
  <2> QED
    BY <2>3, <2>4
<1> QED
  BY <1>1, <1>2

\* The same for the loudspeaker.
LEMMA StartPlayoutSound ==
  ASSUME NEW d, Sound(d), NEW r \in StartPlayoutDevice(d)
  PROVE  /\ Sound(r.dev) /\ r.dev.initialized = d.initialized
         /\ r.dev.on = IF r.ok THEN d.on \cup {"playout"} ELSE d.on
<1>1. CASE "playout" \in d.on
  BY <1>1 DEF StartPlayoutDevice, Done, Sound, Device
<1>2. CASE "playout" \notin d.on
  <2>1. PICK i \in InitStream(d, "playout") :
           r \in IF i.ok THEN StartStream(i.dev, "playout") ELSE {i}
    BY <1>2 DEF StartPlayoutDevice, InitPlayout, StartPlayout
  <2>2. Sound(i.dev) /\ i.dev.initialized = d.initialized /\ i.dev.on = d.on
    BY InitStreamSound DEF Direction
  <2>3. CASE i.ok
    BY <2>1, <2>2, <2>3, StartStreamSound DEF Direction
  <2>4. CASE ~i.ok
    BY <2>1, <2>2, <2>4
  <2> QED
    BY <2>3, <2>4
<1> QED
  BY <1>1, <1>2

\* A reset leaves a sound device, and none where there was none.
LEMMA ResetSound ==
  ASSUME NEW d, Sound(d), NEW e \in ResetAudioDevice(d)
  PROVE  /\ Sound(e) /\ e.initialized = d.initialized
         /\ d.ready = {} => e = d
<1>1. CASE ~d.initialized \/ d.ready = {}
  BY <1>1 DEF ResetAudioDevice
<1>2. CASE d.initialized /\ d.ready # {}
  <2> DEFINE d0 == StopRecording(StopPlayout(d).dev).dev
  <2>1. Sound(d0) /\ d0.initialized = d.initialized
    BY Stops
  <2>2. \E d1 \in InitAgain(d0, "playout", d) :
        \E d2 \in InitAgain(d1, "recording", d) :
        \E d3 \in StartAgain(d2, "playout", d) : e \in StartAgain(d3, "recording", d)
    BY <1>2 DEF ResetAudioDevice
  <2>3. ASSUME NEW f, Sound(f), NEW x \in Direction, NEW g \in InitAgain(f, x, d)
        PROVE  Sound(g) /\ g.initialized = f.initialized
    BY <2>3, InitStreamSound DEF InitAgain
  <2>4. ASSUME NEW f, Sound(f), NEW x \in Direction, NEW g \in StartAgain(f, x, d)
        PROVE  Sound(g) /\ g.initialized = f.initialized
    BY <2>4, StartStreamSound DEF StartAgain
  <2> HIDE DEF d0
  <2>5. "playout" \in Direction /\ "recording" \in Direction
    BY DEF Direction
  <2>6. Sound(e) /\ e.initialized = d.initialized
    BY <2>1, <2>2, <2>3, <2>4, <2>5
  <2> QED
    BY <1>2, <2>6
<1> QED
  BY <1>1, <1>2

\* Terminating a device that was stopped is still sound.
LEMMA TerminateSound ==
  ASSUME NEW d, Sound(d), d.ready = {}
  PROVE  Sound(TerminateDevice(d)) /\ TerminateDevice(d).ready = {}
BY DEF Sound, Device, TerminateDevice, ShutdownPlayOrRecord

(***************************************************************************)
(* The invariant                                                           *)
(***************************************************************************)

\* Without its thread the engine has no device, which is why Init never replaces
\* one that is still registered; and channels exist only in between.
Idle ==
    /\ ~process => modules = {}
    /\ ~initialized => channels = {}

\* Without channels no direction is ready, and so there is no unit.
NoneReady == channels = {} => dev.ready = {}

IInv == TypeOK /\ Sound(dev) /\ EngineWorks /\ Idle /\ NoneReady

\* It holds at first.
LEMMA InitInv == Init => IInv
<1> SUFFICES ASSUME Init PROVE IInv
  OBVIOUS
<1>1. Sound(dev) /\ dev.ready = {} /\ dev \in Device
  BY NewSound DEF Init, NewDevice, Sound
<1>2. 0 \in 0 .. MaxModule
  BY DevicesAssumption
<1>3. TypeOK
  BY <1>1, <1>2 DEF Init, TypeOK
<1> QED
  BY <1>1, <1>3 DEF Init, IInv, EngineWorks, Idle, NoneReady

\* Init and Terminate keep it.
LEMMA EngineStep ==
  ASSUME IInv, VoE_Init \/ TerminateInternal
  PROVE  IInv'
<1> USE DEF IInv
<1>1. CASE VoE_Init
  <2>1. ~process /\ process' /\ process' \in BOOLEAN /\ modules = {} /\ channels' = {}
    BY <1>1 DEF VoE_Init, StartProcessThread, Idle
  <2>2. CASE UNCHANGED <<initialized, modules, adm, made, dev>>
    BY <1>1, <2>1, <2>2 DEF VoE_Init, TypeOK, EngineWorks, Idle, NoneReady
  <2>3. CASE /\ made < MaxModule
             /\ made' = made + 1
             /\ adm' = made'
             /\ modules' = modules \cup {made'}
             /\ \E r \in InitDevice(NewDevice) :
                   dev' = r.dev /\ initialized' \in {FALSE, r.ok}
    <3>1. PICK r \in InitDevice(NewDevice) : dev' = r.dev /\ initialized' \in {FALSE, r.ok}
      BY <2>3
    <3>2. /\ Sound(r.dev) /\ r.dev.ready = {}
          /\ r.ok = r.dev.initialized /\ r.ok \in BOOLEAN
      <4>1. \/ r = Refused(NewDevice)
            \/ r = Done([NewDevice EXCEPT !.initialized = TRUE])
        BY DEF InitDevice, NewDevice
      <4>2. CASE r = Refused(NewDevice)
        BY <4>2, NewSound DEF NewDevice, Refused
      <4>3. CASE r = Done([NewDevice EXCEPT !.initialized = TRUE])
        BY <4>3 DEF NewDevice, Done, Sound, Device
      <4> QED
        BY <4>1, <4>2, <4>3
    <3>3. made' \in Module /\ made' \in 0 .. MaxModule
      BY <2>3, DevicesAssumption DEF TypeOK, Module
    <3>4. dev' \in Device /\ initialized' \in BOOLEAN
      BY <3>1, <3>2 DEF Sound
    <3>5. TypeOK'
      BY <1>1, <2>1, <2>3, <3>3, <3>4 DEF VoE_Init, TypeOK
    <3> QED
      BY <1>1, <2>1, <2>3, <3>1, <3>2, <3>5 DEF VoE_Init, EngineWorks, Idle, NoneReady
  <2> QED
    BY <1>1, <2>2, <2>3 DEF VoE_Init
<1>2. CASE TerminateInternal
  <2> DEFINE stopped == StopRecording(StopPlayout(dev).dev).dev
  <2>1. Sound(stopped) /\ stopped.ready = {}
    BY Stops DEF Sound, Device, Direction
  <2> HIDE DEF stopped
  <2>2. Sound(TerminateDevice(stopped)) /\ TerminateDevice(stopped).ready = {}
    BY <2>1, TerminateSound
  <2>3. dev' = TerminateDevice(stopped)
    BY <1>2 DEF TerminateInternal, stopped
  <2>4. TypeOK'
    BY <1>2, <2>2, <2>3 DEF TerminateInternal, TypeOK, Sound
  <2> QED
    BY <1>2, <2>2, <2>3, <2>4 DEF TerminateInternal, EngineWorks, Idle, NoneReady
<1> QED
  BY <1>1, <1>2

\* A call that changes the device within the engine keeps the invariant when
\* the device stays sound and has no unit without channels.
LEMMA DeviceStep ==
  ASSUME IInv, initialized, UNCHANGED engine, Sound(dev'), dev'.initialized = dev.initialized,
         channels' \subseteq Channel, sending' \subseteq channels', playing' \subseteq channels',
         NoneReady'
  PROVE  IInv'
BY DEF IInv, engine, TypeOK, EngineWorks, Idle, Sound

\* Deleting the last channel stops both directions, and with them the unit.
LEMMA DeleteStep ==
  ASSUME IInv, NEW c \in Channel, DeleteChannel(c)
  PROVE  IInv'
<1> DEFINE r == StopSendDevice(dev, sending')
<1>1. /\ Sound(dev) /\ dev.initialized /\ initialized
      /\ channels' = channels \ {c} /\ sending' = sending \ {c} /\ playing' = playing \ {c}
      /\ dev' = IF r.ok THEN StopPlayoutDevice(r.dev, playing').dev ELSE r.dev
      /\ UNCHANGED engine
  BY DEF DeleteChannel, IInv, EngineWorks
<1>2. /\ Sound(r.dev) /\ r.dev.initialized /\ r.ok
      /\ sending' = {} => r.dev.ready = dev.ready \ {"recording"}
  BY <1>1, Stops DEF StopSendDevice, Done
<1> HIDE DEF r
<1>3. /\ Sound(dev') /\ dev'.initialized
      /\ playing' = {} => dev'.ready = r.dev.ready \ {"playout"}
  BY <1>1, <1>2, Stops DEF StopPlayoutDevice, Done
<1>4. sending \subseteq channels /\ playing \subseteq channels /\ channels \subseteq Channel
  BY DEF IInv, TypeOK
<1>5. NoneReady'
  <2>1. ASSUME channels' = {} PROVE dev'.ready = {}
    BY <1>1, <1>2, <1>3, <1>4, <2>1 DEF Sound, Device, Direction
  <2> QED
    BY <2>1 DEF NoneReady
<1> QED
  BY <1>1, <1>3, <1>4, <1>5, DeviceStep

\* Every call keeps the invariant.
LEMMA NextInv == IInv /\ [Next]_vars => IInv'
<1> SUFFICES ASSUME IInv, [Next]_vars PROVE IInv'
  OBVIOUS
<1>1. CASE UNCHANGED vars
  BY <1>1 DEF IInv, vars, TypeOK, EngineWorks, Idle, NoneReady
<1>2. CASE VoE_Init \/ TerminateInternal
  BY <1>2, EngineStep
<1>3. /\ channels \subseteq Channel /\ sending \subseteq channels /\ playing \subseteq channels
      /\ Sound(dev) /\ NoneReady
  BY DEF IInv, TypeOK
<1>4. CASE Reset
  <2>1. Sound(dev') /\ dev'.initialized = dev.initialized
    BY <1>3, <1>4, ResetSound DEF Reset
  <2>2. dev.ready = {} => dev' = dev
    BY <1>3, <1>4, ResetSound DEF Reset
  <2> QED
    BY <1>3, <1>4, <2>1, <2>2, DeviceStep DEF Reset, NoneReady
<1>5. ASSUME NEW c \in Channel PROVE
         /\ CreateChannel(c) \/ StartSend(c) \/ StopSend(c) \/ StartPlaying(c) \/ StopPlaying(c)
         => IInv'
  <2>1. CASE CreateChannel(c)
    BY <1>3, <2>1, DeviceStep DEF CreateChannel, NoneReady
  <2>2. CASE StartSend(c)
    <3>1. PICK r \in StartSendDevice(dev) :
             dev' = r.dev /\ sending' \in IF r.ok THEN {sending, sending \cup {c}} ELSE {sending}
      BY <2>2 DEF StartSend
    <3>2. Sound(r.dev) /\ r.dev.initialized = dev.initialized
      BY <1>3, StartSendSound
    <3> QED
      BY <1>3, <2>2, <3>1, <3>2, DeviceStep DEF StartSend, NoneReady
  <2>3. CASE StopSend(c)
    BY <1>3, <2>3, Stops, DeviceStep DEF StopSend, StopSendDevice, Done, NoneReady
  <2>4. CASE StartPlaying(c)
    <3>1. PICK r \in StartPlayoutDevice(dev) :
             dev' = r.dev /\ playing' \in IF r.ok THEN {playing, playing \cup {c}} ELSE {playing}
      BY <2>4 DEF StartPlaying
    <3>2. Sound(r.dev) /\ r.dev.initialized = dev.initialized
      BY <1>3, StartPlayoutSound
    <3> QED
      BY <1>3, <2>4, <3>1, <3>2, DeviceStep DEF StartPlaying, NoneReady
  <2>5. CASE StopPlaying(c)
    BY <1>3, <2>5, Stops, DeviceStep DEF StopPlaying, StopPlayoutDevice, Done, NoneReady
  <2> QED
    BY <2>1, <2>2, <2>3, <2>4, <2>5
<1> QED
  BY <1>1, <1>2, <1>4, <1>5, DeleteStep DEF Next
(***************************************************************************)
(* The theorems                                                            *)
(***************************************************************************)

\* The invariant holds for every set of channels.
THEOREM Invariance == Spec => []IInv
<1> QED
  BY InitInv, NextInv, PTL DEF Spec

\* The values stay in their types: only channels of the list send and play.
THEOREM TypeCorrect == Spec => []TypeOK
<1>1. IInv => TypeOK
  BY DEF IInv
<1> QED
  BY <1>1, Invariance, PTL

\* The audio unit runs exactly while the microphone or the loudspeaker is on.
THEOREM UnitSafe == Spec => []UnitRuns
<1>1. IInv => UnitRuns
  BY DEF IInv, Sound, UnitRuns
<1> QED
  BY <1>1, Invariance, PTL

\* An initialised engine has a working device, and its thread no other.
THEOREM EngineSafe == Spec => []EngineWorks
<1>1. IInv => EngineWorks
  BY DEF IInv
<1> QED
  BY <1>1, Invariance, PTL

\* Without channels there is no audio unit.
THEOREM UnitGone == Spec => []NoChannelNoUnit
<1>1. IInv => NoChannelNoUnit
  BY DEF IInv, Sound, NoneReady, NoChannelNoUnit
<1> QED
  BY <1>1, Invariance, PTL

\* What a step other than a reset does to senders and microphone, to players and
\* loudspeaker: a direction is turned off exactly when its last user stops.
Keeps(users, x) ==
    /\ users # {} /\ x \in dev.on => (users' = {} <=> x \notin dev'.on)
    /\ (users = {} \/ x \in dev.on) => (users' = {} \/ x \in dev'.on)

\* Every step but a reset turns a direction off with its last user only.
LEMMA Streams ==
  ASSUME IInv, [Next]_vars, ~Reset
  PROVE  Keeps(sending, "recording") /\ Keeps(playing, "playout")
<1> USE DEF Keeps
<1>1. /\ Sound(dev) /\ (initialized => dev.initialized)
      /\ sending \subseteq channels /\ playing \subseteq channels
  BY DEF IInv, EngineWorks, TypeOK
<1>2. CASE UNCHANGED vars
  BY <1>2 DEF vars
<1>3. CASE VoE_Init
  BY <1>1, <1>3 DEF VoE_Init, IInv, Idle
<1>4. CASE TerminateInternal
  <2>1. sending' = {} /\ playing' = {}
    BY <1>4 DEF TerminateInternal
  <2>2. CASE ~dev.initialized
    BY <1>1, <2>1, <2>2 DEF Sound
  <2>3. CASE dev.initialized
    <3> DEFINE stopped == StopRecording(StopPlayout(dev).dev).dev
    <3>1. stopped.on = (dev.on \ {"playout"}) \ {"recording"}
      BY <1>1, Stops
    <3>2. TerminateDevice(stopped).on = stopped.on
      BY <1>1, Stops DEF TerminateDevice, ShutdownPlayOrRecord, Sound, Device
    <3>3. dev' = TerminateDevice(stopped)
      BY <1>4 DEF TerminateInternal
    <3> HIDE DEF stopped
    <3> QED
      BY <2>1, <3>1, <3>2, <3>3
  <2> QED
    BY <2>2, <2>3
<1>5. ASSUME NEW c \in Channel, CreateChannel(c)
      PROVE  Keeps(sending, "recording") /\ Keeps(playing, "playout")
  BY <1>5 DEF CreateChannel
<1>6. ASSUME NEW c \in Channel, DeleteChannel(c)
      PROVE  Keeps(sending, "recording") /\ Keeps(playing, "playout")
  <2> DEFINE r == StopSendDevice(dev, sending')
  <2>1. /\ Sound(r.dev) /\ r.ok
        /\ r.dev.on = IF sending' = {} THEN dev.on \ {"recording"} ELSE dev.on
    BY <1>1, <1>6, Stops DEF StopSendDevice, Done, DeleteChannel
  <2> HIDE DEF r
  <2>2. dev' = StopPlayoutDevice(r.dev, playing').dev
    BY <1>6, <2>1 DEF DeleteChannel, r
  <2>3. dev'.on = IF playing' = {} THEN r.dev.on \ {"playout"} ELSE r.dev.on
    BY <2>1, <2>2, Stops DEF StopPlayoutDevice, Done
  <2>4. sending' \subseteq sending /\ playing' \subseteq playing
    BY <1>6 DEF DeleteChannel
  <2> QED
    BY <2>1, <2>3, <2>4
<1>7. ASSUME NEW c \in Channel, StartSend(c)
      PROVE  Keeps(sending, "recording") /\ Keeps(playing, "playout")
  <2>1. PICK r \in StartSendDevice(dev) :
           dev' = r.dev /\ sending' \in IF r.ok THEN {sending, sending \cup {c}} ELSE {sending}
    BY <1>7 DEF StartSend
  <2>2. dev'.on = IF r.ok THEN dev.on \cup {"recording"} ELSE dev.on
    BY <1>1, <2>1, StartSendSound
  <2> QED
    BY <1>7, <2>1, <2>2 DEF StartSend
<1>8. ASSUME NEW c \in Channel, StartPlaying(c)
      PROVE  Keeps(sending, "recording") /\ Keeps(playing, "playout")
  <2>1. PICK r \in StartPlayoutDevice(dev) :
           dev' = r.dev /\ playing' \in IF r.ok THEN {playing, playing \cup {c}} ELSE {playing}
    BY <1>8 DEF StartPlaying
  <2>2. dev'.on = IF r.ok THEN dev.on \cup {"playout"} ELSE dev.on
    BY <1>1, <2>1, StartPlayoutSound
  <2> QED
    BY <1>8, <2>1, <2>2 DEF StartPlaying
<1>9. ASSUME NEW c \in Channel, StopSend(c)
      PROVE  Keeps(sending, "recording") /\ Keeps(playing, "playout")
  <2>1. dev'.on = IF sending' = {} THEN dev.on \ {"recording"} ELSE dev.on
    BY <1>1, <1>9, Stops DEF StopSend, StopSendDevice, Done
  <2> QED
    BY <1>9, <2>1 DEF StopSend
<1>10. ASSUME NEW c \in Channel, StopPlaying(c)
      PROVE  Keeps(sending, "recording") /\ Keeps(playing, "playout")
  <2>1. dev'.on = IF playing' = {} THEN dev.on \ {"playout"} ELSE dev.on
    BY <1>1, <1>10, Stops DEF StopPlaying, StopPlayoutDevice, Done
  <2> QED
    BY <1>10, <2>1 DEF StopPlaying
<1> QED
  BY <1>2, <1>3, <1>4, <1>5, <1>6, <1>7, <1>8, <1>9, <1>10 DEF Next

\* The microphone is turned off by the last sender that stops and by no other,
\* the loudspeaker by the last player.
THEOREM LastTurnsOff == Spec => LastOneOut
<1> DEFINE A == /\ sending # {} /\ "recording" \in dev.on
                     => (sending' = {} <=> "recording" \notin dev'.on) \/ Reset
                /\ playing # {} /\ "playout" \in dev.on
                     => (playing' = {} <=> "playout" \notin dev'.on) \/ Reset
<1>1. IInv /\ [Next]_vars => [A]_vars
  BY Streams DEF Keeps
<1> QED
  BY <1>1, Invariance, PTL DEF Spec, LastOneOut

\* Senders keep the microphone and players the loudspeaker, unless the device is
\* reset.
THEOREM NeverSilenced == Spec => OnlyResetSilences
<1> DEFINE A == /\ (sending = {} \/ "recording" \in dev.on)
                     => (sending' = {} \/ "recording" \in dev'.on) \/ Reset
                /\ (playing = {} \/ "playout" \in dev.on)
                     => (playing' = {} \/ "playout" \in dev'.on) \/ Reset
<1>1. IInv /\ [Next]_vars => [A]_vars
  BY Streams DEF Keeps
<1> QED
  BY <1>1, Invariance, PTL DEF Spec, OnlyResetSilences
=============================================================================
