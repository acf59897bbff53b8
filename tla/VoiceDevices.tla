----------------------------- MODULE VoiceDevices -----------------------------
(***************************************************************************)
(* VoEBaseImpl over several channels: which channels send and play, and    *)
(* what that means for the microphone, the loudspeaker, the audio device   *)
(* module and the process thread that drives it.                           *)
(*                                                                         *)
(* Every method holds the engine's critical section from beginning to end, *)
(* so a call is one step.  A call that is refused before it changes        *)
(* anything is no step.  Audio device modules are numbered, so that one    *)
(* that was released is told from its successor.                           *)
(***************************************************************************)
EXTENDS AudioUnitDevice, Naturals

CONSTANTS
    Channel,     \* ids of channels
    None,        \* no audio device module
    MaxModule    \* bound: audio device modules made

ASSUME DevicesAssumption == None \notin Nat /\ MaxModule \in Nat

VARIABLES
    initialized,  \* statistics().Initialized()
    process,      \* ProcessThreadImpl has a thread
    modules,      \* audio device modules the process thread calls
    adm,          \* SharedData::_audioDevicePtr
    made,         \* audio device modules made so far
    dev,          \* the state of the last one made
    channels,     \* channels in the manager's list
    sending,      \* those with _sending
    playing       \* those with _playing

vars == <<initialized, process, modules, adm, made, dev, channels, sending, playing>>
engine == <<initialized, process, modules, adm, made>>

Module == 1 .. MaxModule

TypeOK ==
    /\ initialized \in BOOLEAN /\ process \in BOOLEAN
    /\ modules \subseteq Module
    /\ adm \in Module \cup {None}
    /\ made \in 0 .. MaxModule
    /\ dev \in Device
    /\ channels \subseteq Channel
    /\ sending \subseteq channels /\ playing \subseteq channels

Init ==
    /\ initialized = FALSE /\ process = FALSE
    /\ modules = {} /\ adm = None /\ made = 0
    /\ dev = NewDevice
    /\ channels = {} /\ sending = {} /\ playing = {}

(***************************************************************************)
(* Init and Terminate                                                      *)
(***************************************************************************)

\* ProcessThreadImpl::Start refuses when the thread exists.
\* Mutant: Start answers that all is well.
Mutant_StartProcessThread == process' = TRUE

StartProcessThread == ~process /\ process' = TRUE

\* The device is made, registered and initialised, and then audio processing
\* is configured; each step can end the call, and what was done stays.
VoE_Init ==
    /\ ~initialized
    /\ StartProcessThread
    /\ \/ UNCHANGED <<initialized, modules, adm, made, dev>>
       \/ /\ made < MaxModule
          /\ made' = made + 1
          /\ adm' = made'
          /\ modules' = modules \cup {made'}
          /\ \E r \in InitDevice(NewDevice) :
                /\ dev' = r.dev
                /\ initialized' \in {FALSE, r.ok}
    /\ UNCHANGED <<channels, sending, playing>>

TerminateInternal ==
    /\ channels' = {} /\ sending' = {} /\ playing' = {}
    /\ modules' = modules \ {adm}
    /\ process' = FALSE
    /\ adm' = None
    /\ dev' = TerminateDevice(StopRecording(StopPlayout(dev).dev).dev)
    /\ initialized' = FALSE
    /\ UNCHANGED made

(***************************************************************************)
(* Channels                                                                *)
(***************************************************************************)

\* A channel whose Init fails is destroyed at once.
CreateChannel(c) ==
    /\ initialized /\ c \notin channels
    /\ channels' = channels \cup {c}
    /\ UNCHANGED <<engine, dev, sending, playing>>

\* Mutant: whoever stops turns the microphone off.
Mutant_StopSendDevice(d, senders) == StopRecording(d)

\* The device is stopped when no channel of the list needs it any more.
StopSendDevice(d, senders) == IF senders = {} THEN StopRecording(d) ELSE Done(d)
StopPlayoutDevice(d, players) == IF players = {} THEN StopPlayout(d) ELSE Done(d)

\* Mutant: stops the microphone only.
Mutant_DeleteChannel(c) ==
    /\ initialized /\ c \in channels
    /\ channels' = channels \ {c}
    /\ sending' = sending \ {c}
    /\ playing' = playing \ {c}
    /\ dev' = StopSendDevice(dev, sending').dev
    /\ UNCHANGED engine

DeleteChannel(c) ==
    /\ initialized /\ c \in channels
    /\ channels' = channels \ {c}
    /\ sending' = sending \ {c}
    /\ playing' = playing \ {c}
    /\ LET r == StopSendDevice(dev, sending')
       IN  dev' = IF r.ok THEN StopPlayoutDevice(r.dev, playing').dev ELSE r.dev
    /\ UNCHANGED engine

\* Initialise and start, unless the device runs already.
StartSendDevice(d) ==
    IF "recording" \in d.on THEN {Done(d)}
    ELSE UNION {IF r.ok THEN StartRecording(r.dev) ELSE {r} : r \in InitRecording(d)}

StartPlayoutDevice(d) ==
    IF "playout" \in d.on THEN {Done(d)}
    ELSE UNION {IF r.ok THEN StartPlayout(r.dev) ELSE {r} : r \in InitPlayout(d)}

\* Mutant: does not ask whether there is such a channel.
Mutant_StartSend(c) ==
    /\ initialized /\ c \notin sending
    /\ \E r \in StartSendDevice(dev) :
          /\ dev' = r.dev
          /\ sending' \in IF r.ok THEN {sending, sending \cup {c}} ELSE {sending}
    /\ UNCHANGED <<engine, channels, playing>>

\* Mutant: starts the channel although the loudspeaker was refused.
Mutant_StartPlaying(c) ==
    /\ initialized /\ c \in channels \ playing
    /\ \E r \in StartPlayoutDevice(dev) :
          /\ dev' = r.dev
          /\ playing' \in {playing, playing \cup {c}}
    /\ UNCHANGED <<engine, channels, sending>>

\* The channel itself may refuse after the device was started.
StartSend(c) ==
    /\ initialized /\ c \in channels \ sending
    /\ \E r \in StartSendDevice(dev) :
          /\ dev' = r.dev
          /\ sending' \in IF r.ok THEN {sending, sending \cup {c}} ELSE {sending}
    /\ UNCHANGED <<engine, channels, playing>>

StartPlaying(c) ==
    /\ initialized /\ c \in channels \ playing
    /\ \E r \in StartPlayoutDevice(dev) :
          /\ dev' = r.dev
          /\ playing' \in IF r.ok THEN {playing, playing \cup {c}} ELSE {playing}
    /\ UNCHANGED <<engine, channels, sending>>

StopSend(c) ==
    /\ initialized /\ c \in channels
    /\ sending' = sending \ {c}
    /\ dev' = StopSendDevice(dev, sending').dev
    /\ UNCHANGED <<engine, channels, playing>>

StopPlaying(c) ==
    /\ initialized /\ c \in channels
    /\ playing' = playing \ {c}
    /\ dev' = StopPlayoutDevice(dev, playing').dev
    /\ UNCHANGED <<engine, channels, sending>>

\* VoEHardwareImpl::ResetAudioDevice.
Reset ==
    /\ initialized
    /\ dev' \in ResetAudioDevice(dev)
    /\ UNCHANGED <<engine, channels, sending, playing>>

Next ==
    \/ VoE_Init
    \/ TerminateInternal
    \/ Reset
    \/ \E c \in Channel :
          \/ CreateChannel(c) \/ DeleteChannel(c)
          \/ StartSend(c) \/ StopSend(c)
          \/ StartPlaying(c) \/ StopPlaying(c)

Spec == Init /\ [][Next]_vars

(***************************************************************************)
(* Properties                                                              *)
(***************************************************************************)

\* The unit runs exactly while a direction is on: stopping the microphone
\* never silences the loudspeaker, and nothing keeps the unit running.
UnitRuns == dev.unit = "running" <=> dev.on # {}

\* An initialised engine has a working device, registered with its process thread,
\* so the device never refuses to stop and DeleteChannel never ends half-way;
\* and whatever failed, the thread calls no device that was released.
EngineWorks ==
    /\ initialized => process /\ dev.initialized /\ adm \in modules
    /\ modules \subseteq {adm}

\* Without channels the audio unit is gone, whichever starts were refused by
\* the system or by a channel before.
NoChannelNoUnit == channels = {} => dev.unit = "none"

\* The last channel that stops sending (or playing), by whatever call, turns
\* the microphone (or the loudspeaker) off, and no channel before does.
LastOneOut ==
    [][/\ sending # {} /\ "recording" \in dev.on
          => (sending' = {} <=> "recording" \notin dev'.on) \/ Reset
       /\ playing # {} /\ "playout" \in dev.on
          => (playing' = {} <=> "playout" \notin dev'.on) \/ Reset]_vars

\* A channel that sends has the microphone, one that plays the loudspeaker;
\* only resetting the device can take them away.
OnlyResetSilences ==
    [][/\ (sending = {} \/ "recording" \in dev.on)
          => (sending' = {} \/ "recording" \in dev'.on) \/ Reset
       /\ (playing = {} \/ "playout" \in dev.on)
          => (playing' = {} \/ "playout" \in dev'.on) \/ Reset]_vars

\* A direction that was initialised when there was a unit keeps it until it is
\* stopped itself: InitPlayout and InitRecording return early, and skip
\* InitPlayOrRecord, on the strength of that.
ReadyKeepsUnit ==
    [][dev.ready # {} /\ dev.unit # "none" =>
          dev'.unit # "none" \/ dev'.ready = {} \/ Reset]_vars
==============================================================================
