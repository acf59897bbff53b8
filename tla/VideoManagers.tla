---------------------------- MODULE VideoManagers ----------------------------
(***************************************************************************)
(* The two managers of a video engine, ViEChannelManager and               *)
(* ViEInputManager, under the API calls of several threads and the capture *)
(* threads that deliver frames to the encoders.                            *)
(*                                                                         *)
(* Each manager has a read-write lock: calls that look objects up read,    *)
(* calls that erase objects write, and the objects are deleted after the   *)
(* lock was released.  Taking a lock and the lookups right behind it are   *)
(* one step; the critical sections inside (channel_id_critsect_, map_cs_)  *)
(* are held for one step and do not show.  Channel and capture ids are     *)
(* used again, objects are not: an encoder that is deleted is never        *)
(* mistaken for a later one.                                               *)
(***************************************************************************)
EXTENDS Integers, FiniteSets

CONSTANTS
    Thread,        \* the threads that call the API
    Channel,       \* the channel ids
    CaptureId,     \* the ids of capture devices
    MaxEncoder,    \* bound: encoders that are ever made
    MaxCapturer,   \* bound: capturers that are ever made
    WritersFirst,  \* TRUE iff a waiting writer keeps new readers out
    None           \* no thread, no object

ASSUME ManagersAssumption ==
    /\ None \notin Thread
    /\ MaxEncoder \in Nat /\ MaxCapturer \in Nat
    /\ None \notin Nat
    /\ WritersFirst \in BOOLEAN

Encoder == 1 .. MaxEncoder
Capturer == 1 .. MaxCapturer
Manager == {"channels", "input"}

VARIABLES
    encoderOf,    \* vie_encoder_map_ (channel_map_ has the same ids)
    owner,        \* channel_id_ of each encoder
    madeEncoders, \* how many encoders were made
    encoders,     \* the encoders that are not deleted
    capturerOf,   \* vie_frame_provider_map_
    madeCapturers,
    capturers,    \* the capturers that are not deleted
    callbacks,    \* frame_callbacks_ of each capturer
    delivering,   \* the capturers whose thread is in DeliverFrame
    readers,      \* who reads each manager
    pc,           \* what each thread does next
    channel,      \* the channel id and the capture id each call is about
    captureId,
    enc,          \* the encoder and the capturer each thread has a pointer to
    cap

encoderVars == <<encoderOf, owner, madeEncoders, encoders>>
captureVars == <<capturerOf, madeCapturers, capturers>>
vars == <<encoderVars, captureVars, callbacks, delivering, readers, pc, channel,
          captureId, enc, cap>>

Places ==
    {"idle", "use", "delete", "delete.input", "delete.write", "delete.free",
     "connect", "connect.channels", "connect.register",
     "disconnect", "disconnect.input", "release", "release.write", "release.free"}

Init ==
    /\ encoderOf = [i \in Channel |-> None]
    /\ owner = [e \in Encoder |-> None]
    /\ madeEncoders = 0 /\ encoders = {}
    /\ capturerOf = [i \in CaptureId |-> None]
    /\ madeCapturers = 0 /\ capturers = {}
    /\ callbacks = [c \in Capturer |-> {}]
    /\ delivering = {}
    /\ readers = [m \in Manager |-> {}]
    /\ pc = [t \in Thread |-> "idle"]
    /\ channel = [t \in Thread |-> None]
    /\ captureId = [t \in Thread |-> None]
    /\ enc = [t \in Thread |-> None]
    /\ cap = [t \in Thread |-> None]

-----------------------------------------------------------------------------
(* Locks and lookups                                                       *)

\* A writer holds its lock for one step only; it waits in one of these places.
Writing(m) == IF m = "channels" THEN "delete.write" ELSE "release.write"

CanRead(m) == WritersFirst => \A t \in Thread : pc[t] # Writing(m)
CanWrite(m) == readers[m] = {}

Acquire(t, m) == readers' = [readers EXCEPT ![m] = @ \cup {t}]
ReleaseAll(t) == readers' = [m \in Manager |-> readers[m] \ {t}]

Go(t, place) == pc' = [pc EXCEPT ![t] = place]
SetEnc(t, e) == enc' = [enc EXCEPT ![t] = e]
SetCap(t, c) == cap' = [cap EXCEPT ![t] = c]

\* A call returns: its locks and pointers are gone.
Return(t) == Go(t, "idle") /\ ReleaseAll(t) /\ SetEnc(t, None) /\ SetCap(t, None)

Allocated == {capturerOf[i] : i \in CaptureId} \ {None}

\* Mutant: the channels that share an encoder are not looked for.
Mutant_Shared(i) == FALSE

\* ChannelUsingViEEncoder: another channel has the same encoder.
Shared(i) == \E j \in Channel \ {i} : encoderOf[j] = encoderOf[i]

\* ViEFrameProvider: the capturers that feed encoder e.
Providers(e) == {c \in Allocated : e \in callbacks[c]}

-----------------------------------------------------------------------------
(* Calls begin                                                             *)

Call(t, place) ==
    /\ pc[t] = "idle"
    /\ Go(t, place)
    /\ \E i \in Channel : channel' = [channel EXCEPT ![t] = i]
    /\ \E i \in CaptureId : captureId' = [captureId EXCEPT ![t] = i]
    /\ UNCHANGED <<encoderVars, captureVars, callbacks, delivering, readers, enc, cap>>

DeleteChannel(t) == Call(t, "delete")
ConnectCaptureDevice(t) == Call(t, "connect")
DisconnectCaptureDevice(t) == Call(t, "disconnect")
ReleaseCaptureDevice(t) == Call(t, "release")

\* CreateChannel, in a group and with an encoder of its own.
CreateChannel(t) ==
    /\ pc[t] = "idle" /\ madeEncoders < MaxEncoder
    /\ madeEncoders' = madeEncoders + 1
    /\ encoders' = encoders \cup {madeEncoders + 1}
    /\ \E i \in Channel :
          /\ encoderOf[i] = None
          /\ encoderOf' = [encoderOf EXCEPT ![i] = madeEncoders + 1]
          /\ owner' = [owner EXCEPT ![madeEncoders + 1] = i]
    /\ UNCHANGED <<captureVars, callbacks, delivering, readers, pc, channel,
                   captureId, enc, cap>>

\* A receive channel uses the encoder of the original channel.
CreateReceiveChannel(t) ==
    /\ pc[t] = "idle"
    /\ \E i, original \in Channel :
          /\ encoderOf[i] = None /\ encoderOf[original] # None
          /\ encoderOf' = [encoderOf EXCEPT ![i] = encoderOf[original]]
    /\ UNCHANGED <<owner, madeEncoders, encoders, captureVars, callbacks,
                   delivering, readers, pc, channel, captureId, enc, cap>>

\* Mutant: the next capturer gets the same number.
Mutant_AllocateCaptureDevice(t) ==
    /\ pc[t] = "idle" /\ madeCapturers < MaxCapturer
    /\ capturers' = capturers \cup {madeCapturers + 1}
    /\ \E i \in CaptureId :
          /\ capturerOf[i] = None
          /\ capturerOf' = [capturerOf EXCEPT ![i] = madeCapturers + 1]
    /\ UNCHANGED <<encoderVars, madeCapturers, callbacks, delivering, readers, pc,
                   channel, captureId, enc, cap>>

\* CreateCaptureDevice starts the capture thread with the capturer.
AllocateCaptureDevice(t) ==
    /\ pc[t] = "idle" /\ madeCapturers < MaxCapturer
    /\ madeCapturers' = madeCapturers + 1
    /\ capturers' = capturers \cup {madeCapturers + 1}
    /\ \E i \in CaptureId :
          /\ capturerOf[i] = None
          /\ capturerOf' = [capturerOf EXCEPT ![i] = madeCapturers + 1]
    /\ UNCHANGED <<encoderVars, callbacks, delivering, readers, pc, channel,
                   captureId, enc, cap>>

\* The many calls that find a channel and use it and its encoder (StartSend).
UseChannel(t) ==
    /\ pc[t] = "idle" /\ CanRead("channels")
    /\ \E i \in Channel : encoderOf[i] # None /\ SetEnc(t, encoderOf[i])
    /\ Acquire(t, "channels")
    /\ Go(t, "use")
    /\ UNCHANGED <<encoderVars, captureVars, callbacks, delivering, channel,
                   captureId, cap>>

EndUse(t) ==
    /\ pc[t] = "use"
    /\ Return(t)
    /\ UNCHANGED <<encoderVars, captureVars, callbacks, delivering, channel, captureId>>

-----------------------------------------------------------------------------
(* ViEBase::DeleteChannel                                                  *)

DeleteLookup(t) ==
    /\ pc[t] = "delete" /\ CanRead("channels")
    /\ LET e == encoderOf[channel[t]] IN
       \/ e = None /\ Return(t)
       \/ /\ e # None /\ Shared(channel[t])
          /\ Go(t, "delete.write")
          /\ UNCHANGED <<readers, enc, cap>>
       \/ /\ e # None /\ ~Shared(channel[t])
          /\ Acquire(t, "channels") /\ SetEnc(t, e)
          /\ Go(t, "delete.input")
          /\ UNCHANGED cap
    /\ UNCHANGED <<encoderVars, captureVars, callbacks, delivering, channel, captureId>>

\* Mutant: the encoder stays in the list of its provider.
Mutant_Deregister(t) == UNCHANGED callbacks

\* DeregisterFrameCallback on a provider of the thread's encoder, if there is
\* one; provider_cs_ keeps it out while a frame is delivered.
Deregister(t) ==
    \/ Providers(enc[t]) = {} /\ UNCHANGED callbacks
    \/ \E c \in Providers(enc[t]) \ delivering :
          callbacks' = [callbacks EXCEPT ![c] = @ \ {enc[t]}]

\* Both read locks are given back before the write lock is taken.
DeleteDeregister(t) ==
    /\ pc[t] = "delete.input" /\ CanRead("input")
    /\ Deregister(t)
    /\ ReleaseAll(t) /\ SetEnc(t, None)
    /\ Go(t, "delete.write")
    /\ UNCHANGED <<encoderVars, captureVars, delivering, channel, captureId, cap>>

\* Mutant: without the write lock.
Mutant_DeleteErase(t) ==
    /\ pc[t] = "delete.write"
    /\ LET i == channel[t] IN
       /\ encoderOf' = [encoderOf EXCEPT ![i] = None]
       /\ IF encoderOf[i] = None \/ Shared(i)
          THEN Go(t, "idle") /\ UNCHANGED enc
          ELSE Go(t, "delete.free") /\ SetEnc(t, encoderOf[i])
    /\ UNCHANGED <<owner, madeEncoders, encoders, captureVars, callbacks, delivering,
                   readers, channel, captureId, cap>>

\* ViEChannelManager::DeleteChannel looks the channel up again.
DeleteErase(t) ==
    /\ pc[t] = "delete.write" /\ CanWrite("channels")
    /\ LET i == channel[t] IN
       /\ encoderOf' = [encoderOf EXCEPT ![i] = None]
       /\ IF encoderOf[i] = None \/ Shared(i)
          THEN Go(t, "idle") /\ UNCHANGED enc
          ELSE Go(t, "delete.free") /\ SetEnc(t, encoderOf[i])
    /\ UNCHANGED <<owner, madeEncoders, encoders, captureVars, callbacks, delivering,
                   readers, channel, captureId, cap>>

DeleteFree(t) ==
    /\ pc[t] = "delete.free"
    /\ encoders' = encoders \ {enc[t]}
    /\ Return(t)
    /\ UNCHANGED <<encoderOf, owner, madeEncoders, captureVars, callbacks, delivering,
                   channel, captureId>>

-----------------------------------------------------------------------------
(* ViECapture: Connect-, Disconnect- and ReleaseCaptureDevice              *)

ConnectLookup(t) ==
    /\ pc[t] = "connect" /\ CanRead("input")
    /\ LET c == capturerOf[captureId[t]] IN
       IF c = None
       THEN Return(t)
       ELSE /\ Acquire(t, "input") /\ SetCap(t, c)
            /\ Go(t, "connect.channels")
            /\ UNCHANGED enc
    /\ UNCHANGED <<encoderVars, captureVars, callbacks, delivering, channel, captureId>>

\* Mutants: a second provider is accepted; a refusal keeps the read lock.
Mutant_ConnectCheck_second(t) ==
    /\ pc[t] = "connect.channels" /\ CanRead("channels")
    /\ LET e == encoderOf[channel[t]] IN
       IF e = None \/ owner[e] # channel[t]
       THEN Return(t)
       ELSE /\ Acquire(t, "channels") /\ SetEnc(t, e)
            /\ Go(t, "connect.register")
            /\ UNCHANGED cap
    /\ UNCHANGED <<encoderVars, captureVars, callbacks, delivering, channel, captureId>>

Mutant_ConnectCheck_locked(t) ==
    /\ pc[t] = "connect.channels" /\ CanRead("channels")
    /\ LET e == encoderOf[channel[t]] IN
       IF e = None \/ owner[e] # channel[t] \/ Providers(e) # {}
       THEN Go(t, "idle") /\ SetEnc(t, None) /\ SetCap(t, None) /\ UNCHANGED readers
       ELSE /\ Acquire(t, "channels") /\ SetEnc(t, e)
            /\ Go(t, "connect.register")
            /\ UNCHANGED cap
    /\ UNCHANGED <<encoderVars, captureVars, callbacks, delivering, channel, captureId>>

\* Refused: no channel, a receive channel, an encoder that has a provider.
ConnectCheck(t) ==
    /\ pc[t] = "connect.channels" /\ CanRead("channels")
    /\ LET e == encoderOf[channel[t]] IN
       IF e = None \/ owner[e] # channel[t] \/ Providers(e) # {}
       THEN Return(t)
       ELSE /\ Acquire(t, "channels") /\ SetEnc(t, e)
            /\ Go(t, "connect.register")
            /\ UNCHANGED cap
    /\ UNCHANGED <<encoderVars, captureVars, callbacks, delivering, channel, captureId>>

ConnectRegister(t) ==
    /\ pc[t] = "connect.register" /\ cap[t] \notin delivering
    /\ callbacks' = [callbacks EXCEPT ![cap[t]] = @ \cup {enc[t]}]
    /\ Return(t)
    /\ UNCHANGED <<encoderVars, captureVars, delivering, channel, captureId>>

DisconnectLookup(t) ==
    /\ pc[t] = "disconnect" /\ CanRead("channels")
    /\ LET e == encoderOf[channel[t]] IN
       IF e = None
       THEN Return(t)
       ELSE /\ Acquire(t, "channels") /\ SetEnc(t, e)
            /\ Go(t, "disconnect.input")
            /\ UNCHANGED cap
    /\ UNCHANGED <<encoderVars, captureVars, callbacks, delivering, channel, captureId>>

DisconnectDeregister(t) ==
    /\ pc[t] = "disconnect.input" /\ CanRead("input")
    /\ Deregister(t)
    /\ Return(t)
    /\ UNCHANGED <<encoderVars, captureVars, delivering, channel, captureId>>

ReleaseLookup(t) ==
    /\ pc[t] = "release" /\ CanRead("input")
    /\ Go(t, IF capturerOf[captureId[t]] = None THEN "idle" ELSE "release.write")
    /\ UNCHANGED <<encoderVars, captureVars, callbacks, delivering, readers, channel,
                   captureId, enc, cap>>

\* DestroyCaptureDevice looks the capturer up again.
ReleaseErase(t) ==
    /\ pc[t] = "release.write" /\ CanWrite("input")
    /\ LET i == captureId[t] IN
       /\ capturerOf' = [capturerOf EXCEPT ![i] = None]
       /\ IF capturerOf[i] = None
          THEN Go(t, "idle") /\ UNCHANGED cap
          ELSE Go(t, "release.free") /\ SetCap(t, capturerOf[i])
    /\ UNCHANGED <<encoderVars, madeCapturers, capturers, callbacks, delivering,
                   readers, channel, captureId, enc>>

\* ~ViECapturer stops its thread; ~ViEFrameProviderBase calls every callback
\* (ProviderDestroyed) once more.
ReleaseFree(t) ==
    /\ pc[t] = "release.free" /\ cap[t] \notin delivering
    /\ capturers' = capturers \ {cap[t]}
    /\ callbacks' = [callbacks EXCEPT ![cap[t]] = {}]
    /\ Return(t)
    /\ UNCHANGED <<encoderVars, capturerOf, madeCapturers, delivering, channel, captureId>>

-----------------------------------------------------------------------------
(* The capture threads                                                     *)

\* The thread of capturer c is in DeliverFrame of its callbacks, and out again.
DeliverFrame(c) ==
    /\ c \in capturers \ delivering
    /\ delivering' = delivering \cup {c}
    /\ UNCHANGED <<encoderVars, captureVars, callbacks, readers, pc, channel,
                   captureId, enc, cap>>

FrameDelivered(c) ==
    /\ c \in delivering
    /\ delivering' = delivering \ {c}
    /\ UNCHANGED <<encoderVars, captureVars, callbacks, readers, pc, channel,
                   captureId, enc, cap>>

-----------------------------------------------------------------------------

Start(t) ==
    \/ CreateChannel(t) \/ CreateReceiveChannel(t) \/ AllocateCaptureDevice(t)
    \/ UseChannel(t) \/ DeleteChannel(t) \/ ConnectCaptureDevice(t)
    \/ DisconnectCaptureDevice(t) \/ ReleaseCaptureDevice(t)

Step(t) ==
    \/ EndUse(t)
    \/ DeleteLookup(t) \/ DeleteDeregister(t) \/ DeleteErase(t) \/ DeleteFree(t)
    \/ ConnectLookup(t) \/ ConnectCheck(t) \/ ConnectRegister(t)
    \/ DisconnectLookup(t) \/ DisconnectDeregister(t)
    \/ ReleaseLookup(t) \/ ReleaseErase(t) \/ ReleaseFree(t)

Next ==
    \/ \E t \in Thread : Start(t) \/ Step(t)
    \/ \E c \in Capturer : DeliverFrame(c) \/ FrameDelivered(c)

\* A call runs on, and gets a lock that becomes free again and again; a frame
\* is delivered some time.
Spec ==
    /\ Init /\ [][Next]_vars
    /\ \A t \in Thread : SF_vars(Step(t))
    /\ \A c \in Capturer : WF_vars(FrameDelivered(c))

-----------------------------------------------------------------------------
(* Properties                                                              *)

\* The variables hold values of their types.
TypeOK ==
    /\ encoderOf \in [Channel -> Encoder \cup {None}]
    /\ owner \in [Encoder -> Channel \cup {None}]
    /\ madeEncoders \in 0 .. MaxEncoder
    /\ encoders \subseteq 1 .. madeEncoders
    /\ capturerOf \in [CaptureId -> Capturer \cup {None}]
    /\ madeCapturers \in 0 .. MaxCapturer
    /\ capturers \subseteq 1 .. madeCapturers
    /\ callbacks \in [Capturer -> SUBSET Encoder]
    /\ delivering \subseteq Capturer
    /\ readers \in [Manager -> SUBSET Thread]
    /\ pc \in [Thread -> Places]
    /\ channel \in [Thread -> Channel \cup {None}]
    /\ captureId \in [Thread -> CaptureId \cup {None}]
    /\ enc \in [Thread -> Encoder \cup {None}]
    /\ cap \in [Thread -> Capturer \cup {None}]

\* "Write lock to make sure no one is using the channel": no thread has a
\* pointer to an encoder or a capturer that was deleted, also when other
\* threads delete channels and devices; delivering threads have a capturer.
PointersAlive ==
    /\ \A t \in Thread : enc[t] \in encoders \cup {None}
                         /\ cap[t] \in capturers \cup {None}
    /\ delivering \subseteq capturers

\* Channels share encoders, and DeleteChannel may run in several threads: an
\* encoder exists exactly as long as a channel uses it or one thread is about
\* to delete it, which nobody else does.
Deleting(t) == pc[t] = "delete.free"
EncodersOwned ==
    /\ \A e \in encoders :
          \/ \E i \in Channel : encoderOf[i] = e
          \/ \E t \in Thread : Deleting(t) /\ enc[t] = e
    /\ \A i \in Channel : encoderOf[i] \in encoders \cup {None}
    /\ \A t \in Thread : Deleting(t) =>
          /\ \A u \in Thread \ {t} : Deleting(u) => enc[u] # enc[t]
          /\ \A i \in Channel : encoderOf[i] # enc[t]

\* A frame goes to encoders that exist: whoever deletes an encoder took it
\* from its provider before.
CallbacksAlive == \A c \in capturers : callbacks[c] \subseteq encoders

\* An encoder has one provider: ConnectCaptureDevice refuses a second one.
OneProvider ==
    \A c, d \in capturers : c # d => callbacks[c] \cap callbacks[d] = {}

\* Every call returns: the two locks, which ConnectCaptureDevice takes in the
\* opposite order of DeleteChannel, never hold up three threads for ever.
CallsReturn == \A t \in Thread : pc[t] # "idle" ~> pc[t] = "idle"

=============================================================================
