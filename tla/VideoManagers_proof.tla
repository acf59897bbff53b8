------------------------- MODULE VideoManagers_proof -------------------------
(***************************************************************************)
(* Proofs about VideoManagers, for every set of threads, channels and      *)
(* capture ids, and whichever way the locks treat waiting writers: no      *)
(* thread ever has a pointer to a deleted encoder or capturer, and an      *)
(* encoder that channels share is deleted exactly once.  It takes four     *)
(* calls to wait for one another in a circle, and encoders and capturers   *)
(* have the lifetime that ObjectLifetime promises.                         *)
(***************************************************************************)
EXTENDS VideoManagers, TLAPS

-----------------------------------------------------------------------------
(* The inductive invariant                                                 *)

\* Where a thread reads the managers, and with which pointers.
ReadsChannels(t) ==
    pc[t] \in {"use", "delete.input", "connect.register", "disconnect.input"}
ReadsInput(t) == pc[t] \in {"connect.channels", "connect.register"}
FreesEncoder(t) == pc[t] = "delete.free"
FreesCapturer(t) == pc[t] = "release.free"

Locks ==
    \A t \in Thread :
        /\ ReadsChannels(t) <=> t \in readers["channels"]
        /\ ReadsInput(t) <=> t \in readers["input"]

\* The arguments of a call that is under way.
Arguments ==
    \A t \in Thread : pc[t] \notin {"idle", "use"} =>
        channel[t] \in Channel /\ captureId[t] \in CaptureId

\* A pointer to an encoder is one that was looked up and is still in the map,
\* or the one that this thread took out of the map.
EncPointers ==
    \A t \in Thread :
        /\ ReadsChannels(t) =>
              enc[t] # None /\ \E i \in Channel : encoderOf[i] = enc[t]
        /\ FreesEncoder(t) => enc[t] \in encoders
        /\ ~ReadsChannels(t) /\ ~FreesEncoder(t) => enc[t] = None

CapPointers ==
    \A t \in Thread :
        /\ ReadsInput(t) =>
              cap[t] # None /\ \E i \in CaptureId : capturerOf[i] = cap[t]
        /\ FreesCapturer(t) => cap[t] \in capturers
        /\ ~ReadsInput(t) /\ ~FreesCapturer(t) => cap[t] = None

\* The capturers in the map are alive, each has one id, and who took one out
\* of the map is alone with it.
CapturersOwned ==
    /\ \A i \in CaptureId : capturerOf[i] \in capturers \cup {None}
    /\ \A i, j \in CaptureId :
          capturerOf[i] # None /\ capturerOf[i] = capturerOf[j] => i = j
    /\ \A t \in Thread : FreesCapturer(t) =>
          /\ \A u \in Thread \ {t} : FreesCapturer(u) => cap[u] # cap[t]
          /\ \A i \in CaptureId : capturerOf[i] # cap[t]
    /\ delivering \subseteq capturers

IInv ==
    /\ TypeOK /\ Locks /\ Arguments /\ EncPointers /\ CapPointers
    /\ EncodersOwned /\ CapturersOwned

-----------------------------------------------------------------------------
(* One lemma per conjunct of the invariant                                 *)

\* The values stay in their types.
LEMMA TypeStep ==
  ASSUME TypeOK, Locks, Arguments, EncPointers, CapPointers, [Next]_vars
  PROVE  TypeOK'
<1> USE ManagersAssumption DEF TypeOK, Encoder, Capturer, Manager, Places, encoderVars, captureVars, Go, SetEnc, SetCap
<1>0. CASE UNCHANGED vars
  BY <1>0 DEF vars
<1>1. ASSUME NEW t \in Thread, Start(t) \/ Step(t) PROVE TypeOK'
  <2>1. CASE CreateChannel(t)
    BY <2>1 DEF CreateChannel
  <2>2. CASE CreateReceiveChannel(t)
    BY <2>2 DEF CreateReceiveChannel
  <2>3. CASE AllocateCaptureDevice(t)
    BY <2>3 DEF AllocateCaptureDevice
  <2>4. CASE UseChannel(t)
    BY <2>4 DEF UseChannel, Acquire
  <2>5. CASE DeleteChannel(t)
    BY <2>5 DEF DeleteChannel, Call
  <2>6. CASE ConnectCaptureDevice(t)
    BY <2>6 DEF ConnectCaptureDevice, Call
  <2>7. CASE DisconnectCaptureDevice(t)
    BY <2>7 DEF DisconnectCaptureDevice, Call
  <2>8. CASE ReleaseCaptureDevice(t)
    BY <2>8 DEF ReleaseCaptureDevice, Call
  <2>9. CASE EndUse(t)
    BY <2>9 DEF EndUse, Return, ReleaseAll
  <2>10. CASE DeleteLookup(t)
    <3>1. channel[t] \in Channel /\ encoderOf[channel[t]] \in Encoder \cup {None}
      BY <2>10 DEF DeleteLookup, Arguments
    <3>2. pc' \in [Thread -> Places]
      BY <2>10 DEF DeleteLookup, Return, ReleaseAll, Acquire
    <3>3. readers' \in [Manager -> SUBSET Thread]
      BY <2>10, <3>1 DEF DeleteLookup, Return, ReleaseAll, Acquire
    <3>4. enc' \in [Thread -> Encoder \cup {None}]
      BY <2>10, <3>1 DEF DeleteLookup, Return, ReleaseAll, Acquire
    <3>5. cap' \in [Thread -> Capturer \cup {None}]
      BY <2>10, <3>1 DEF DeleteLookup, Return, ReleaseAll, Acquire
    <3> QED
      BY <2>10, <3>2, <3>3, <3>4, <3>5 DEF DeleteLookup
  <2>11. CASE DeleteDeregister(t)
    BY <2>11 DEF DeleteDeregister, ReleaseAll, Deregister
  <2>12. CASE DeleteErase(t)
    <3>1. channel[t] \in Channel /\ encoderOf[channel[t]] \in Encoder \cup {None}
      BY <2>12 DEF DeleteErase, Arguments
    <3>2. pc' \in [Thread -> Places]
      <4>1. \/ pc' = [pc EXCEPT ![t] = "idle"]
            \/ pc' = [pc EXCEPT ![t] = "delete.free"]
        BY <2>12 DEF DeleteErase, Return
      <4> QED
        BY <4>1
    <3>3. enc' \in [Thread -> Encoder \cup {None}]
      BY <2>12, <3>1 DEF DeleteErase
    <3>4. encoderOf' \in [Channel -> Encoder \cup {None}]
      BY <2>12, <3>1 DEF DeleteErase
    <3> QED
      BY <2>12, <3>2, <3>3, <3>4 DEF DeleteErase
  <2>13. CASE DeleteFree(t)
    BY <2>13 DEF DeleteFree, Return, ReleaseAll
  <2>14. CASE ConnectLookup(t)
    <3>1. captureId[t] \in CaptureId /\ capturerOf[captureId[t]] \in Capturer \cup {None}
      BY <2>14 DEF ConnectLookup, Arguments
    <3>2. pc' \in [Thread -> Places]
      <4>1. \/ pc' = [pc EXCEPT ![t] = "idle"]
            \/ pc' = [pc EXCEPT ![t] = "connect.channels"]
        BY <2>14 DEF ConnectLookup, Return
      <4> QED
        BY <4>1
    <3>3. readers' \in [Manager -> SUBSET Thread]
      BY <2>14, <3>1 DEF ConnectLookup, Return, ReleaseAll, Acquire
    <3>4. enc' \in [Thread -> Encoder \cup {None}]
      BY <2>14, <3>1 DEF ConnectLookup, Return, ReleaseAll, Acquire
    <3>5. cap' \in [Thread -> Capturer \cup {None}]
      BY <2>14, <3>1 DEF ConnectLookup, Return, ReleaseAll, Acquire
    <3> QED
      BY <2>14, <3>2, <3>3, <3>4, <3>5 DEF ConnectLookup
  <2>15. CASE ConnectCheck(t)
    <3>1. channel[t] \in Channel /\ encoderOf[channel[t]] \in Encoder \cup {None}
      BY <2>15 DEF ConnectCheck, Arguments
    <3>2. pc' \in [Thread -> Places]
      <4>1. \/ pc' = [pc EXCEPT ![t] = "idle"]
            \/ pc' = [pc EXCEPT ![t] = "connect.register"]
        BY <2>15 DEF ConnectCheck, Return
      <4> QED
        BY <4>1
    <3>3. readers' \in [Manager -> SUBSET Thread]
      BY <2>15, <3>1 DEF ConnectCheck, Return, ReleaseAll, Acquire
    <3>4. enc' \in [Thread -> Encoder \cup {None}]
      BY <2>15, <3>1 DEF ConnectCheck, Return, ReleaseAll, Acquire
    <3>5. cap' \in [Thread -> Capturer \cup {None}]
      BY <2>15, <3>1 DEF ConnectCheck, Return, ReleaseAll, Acquire
    <3> QED
      BY <2>15, <3>2, <3>3, <3>4, <3>5 DEF ConnectCheck
  <2>16. CASE ConnectRegister(t)
    <3>1. ReadsChannels(t) /\ ReadsInput(t)
      BY <2>16 DEF ConnectRegister, ReadsChannels, ReadsInput
    <3>2. enc[t] \in Encoder /\ cap[t] \in Capturer
      BY <3>1 DEF EncPointers, CapPointers
    <3>3. callbacks' \in [Capturer -> SUBSET Encoder]
      BY <2>16, <3>2 DEF ConnectRegister
    <3>4. readers' \in [Manager -> SUBSET Thread]
      BY <2>16 DEF ConnectRegister, Return, ReleaseAll
    <3>5. pc' \in [Thread -> Places]
      BY <2>16 DEF ConnectRegister, Return
    <3>6. /\ enc' \in [Thread -> Encoder \cup {None}]
          /\ cap' \in [Thread -> Capturer \cup {None}]
      BY <2>16 DEF ConnectRegister, Return
    <3> QED
      BY <2>16, <3>3, <3>4, <3>5, <3>6 DEF ConnectRegister
  <2>17. CASE DisconnectLookup(t)
    <3>1. channel[t] \in Channel /\ encoderOf[channel[t]] \in Encoder \cup {None}
      BY <2>17 DEF DisconnectLookup, Arguments
    <3>2. pc' \in [Thread -> Places]
      <4>1. \/ pc' = [pc EXCEPT ![t] = "idle"]
            \/ pc' = [pc EXCEPT ![t] = "disconnect.input"]
        BY <2>17 DEF DisconnectLookup, Return
      <4> QED
        BY <4>1
    <3>3. readers' \in [Manager -> SUBSET Thread]
      BY <2>17, <3>1 DEF DisconnectLookup, Return, ReleaseAll, Acquire
    <3>4. enc' \in [Thread -> Encoder \cup {None}]
      BY <2>17, <3>1 DEF DisconnectLookup, Return, ReleaseAll, Acquire
    <3>5. cap' \in [Thread -> Capturer \cup {None}]
      BY <2>17, <3>1 DEF DisconnectLookup, Return, ReleaseAll, Acquire
    <3> QED
      BY <2>17, <3>2, <3>3, <3>4, <3>5 DEF DisconnectLookup
  <2>18. CASE DisconnectDeregister(t)
    BY <2>18 DEF DisconnectDeregister, Return, ReleaseAll, Deregister
  <2>19. CASE ReleaseLookup(t)
    BY <2>19 DEF ReleaseLookup
  <2>20. CASE ReleaseErase(t)
    <3>1. captureId[t] \in CaptureId /\ capturerOf[captureId[t]] \in Capturer \cup {None}
      BY <2>20 DEF ReleaseErase, Arguments
    <3>2. pc' \in [Thread -> Places]
      <4>1. \/ pc' = [pc EXCEPT ![t] = "idle"]
            \/ pc' = [pc EXCEPT ![t] = "release.free"]
        BY <2>20 DEF ReleaseErase, Return
      <4> QED
        BY <4>1
    <3>3. cap' \in [Thread -> Capturer \cup {None}]
      BY <2>20, <3>1 DEF ReleaseErase
    <3>4. capturerOf' \in [CaptureId -> Capturer \cup {None}]
      BY <2>20, <3>1 DEF ReleaseErase
    <3> QED
      BY <2>20, <3>2, <3>3, <3>4 DEF ReleaseErase
  <2>21. CASE ReleaseFree(t)
    BY <2>21 DEF ReleaseFree, Return, ReleaseAll
  <2> QED
    BY <1>1, <2>1, <2>2, <2>3, <2>4, <2>5, <2>6, <2>7, <2>8, <2>9, <2>10,
       <2>11, <2>12, <2>13, <2>14, <2>15, <2>16, <2>17, <2>18, <2>19,
       <2>20, <2>21 DEF Start, Step
<1>2. ASSUME NEW c \in Capturer, DeliverFrame(c) \/ FrameDelivered(c) PROVE TypeOK'
  BY <1>2 DEF DeliverFrame, FrameDelivered
<1> QED
  BY <1>0, <1>1, <1>2 DEF Next

\* Who reads has the lock.
LEMMA LocksStep ==
  ASSUME TypeOK, Locks, [Next]_vars
  PROVE  Locks'
<1> USE DEF TypeOK, Locks, ReadsChannels, ReadsInput, Manager, encoderVars, captureVars, Go, SetEnc, SetCap
<1>0. CASE UNCHANGED vars
  BY <1>0 DEF vars
<1>1. ASSUME NEW t \in Thread, Start(t) \/ Step(t) PROVE Locks'
  <2>1. CASE CreateChannel(t)
    BY <2>1 DEF CreateChannel
  <2>2. CASE CreateReceiveChannel(t)
    BY <2>2 DEF CreateReceiveChannel
  <2>3. CASE AllocateCaptureDevice(t)
    BY <2>3 DEF AllocateCaptureDevice
  <2>4. CASE UseChannel(t)
    BY <2>4 DEF UseChannel, Acquire
  <2>5. CASE DeleteChannel(t)
    BY <2>5 DEF DeleteChannel, Call
  <2>6. CASE ConnectCaptureDevice(t)
    BY <2>6 DEF ConnectCaptureDevice, Call
  <2>7. CASE DisconnectCaptureDevice(t)
    BY <2>7 DEF DisconnectCaptureDevice, Call
  <2>8. CASE ReleaseCaptureDevice(t)
    BY <2>8 DEF ReleaseCaptureDevice, Call
  <2>9. CASE EndUse(t)
    BY <2>9 DEF EndUse, Return, ReleaseAll
  <2>10. CASE DeleteLookup(t)
    BY <2>10 DEF DeleteLookup, Return, ReleaseAll, Acquire
  <2>11. CASE DeleteDeregister(t)
    BY <2>11 DEF DeleteDeregister, ReleaseAll
  <2>12. CASE DeleteErase(t)
    BY <2>12 DEF DeleteErase, CanWrite
  <2>13. CASE DeleteFree(t)
    BY <2>13 DEF DeleteFree, Return, ReleaseAll
  <2>14. CASE ConnectLookup(t)
    BY <2>14 DEF ConnectLookup, Return, ReleaseAll, Acquire
  <2>15. CASE ConnectCheck(t)
    BY <2>15 DEF ConnectCheck, Return, ReleaseAll, Acquire
  <2>16. CASE ConnectRegister(t)
    BY <2>16 DEF ConnectRegister, Return, ReleaseAll
  <2>17. CASE DisconnectLookup(t)
    BY <2>17 DEF DisconnectLookup, Return, ReleaseAll, Acquire
  <2>18. CASE DisconnectDeregister(t)
    BY <2>18 DEF DisconnectDeregister, Return, ReleaseAll
  <2>19. CASE ReleaseLookup(t)
    BY <2>19 DEF ReleaseLookup
  <2>20. CASE ReleaseErase(t)
    BY <2>20 DEF ReleaseErase, CanWrite
  <2>21. CASE ReleaseFree(t)
    BY <2>21 DEF ReleaseFree, Return, ReleaseAll
  <2> QED
    BY <1>1, <2>1, <2>2, <2>3, <2>4, <2>5, <2>6, <2>7, <2>8, <2>9, <2>10,
       <2>11, <2>12, <2>13, <2>14, <2>15, <2>16, <2>17, <2>18, <2>19,
       <2>20, <2>21 DEF Start, Step
<1>2. ASSUME NEW c \in Capturer, DeliverFrame(c) \/ FrameDelivered(c) PROVE Locks'
  BY <1>2 DEF DeliverFrame, FrameDelivered
<1> QED
  BY <1>0, <1>1, <1>2 DEF Next

\* A call is about a channel and a capture device.
LEMMA ArgumentsStep ==
  ASSUME TypeOK, Arguments, [Next]_vars
  PROVE  Arguments'
<1> USE DEF TypeOK, Arguments, encoderVars, captureVars, Go, SetEnc, SetCap
<1>0. CASE UNCHANGED vars
  BY <1>0 DEF vars
<1>1. ASSUME NEW t \in Thread, Start(t) \/ Step(t) PROVE Arguments'
  <2>1. CASE CreateChannel(t)
    BY <2>1 DEF CreateChannel
  <2>2. CASE CreateReceiveChannel(t)
    BY <2>2 DEF CreateReceiveChannel
  <2>3. CASE AllocateCaptureDevice(t)
    BY <2>3 DEF AllocateCaptureDevice
  <2>4. CASE UseChannel(t)
    BY <2>4 DEF UseChannel, Acquire
  <2>5. CASE DeleteChannel(t)
    BY <2>5 DEF DeleteChannel, Call
  <2>6. CASE ConnectCaptureDevice(t)
    BY <2>6 DEF ConnectCaptureDevice, Call
  <2>7. CASE DisconnectCaptureDevice(t)
    BY <2>7 DEF DisconnectCaptureDevice, Call
  <2>8. CASE ReleaseCaptureDevice(t)
    BY <2>8 DEF ReleaseCaptureDevice, Call
  <2>9. CASE EndUse(t)
    BY <2>9 DEF EndUse, Return, ReleaseAll
  <2>10. CASE DeleteLookup(t)
    BY <2>10 DEF DeleteLookup, Return, ReleaseAll, Acquire
  <2>11. CASE DeleteDeregister(t)
    BY <2>11 DEF DeleteDeregister, ReleaseAll
  <2>12. CASE DeleteErase(t)
    BY <2>12 DEF DeleteErase, CanWrite
  <2>13. CASE DeleteFree(t)
    BY <2>13 DEF DeleteFree, Return, ReleaseAll
  <2>14. CASE ConnectLookup(t)
    BY <2>14 DEF ConnectLookup, Return, ReleaseAll, Acquire
  <2>15. CASE ConnectCheck(t)
    BY <2>15 DEF ConnectCheck, Return, ReleaseAll, Acquire
  <2>16. CASE ConnectRegister(t)
    BY <2>16 DEF ConnectRegister, Return, ReleaseAll
  <2>17. CASE DisconnectLookup(t)
    BY <2>17 DEF DisconnectLookup, Return, ReleaseAll, Acquire
  <2>18. CASE DisconnectDeregister(t)
    BY <2>18 DEF DisconnectDeregister, Return, ReleaseAll
  <2>19. CASE ReleaseLookup(t)
    BY <2>19 DEF ReleaseLookup
  <2>20. CASE ReleaseErase(t)
    BY <2>20 DEF ReleaseErase, CanWrite
  <2>21. CASE ReleaseFree(t)
    BY <2>21 DEF ReleaseFree, Return, ReleaseAll
  <2> QED
    BY <1>1, <2>1, <2>2, <2>3, <2>4, <2>5, <2>6, <2>7, <2>8, <2>9, <2>10,
       <2>11, <2>12, <2>13, <2>14, <2>15, <2>16, <2>17, <2>18, <2>19,
       <2>20, <2>21 DEF Start, Step
<1>2. ASSUME NEW c \in Capturer, DeliverFrame(c) \/ FrameDelivered(c) PROVE Arguments'
  BY <1>2 DEF DeliverFrame, FrameDelivered
<1> QED
  BY <1>0, <1>1, <1>2 DEF Next

\* Only a writer takes an encoder out of the map.
LEMMA EncPointersStep ==
  ASSUME TypeOK, Locks, Arguments, EncPointers, EncodersOwned, [Next]_vars
  PROVE  EncPointers'
<1> USE ManagersAssumption DEF TypeOK, Locks, Arguments, EncodersOwned, Deleting, Encoder, Manager, EncPointers, ReadsChannels, ReadsInput, FreesEncoder, encoderVars, captureVars, Go, SetEnc, SetCap
<1>0. CASE UNCHANGED vars
  BY <1>0 DEF vars
<1>1. ASSUME NEW t \in Thread, Start(t) \/ Step(t) PROVE EncPointers'
  <2>1. CASE CreateChannel(t)
    BY <2>1 DEF CreateChannel
  <2>2. CASE CreateReceiveChannel(t)
    BY <2>2 DEF CreateReceiveChannel
  <2>3. CASE AllocateCaptureDevice(t)
    BY <2>3 DEF AllocateCaptureDevice
  <2>4. CASE UseChannel(t)
    BY <2>4 DEF UseChannel, Acquire
  <2>5. CASE DeleteChannel(t)
    BY <2>5 DEF DeleteChannel, Call
  <2>6. CASE ConnectCaptureDevice(t)
    BY <2>6 DEF ConnectCaptureDevice, Call
  <2>7. CASE DisconnectCaptureDevice(t)
    BY <2>7 DEF DisconnectCaptureDevice, Call
  <2>8. CASE ReleaseCaptureDevice(t)
    BY <2>8 DEF ReleaseCaptureDevice, Call
  <2>9. CASE EndUse(t)
    BY <2>9 DEF EndUse, Return, ReleaseAll
  <2>10. CASE DeleteLookup(t)
    BY <2>10 DEF DeleteLookup, Return, ReleaseAll, Acquire
  <2>11. CASE DeleteDeregister(t)
    BY <2>11 DEF DeleteDeregister, ReleaseAll
  <2>12. CASE DeleteErase(t)
    BY <2>12 DEF DeleteErase, CanWrite
  <2>13. CASE DeleteFree(t)
    BY <2>13 DEF DeleteFree, Return, ReleaseAll
  <2>14. CASE ConnectLookup(t)
    BY <2>14 DEF ConnectLookup, Return, ReleaseAll, Acquire
  <2>15. CASE ConnectCheck(t)
    <3>1. CASE Return(t)
      BY <2>15, <3>1 DEF ConnectCheck, Return, ReleaseAll
    <3>2. CASE ~Return(t)
      BY <2>15, <3>2 DEF ConnectCheck
    <3> QED
      BY <3>1, <3>2
  <2>16. CASE ConnectRegister(t)
    BY <2>16 DEF ConnectRegister, Return, ReleaseAll
  <2>17. CASE DisconnectLookup(t)
    BY <2>17 DEF DisconnectLookup, Return, ReleaseAll, Acquire
  <2>18. CASE DisconnectDeregister(t)
    BY <2>18 DEF DisconnectDeregister, Return, ReleaseAll
  <2>19. CASE ReleaseLookup(t)
    BY <2>19 DEF ReleaseLookup
  <2>20. CASE ReleaseErase(t)
    BY <2>20 DEF ReleaseErase, CanWrite
  <2>21. CASE ReleaseFree(t)
    BY <2>21 DEF ReleaseFree, Return, ReleaseAll
  <2> QED
    BY <1>1, <2>1, <2>2, <2>3, <2>4, <2>5, <2>6, <2>7, <2>8, <2>9, <2>10,
       <2>11, <2>12, <2>13, <2>14, <2>15, <2>16, <2>17, <2>18, <2>19,
       <2>20, <2>21 DEF Start, Step
<1>2. ASSUME NEW c \in Capturer, DeliverFrame(c) \/ FrameDelivered(c) PROVE EncPointers'
  BY <1>2 DEF DeliverFrame, FrameDelivered
<1> QED
  BY <1>0, <1>1, <1>2 DEF Next

\* Only a writer takes a capturer out of the map.
LEMMA CapPointersStep ==
  ASSUME TypeOK, Locks, Arguments, CapPointers, CapturersOwned, [Next]_vars
  PROVE  CapPointers'
<1> USE ManagersAssumption DEF TypeOK, Locks, Arguments, CapturersOwned, Capturer, Manager, CapPointers, ReadsChannels, ReadsInput, FreesCapturer, encoderVars, captureVars, Go, SetEnc, SetCap
<1>0. CASE UNCHANGED vars
  BY <1>0 DEF vars
<1>1. ASSUME NEW t \in Thread, Start(t) \/ Step(t) PROVE CapPointers'
  <2>1. CASE CreateChannel(t)
    BY <2>1 DEF CreateChannel
  <2>2. CASE CreateReceiveChannel(t)
    BY <2>2 DEF CreateReceiveChannel
  <2>3. CASE AllocateCaptureDevice(t)
    BY <2>3 DEF AllocateCaptureDevice
  <2>4. CASE UseChannel(t)
    BY <2>4 DEF UseChannel, Acquire
  <2>5. CASE DeleteChannel(t)
    BY <2>5 DEF DeleteChannel, Call
  <2>6. CASE ConnectCaptureDevice(t)
    BY <2>6 DEF ConnectCaptureDevice, Call
  <2>7. CASE DisconnectCaptureDevice(t)
    BY <2>7 DEF DisconnectCaptureDevice, Call
  <2>8. CASE ReleaseCaptureDevice(t)
    BY <2>8 DEF ReleaseCaptureDevice, Call
  <2>9. CASE EndUse(t)
    BY <2>9 DEF EndUse, Return, ReleaseAll
  <2>10. CASE DeleteLookup(t)
    BY <2>10 DEF DeleteLookup, Return, ReleaseAll, Acquire
  <2>11. CASE DeleteDeregister(t)
    BY <2>11 DEF DeleteDeregister, ReleaseAll
  <2>12. CASE DeleteErase(t)
    BY <2>12 DEF DeleteErase, CanWrite
  <2>13. CASE DeleteFree(t)
    BY <2>13 DEF DeleteFree, Return, ReleaseAll
  <2>14. CASE ConnectLookup(t)
    BY <2>14 DEF ConnectLookup, Return, ReleaseAll, Acquire
  <2>15. CASE ConnectCheck(t)
    BY <2>15 DEF ConnectCheck, Return, ReleaseAll, Acquire
  <2>16. CASE ConnectRegister(t)
    BY <2>16 DEF ConnectRegister, Return, ReleaseAll
  <2>17. CASE DisconnectLookup(t)
    BY <2>17 DEF DisconnectLookup, Return, ReleaseAll, Acquire
  <2>18. CASE DisconnectDeregister(t)
    BY <2>18 DEF DisconnectDeregister, Return, ReleaseAll
  <2>19. CASE ReleaseLookup(t)
    BY <2>19 DEF ReleaseLookup
  <2>20. CASE ReleaseErase(t)
    BY <2>20 DEF ReleaseErase, CanWrite
  <2>21. CASE ReleaseFree(t)
    BY <2>21 DEF ReleaseFree, Return, ReleaseAll
  <2> QED
    BY <1>1, <2>1, <2>2, <2>3, <2>4, <2>5, <2>6, <2>7, <2>8, <2>9, <2>10,
       <2>11, <2>12, <2>13, <2>14, <2>15, <2>16, <2>17, <2>18, <2>19,
       <2>20, <2>21 DEF Start, Step
<1>2. ASSUME NEW c \in Capturer, DeliverFrame(c) \/ FrameDelivered(c) PROVE CapPointers'
  BY <1>2 DEF DeliverFrame, FrameDelivered
<1> QED
  BY <1>0, <1>1, <1>2 DEF Next

\* None is no object, and the number of the next encoder is new.
LEMMA Numbers ==
  ASSUME TypeOK
  PROVE  /\ None \notin encoders /\ None \notin capturers
         /\ madeEncoders + 1 \notin encoders /\ madeEncoders + 1 # None
<1>1. madeEncoders \in Nat /\ madeCapturers \in Nat
  BY ManagersAssumption DEF TypeOK
<1>2. encoders \subseteq Nat /\ capturers \subseteq Nat
  BY <1>1 DEF TypeOK
<1>3. \A n \in encoders : n <= madeEncoders
  BY <1>1 DEF TypeOK
<1>4. None \notin encoders /\ None \notin capturers
  BY <1>2, ManagersAssumption
<1>5. madeEncoders + 1 \in Nat /\ madeEncoders + 1 # None
  BY <1>1, ManagersAssumption
<1>6. ~(madeEncoders + 1 <= madeEncoders)
  BY <1>1
<1>7. madeEncoders + 1 \notin encoders
  BY <1>3, <1>6
<1> QED
  BY <1>4, <1>5, <1>7

\* Who deletes an object has a pointer to one that is alive.
LEMMA DeletedAlive ==
  ASSUME EncPointers
  PROVE  \A u \in Thread : Deleting(u) => enc[u] \in encoders
BY DEF EncPointers, Deleting, FreesEncoder

\* Who frees a capturer has a pointer to one that is alive.
LEMMA FreedAlive ==
  ASSUME CapPointers
  PROVE  \A u \in Thread : FreesCapturer(u) => cap[u] \in capturers
BY DEF CapPointers

\* Steps that neither change the map nor who deletes what keep the encoders owned.
LEMMA EncodersKept ==
  ASSUME EncodersOwned, UNCHANGED <<encoderOf, encoders>>,
         \A u \in Thread : Deleting(u)' <=> Deleting(u),
         \A u \in Thread : Deleting(u) => enc'[u] = enc[u]
  PROVE  EncodersOwned'
BY DEF EncodersOwned

\* A new encoder comes with its channel.
LEMMA EncodersMade ==
  ASSUME EncodersOwned, NEW i \in Channel, NEW new, new \notin encoders, new # None,
         encoderOf[i] = None,
         encoders' = encoders \cup {new},
         \A j \in Channel : encoderOf'[j] = IF j = i THEN new ELSE encoderOf[j],
         \A u \in Thread : Deleting(u)' <=> Deleting(u),
         \A u \in Thread : enc'[u] = enc[u],
         \A u \in Thread : Deleting(u) => enc[u] \in encoders,
         None \notin encoders
  PROVE  EncodersOwned'
<1>1. \A e \in encoders' : \/ \E j \in Channel : encoderOf'[j] = e
                          \/ \E u \in Thread : Deleting(u)' /\ enc'[u] = e
  <2>1. ASSUME NEW e \in encoders, NEW j \in Channel, encoderOf[j] = e
        PROVE  encoderOf'[j] = e
    BY <2>1
  <2>2. \A e \in encoders : \/ \E j \in Channel : encoderOf[j] = e
                           \/ \E u \in Thread : Deleting(u) /\ enc[u] = e
    BY DEF EncodersOwned
  <2> QED
    BY <2>1, <2>2
<1>2. \A j \in Channel : encoderOf'[j] \in encoders' \cup {None}
  BY DEF EncodersOwned
<1>3. \A u \in Thread : Deleting(u)' =>
          /\ \A w \in Thread \ {u} : Deleting(w)' => enc'[w] # enc'[u]
          /\ \A j \in Channel : encoderOf'[j] # enc'[u]
  BY DEF EncodersOwned
<1> QED
  BY <1>1, <1>2, <1>3 DEF EncodersOwned

\* A channel leaves the map; the thread that takes the last one of an encoder
\* deletes the encoder, and no other thread does.
LEMMA EncodersTaken ==
  ASSUME EncodersOwned, NEW t \in Thread, NEW i \in Channel, ~Deleting(t),
         UNCHANGED encoders, None \notin encoders,
         \A u \in Thread : Deleting(u) => enc[u] \in encoders,
         \A j \in Channel : encoderOf'[j] = IF j = i THEN None ELSE encoderOf[j],
         \A u \in Thread \ {t} : Deleting(u)' <=> Deleting(u),
         \A u \in Thread \ {t} : enc'[u] = enc[u],
         encoderOf[i] = None \/ Shared(i) => ~Deleting(t)',
         encoderOf[i] # None /\ ~Shared(i) => Deleting(t)' /\ enc'[t] = encoderOf[i]
  PROVE  EncodersOwned'
<1> DEFINE e == encoderOf[i]
<1>1. \A d \in encoders : d # e => \/ \E j \in Channel : encoderOf'[j] = d
                                 \/ \E u \in Thread : Deleting(u)' /\ enc'[u] = d
  <2>1. ASSUME NEW d \in encoders, d # e, NEW j \in Channel, encoderOf[j] = d
        PROVE  encoderOf'[j] = d
    BY <2>1
  <2>2. ASSUME NEW d \in encoders, NEW u \in Thread, Deleting(u), enc[u] = d
        PROVE  Deleting(u)' /\ enc'[u] = d
    BY <2>2
  <2>3. \A d \in encoders : \/ \E j \in Channel : encoderOf[j] = d
                           \/ \E u \in Thread : Deleting(u) /\ enc[u] = d
    BY DEF EncodersOwned
  <2> QED
    BY <2>1, <2>2, <2>3
<1>2. \A j \in Channel : encoderOf'[j] \in encoders' \cup {None}
  BY DEF EncodersOwned
<1>3. \A u \in Thread : Deleting(u) =>
          /\ enc[u] # e
          /\ \A w \in Thread \ {u} : Deleting(w) => enc[w] # enc[u]
          /\ \A j \in Channel : encoderOf[j] # enc[u]
  BY DEF EncodersOwned
<1>4. CASE e = None
  <2>1. \A u \in Thread : Deleting(u)' <=> Deleting(u)
    BY <1>4
  <2>2. \A j \in Channel : encoderOf'[j] = encoderOf[j]
    BY <1>4
  <2>3. \A u \in Thread : Deleting(u)' => enc'[u] = enc[u]
    BY <2>1
  <2>4. \A u \in Thread : Deleting(u)' =>
          /\ \A w \in Thread \ {u} : Deleting(w)' => enc'[w] # enc'[u]
          /\ \A j \in Channel : encoderOf'[j] # enc'[u]
    BY <1>3, <2>1, <2>2, <2>3
  <2> QED
    BY <1>1, <1>2, <1>4, <2>4 DEF EncodersOwned
<1>5. CASE e # None /\ Shared(i)
  <2>1. PICK j \in Channel \ {i} : encoderOf[j] = e
    BY <1>5 DEF Shared
  <2>2. encoderOf'[j] = e
    BY <2>1
  <2>3. \A u \in Thread : Deleting(u)' => Deleting(u) /\ enc'[u] = enc[u] /\ enc[u] # None
    BY <1>3, <1>5
  <2>4. \A u \in Thread : Deleting(u)' =>
          /\ \A w \in Thread \ {u} : Deleting(w)' => enc'[w] # enc'[u]
          /\ \A k \in Channel : encoderOf'[k] # enc'[u]
    BY <1>3, <2>3
  <2> QED
    BY <1>1, <1>2, <2>2, <2>4 DEF EncodersOwned
<1>6. CASE e # None /\ ~Shared(i)
  <2>1. Deleting(t)' /\ enc'[t] = e
    BY <1>6
  <2>2. \A j \in Channel : encoderOf'[j] # e
    BY <1>6 DEF Shared
  <2>3. \A u \in Thread \ {t} : Deleting(u)' => Deleting(u) /\ enc'[u] = enc[u] /\ enc[u] # None
    OBVIOUS
  <2>4. \A u \in Thread : Deleting(u)' =>
          /\ \A w \in Thread \ {u} : Deleting(w)' => enc'[w] # enc'[u]
          /\ \A k \in Channel : encoderOf'[k] # enc'[u]
    BY <1>3, <2>1, <2>2, <2>3
  <2> QED
    BY <1>1, <1>2, <2>1, <2>4 DEF EncodersOwned
<1> QED
  BY <1>4, <1>5, <1>6

\* The same for capturers, which have one id each.
LEMMA CapturersKept ==
  ASSUME CapturersOwned, UNCHANGED <<capturerOf, capturers, delivering>>,
         \A u \in Thread : FreesCapturer(u)' <=> FreesCapturer(u),
         \A u \in Thread : FreesCapturer(u) => cap'[u] = cap[u]
  PROVE  CapturersOwned'
BY DEF CapturersOwned

\* ReleaseErase moves a capturer from the map to the thread that frees it.
LEMMA CapturersTaken ==
  ASSUME CapturersOwned, NEW t \in Thread, NEW i \in CaptureId, ~FreesCapturer(t),
         UNCHANGED <<capturers, delivering>>,
         \A j \in CaptureId : capturerOf'[j] = IF j = i THEN None ELSE capturerOf[j],
         \A u \in Thread \ {t} : FreesCapturer(u)' <=> FreesCapturer(u),
         \A u \in Thread \ {t} : cap'[u] = cap[u],
         \A u \in Thread : FreesCapturer(u) => cap[u] # None,
         capturerOf[i] = None => ~FreesCapturer(t)',
         capturerOf[i] # None => FreesCapturer(t)' /\ cap'[t] = capturerOf[i]
  PROVE  CapturersOwned'
<1>1. \A u \in Thread : FreesCapturer(u) =>
          /\ cap[u] # capturerOf[i]
          /\ \A w \in Thread \ {u} : FreesCapturer(w) => cap[w] # cap[u]
          /\ \A j \in CaptureId : capturerOf[j] # cap[u]
  BY DEF CapturersOwned
<1>2. /\ \A j \in CaptureId : capturerOf'[j] \in capturers' \cup {None}
      /\ \A j, k \in CaptureId :
            capturerOf'[j] # None /\ capturerOf'[j] = capturerOf'[k] => j = k
      /\ delivering' \subseteq capturers'
  BY DEF CapturersOwned
<1>3. CASE capturerOf[i] = None
  <2>1. \A u \in Thread : FreesCapturer(u)' => FreesCapturer(u) /\ cap'[u] = cap[u]
    BY <1>3
  <2>2. \A u \in Thread : FreesCapturer(u)' =>
          /\ \A w \in Thread \ {u} : FreesCapturer(w)' => cap'[w] # cap'[u]
          /\ \A j \in CaptureId : capturerOf'[j] # cap'[u]
    BY <1>1, <2>1
  <2> QED
    BY <1>2, <2>2 DEF CapturersOwned
<1>4. CASE capturerOf[i] # None
  <2>1. \A j \in CaptureId : capturerOf'[j] # capturerOf[i]
    BY <1>4 DEF CapturersOwned
  <2>2. \A u \in Thread \ {t} : FreesCapturer(u)' => FreesCapturer(u) /\ cap'[u] = cap[u]
    OBVIOUS
  <2>3. \A u \in Thread : FreesCapturer(u)' =>
          /\ \A w \in Thread \ {u} : FreesCapturer(w)' => cap'[w] # cap'[u]
          /\ \A j \in CaptureId : capturerOf'[j] # cap'[u]
    BY <1>1, <1>4, <2>1, <2>2
  <2> QED
    BY <1>2, <2>3 DEF CapturersOwned
<1> QED
  BY <1>3, <1>4

\* The last channel of an encoder hands it to the thread that deletes it.
LEMMA EncodersOwnedStep ==
  ASSUME TypeOK, Arguments, EncPointers, EncodersOwned, [Next]_vars
  PROVE  EncodersOwned'
<1> USE ManagersAssumption DEF TypeOK, Arguments, Encoder, EncPointers, ReadsChannels, FreesEncoder, EncodersOwned, Deleting, encoderVars, captureVars, Go, SetEnc, SetCap
<1>0. CASE UNCHANGED vars
  BY <1>0 DEF vars
<1>1. ASSUME NEW t \in Thread, Start(t) \/ Step(t) PROVE EncodersOwned'
  <2>1. CASE CreateChannel(t)
    <3> DEFINE new == madeEncoders + 1
    <3>1. PICK i \in Channel : /\ encoderOf[i] = None
                              /\ encoderOf' = [encoderOf EXCEPT ![i] = new]
      BY <2>1 DEF CreateChannel
    <3>2. encoders' = encoders \cup {new} /\ UNCHANGED <<pc, enc>>
      BY <2>1 DEF CreateChannel
    <3>3. new \notin encoders /\ new # None /\ None \notin encoders
      BY Numbers
    <3>4. \A j \in Channel : encoderOf'[j] = IF j = i THEN new ELSE encoderOf[j]
      BY <3>1
    <3>5. \A u \in Thread : Deleting(u) => enc[u] \in encoders
      BY DeletedAlive
    <3>6. /\ \A u \in Thread : Deleting(u)' <=> Deleting(u)
          /\ \A u \in Thread : enc'[u] = enc[u]
      BY <3>2
    <3> HIDE DEF new, Deleting, EncodersOwned
    <3> QED
      BY <3>1, <3>2, <3>3, <3>4, <3>5, <3>6, EncodersMade
  <2>2. CASE CreateReceiveChannel(t)
    BY <2>2 DEF CreateReceiveChannel
  <2>3. CASE AllocateCaptureDevice(t)
    BY <2>3 DEF AllocateCaptureDevice
  <2>4. CASE UseChannel(t)
    BY <2>4 DEF UseChannel, Acquire
  <2>5. CASE DeleteChannel(t)
    BY <2>5 DEF DeleteChannel, Call
  <2>6. CASE ConnectCaptureDevice(t)
    BY <2>6 DEF ConnectCaptureDevice, Call
  <2>7. CASE DisconnectCaptureDevice(t)
    BY <2>7 DEF DisconnectCaptureDevice, Call
  <2>8. CASE ReleaseCaptureDevice(t)
    BY <2>8 DEF ReleaseCaptureDevice, Call
  <2>9. CASE EndUse(t)
    BY <2>9 DEF EndUse, Return, ReleaseAll
  <2>10. CASE DeleteLookup(t)
    <3>1. UNCHANGED <<encoderOf, encoders>>
      BY <2>10 DEF DeleteLookup
    <3>2. ASSUME NEW u \in Thread PROVE Deleting(u)' <=> Deleting(u)
      BY <2>10 DEF DeleteLookup, Return
    <3>3. ASSUME NEW u \in Thread, Deleting(u) PROVE enc'[u] = enc[u]
      BY <2>10, <3>3 DEF DeleteLookup, Return
    <3> QED
      BY <3>1, <3>2, <3>3, EncodersKept
  <2>11. CASE DeleteDeregister(t)
    BY <2>11 DEF DeleteDeregister, ReleaseAll
  <2>12. CASE DeleteErase(t)
    <3> DEFINE i == channel[t]
    <3>1. /\ i \in Channel /\ ~Deleting(t) /\ UNCHANGED encoders
          /\ \A j \in Channel : encoderOf'[j] = IF j = i THEN None ELSE encoderOf[j]
      BY <2>12 DEF DeleteErase
    <3>2. None \notin encoders /\ \A u \in Thread : Deleting(u) => enc[u] \in encoders
      BY Numbers, DeletedAlive
    <3>3. ASSUME NEW u \in Thread \ {t} PROVE Deleting(u)' <=> Deleting(u)
      BY <2>12 DEF DeleteErase
    <3>4. ASSUME NEW u \in Thread \ {t} PROVE enc'[u] = enc[u]
      BY <2>12 DEF DeleteErase
    <3>5. encoderOf[i] = None \/ Shared(i) => ~Deleting(t)'
      BY <2>12 DEF DeleteErase
    <3>6. encoderOf[i] # None /\ ~Shared(i) => Deleting(t)' /\ enc'[t] = encoderOf[i]
      BY <2>12 DEF DeleteErase
    <3> HIDE DEF i, Deleting, EncodersOwned
    <3> QED
      BY <3>1, <3>2, <3>3, <3>4, <3>5, <3>6, EncodersTaken
  <2>13. CASE DeleteFree(t)
    BY <2>13 DEF DeleteFree, Return, ReleaseAll
  <2>14. CASE ConnectLookup(t)
    <3>1. UNCHANGED <<encoderOf, encoders>>
      BY <2>14 DEF ConnectLookup
    <3>2. ASSUME NEW u \in Thread PROVE Deleting(u)' <=> Deleting(u)
      BY <2>14 DEF ConnectLookup, Return
    <3>3. ASSUME NEW u \in Thread, Deleting(u) PROVE enc'[u] = enc[u]
      BY <2>14, <3>3 DEF ConnectLookup, Return
    <3> QED
      BY <3>1, <3>2, <3>3, EncodersKept
  <2>15. CASE ConnectCheck(t)
    <3>1. UNCHANGED <<encoderOf, encoders>>
      BY <2>15 DEF ConnectCheck
    <3>2. ASSUME NEW u \in Thread PROVE Deleting(u)' <=> Deleting(u)
      BY <2>15 DEF ConnectCheck, Return
    <3>3. ASSUME NEW u \in Thread, Deleting(u) PROVE enc'[u] = enc[u]
      BY <2>15, <3>3 DEF ConnectCheck, Return
    <3> QED
      BY <3>1, <3>2, <3>3, EncodersKept
  <2>16. CASE ConnectRegister(t)
    BY <2>16 DEF ConnectRegister, Return, ReleaseAll
  <2>17. CASE DisconnectLookup(t)
    <3>1. UNCHANGED <<encoderOf, encoders>>
      BY <2>17 DEF DisconnectLookup
    <3>2. ASSUME NEW u \in Thread PROVE Deleting(u)' <=> Deleting(u)
      BY <2>17 DEF DisconnectLookup, Return
    <3>3. ASSUME NEW u \in Thread, Deleting(u) PROVE enc'[u] = enc[u]
      BY <2>17, <3>3 DEF DisconnectLookup, Return
    <3> QED
      BY <3>1, <3>2, <3>3, EncodersKept
  <2>18. CASE DisconnectDeregister(t)
    BY <2>18 DEF DisconnectDeregister, Return, ReleaseAll
  <2>19. CASE ReleaseLookup(t)
    BY <2>19 DEF ReleaseLookup
  <2>20. CASE ReleaseErase(t)
    <3>1. UNCHANGED <<encoderOf, encoders>>
      BY <2>20 DEF ReleaseErase
    <3>2. ASSUME NEW u \in Thread PROVE Deleting(u)' <=> Deleting(u)
      BY <2>20 DEF ReleaseErase, Return
    <3>3. ASSUME NEW u \in Thread, Deleting(u) PROVE enc'[u] = enc[u]
      BY <2>20, <3>3 DEF ReleaseErase, Return
    <3> QED
      BY <3>1, <3>2, <3>3, EncodersKept
  <2>21. CASE ReleaseFree(t)
    BY <2>21 DEF ReleaseFree, Return, ReleaseAll
  <2> QED
    BY <1>1, <2>1, <2>2, <2>3, <2>4, <2>5, <2>6, <2>7, <2>8, <2>9, <2>10,
       <2>11, <2>12, <2>13, <2>14, <2>15, <2>16, <2>17, <2>18, <2>19,
       <2>20, <2>21 DEF Start, Step
<1>2. ASSUME NEW c \in Capturer, DeliverFrame(c) \/ FrameDelivered(c) PROVE EncodersOwned'
  BY <1>2 DEF DeliverFrame, FrameDelivered
<1> QED
  BY <1>0, <1>1, <1>2 DEF Next

\* A capturer has one id or one deleter.
LEMMA CapturersOwnedStep ==
  ASSUME TypeOK, Arguments, CapPointers, CapturersOwned, [Next]_vars
  PROVE  CapturersOwned'
<1> USE ManagersAssumption DEF TypeOK, Arguments, Capturer, CapPointers, ReadsInput, CapturersOwned, FreesCapturer, encoderVars, captureVars, Go, SetEnc, SetCap
<1>0. CASE UNCHANGED vars
  BY <1>0 DEF vars
<1>1. ASSUME NEW t \in Thread, Start(t) \/ Step(t) PROVE CapturersOwned'
  <2>1. CASE CreateChannel(t)
    BY <2>1 DEF CreateChannel
  <2>2. CASE CreateReceiveChannel(t)
    BY <2>2 DEF CreateReceiveChannel
  <2>3. CASE AllocateCaptureDevice(t)
    BY <2>3 DEF AllocateCaptureDevice
  <2>4. CASE UseChannel(t)
    BY <2>4 DEF UseChannel, Acquire
  <2>5. CASE DeleteChannel(t)
    BY <2>5 DEF DeleteChannel, Call
  <2>6. CASE ConnectCaptureDevice(t)
    BY <2>6 DEF ConnectCaptureDevice, Call
  <2>7. CASE DisconnectCaptureDevice(t)
    BY <2>7 DEF DisconnectCaptureDevice, Call
  <2>8. CASE ReleaseCaptureDevice(t)
    BY <2>8 DEF ReleaseCaptureDevice, Call
  <2>9. CASE EndUse(t)
    BY <2>9 DEF EndUse, Return, ReleaseAll
  <2>10. CASE DeleteLookup(t)
    BY <2>10 DEF DeleteLookup, Return, ReleaseAll, Acquire
  <2>11. CASE DeleteDeregister(t)
    BY <2>11 DEF DeleteDeregister, ReleaseAll
  <2>12. CASE DeleteErase(t)
    BY <2>12 DEF DeleteErase, CanWrite
  <2>13. CASE DeleteFree(t)
    BY <2>13 DEF DeleteFree, Return, ReleaseAll
  <2>14. CASE ConnectLookup(t)
    <3>1. UNCHANGED <<capturerOf, capturers, delivering>>
      BY <2>14 DEF ConnectLookup
    <3>2. ASSUME NEW u \in Thread PROVE FreesCapturer(u)' <=> FreesCapturer(u)
      BY <2>14 DEF ConnectLookup, Return
    <3>3. ASSUME NEW u \in Thread, FreesCapturer(u) PROVE cap'[u] = cap[u]
      BY <2>14, <3>3 DEF ConnectLookup, Return
    <3> QED
      BY <3>1, <3>2, <3>3, CapturersKept
  <2>15. CASE ConnectCheck(t)
    <3>1. UNCHANGED <<capturerOf, capturers, delivering>>
      BY <2>15 DEF ConnectCheck
    <3>2. ASSUME NEW u \in Thread PROVE FreesCapturer(u)' <=> FreesCapturer(u)
      BY <2>15 DEF ConnectCheck, Return
    <3>3. ASSUME NEW u \in Thread, FreesCapturer(u) PROVE cap'[u] = cap[u]
      BY <2>15, <3>3 DEF ConnectCheck, Return
    <3> QED
      BY <3>1, <3>2, <3>3, CapturersKept
  <2>16. CASE ConnectRegister(t)
    BY <2>16 DEF ConnectRegister, Return, ReleaseAll
  <2>17. CASE DisconnectLookup(t)
    BY <2>17 DEF DisconnectLookup, Return, ReleaseAll, Acquire
  <2>18. CASE DisconnectDeregister(t)
    BY <2>18 DEF DisconnectDeregister, Return, ReleaseAll
  <2>19. CASE ReleaseLookup(t)
    BY <2>19 DEF ReleaseLookup
  <2>20. CASE ReleaseErase(t)
    <3> DEFINE i == captureId[t]
    <3>1. /\ i \in CaptureId /\ ~FreesCapturer(t) /\ UNCHANGED <<capturers, delivering>>
          /\ \A j \in CaptureId : capturerOf'[j] = IF j = i THEN None ELSE capturerOf[j]
      BY <2>20 DEF ReleaseErase
    <3>2. \A u \in Thread : FreesCapturer(u) => cap[u] # None
      BY Numbers, FreedAlive
    <3>3. ASSUME NEW u \in Thread \ {t} PROVE FreesCapturer(u)' <=> FreesCapturer(u)
      BY <2>20 DEF ReleaseErase
    <3>4. ASSUME NEW u \in Thread \ {t} PROVE cap'[u] = cap[u]
      BY <2>20 DEF ReleaseErase
    <3>5. capturerOf[i] = None => ~FreesCapturer(t)'
      BY <2>20 DEF ReleaseErase
    <3>6. capturerOf[i] # None => FreesCapturer(t)' /\ cap'[t] = capturerOf[i]
      BY <2>20 DEF ReleaseErase
    <3> HIDE DEF i, FreesCapturer, CapturersOwned
    <3> QED
      BY <3>1, <3>2, <3>3, <3>4, <3>5, <3>6, CapturersTaken
  <2>21. CASE ReleaseFree(t)
    BY <2>21 DEF ReleaseFree, Return, ReleaseAll
  <2> QED
    BY <1>1, <2>1, <2>2, <2>3, <2>4, <2>5, <2>6, <2>7, <2>8, <2>9, <2>10,
       <2>11, <2>12, <2>13, <2>14, <2>15, <2>16, <2>17, <2>18, <2>19,
       <2>20, <2>21 DEF Start, Step
<1>2. ASSUME NEW c \in Capturer, DeliverFrame(c) \/ FrameDelivered(c) PROVE CapturersOwned'
  BY <1>2 DEF DeliverFrame, FrameDelivered
<1> QED
  BY <1>0, <1>1, <1>2 DEF Next

-----------------------------------------------------------------------------
(* The theorems                                                            *)

\* The engine starts with empty maps and all threads outside.
LEMMA InitInv == Init => IInv
<1> SUFFICES ASSUME Init PROVE IInv
  OBVIOUS
<1>1. TypeOK
  BY ManagersAssumption DEF Init, TypeOK, Places
<1>2. Locks /\ Arguments /\ EncPointers /\ CapPointers
  BY DEF Init, Locks, Arguments, EncPointers, CapPointers, ReadsChannels, ReadsInput,
         FreesEncoder, FreesCapturer, Manager
<1>3. EncodersOwned /\ CapturersOwned
  BY DEF Init, EncodersOwned, CapturersOwned, Deleting, FreesCapturer
<1> QED
  BY <1>1, <1>2, <1>3 DEF IInv

\* The invariant holds in every interleaving of any number of threads.
THEOREM Invariance == Spec => []IInv
<1>1. IInv /\ [Next]_vars => IInv'
  BY TypeStep, LocksStep, ArgumentsStep, EncPointersStep, CapPointersStep,
     EncodersOwnedStep, CapturersOwnedStep DEF IInv
<1> QED
  BY <1>1, InitInv, PTL DEF Spec

\* The values stay in their types.
THEOREM TypeCorrect == Spec => []TypeOK
<1>1. IInv => TypeOK
  BY DEF IInv
<1> QED
  BY <1>1, Invariance, PTL

\* No thread has a pointer to an encoder or a capturer that was deleted.
THEOREM PointersSafe == Spec => []PointersAlive
<1>1. IInv => PointersAlive
  BY DEF IInv, PointersAlive, EncPointers, CapPointers, EncodersOwned, CapturersOwned,
         ReadsChannels, ReadsInput, FreesEncoder, FreesCapturer
<1> QED
  BY <1>1, Invariance, PTL

\* Channels that share encoders neither leak them nor delete them twice.
THEOREM EncodersSafe == Spec => []EncodersOwned
<1>1. IInv => EncodersOwned
  BY DEF IInv
<1> QED
  BY <1>1, Invariance, PTL

-----------------------------------------------------------------------------
(* Who waits for whom                                                      *)

\* Where a thread takes a read lock next.  A thread that is still "idle" holds
\* nothing and makes nobody wait.
WantsToRead(t, m) ==
    IF m = "channels"
    THEN pc[t] \in {"delete", "connect.channels", "disconnect"}
    ELSE pc[t] \in {"delete.input", "connect", "disconnect.input", "release"}

\* Thread t gets its lock only after thread u went on.
WaitsFor(t, u) ==
    \E m \in Manager :
        \/ WritersFirst /\ WantsToRead(t, m) /\ pc[u] = Writing(m)
        \/ pc[t] = Writing(m) /\ u \in readers[m]

\* Threads that wait for one another, for ever.
Circle(S) == S # {} /\ \A t \in S : \E u \in S : WaitsFor(t, u)

\* A circle goes through both managers, twice: DeleteChannel or
\* DisconnectCaptureDevice reads the channels and wants the inputs, where a
\* release waits to write, for a ConnectCaptureDevice that reads the inputs and
\* wants the channels, where another DeleteChannel waits to write.
CirclesAreOfFour ==
    \A S \in SUBSET Thread : Circle(S) =>
        /\ WritersFirst
        /\ \E a, b, c, d \in S :
              /\ pc[a] \in {"delete.input", "disconnect.input"}
              /\ pc[b] = "release.write"
              /\ pc[c] = "connect.channels"
              /\ pc[d] = "delete.write"

\* When calls are under way, one of them waits for no other call.
SomebodyGoesOn ==
    (\E t \in Thread : pc[t] # "idle") =>
        \E t \in Thread : pc[t] # "idle" /\ \A u \in Thread : ~WaitsFor(t, u)

\* Who waits takes no step: the waiting is that of the locks.
LEMMA WaitingIsReal ==
  ASSUME TypeOK, NEW t \in Thread, NEW u \in Thread, WaitsFor(t, u)
  PROVE  ~Step(t)
<1> USE DEF TypeOK, WantsToRead, Writing, Manager, CanRead, CanWrite
<1>1. PICK m \in Manager :
        \/ WritersFirst /\ WantsToRead(t, m) /\ pc[u] = Writing(m)
        \/ pc[t] = Writing(m) /\ u \in readers[m]
  BY DEF WaitsFor
<1>2. CASE WritersFirst /\ WantsToRead(t, m) /\ pc[u] = Writing(m)
  <2>1. ~CanRead(m)
    BY <1>2
  <2>2. ~DeleteLookup(t) /\ ~ConnectCheck(t) /\ ~DisconnectLookup(t)
    BY <1>2, <2>1 DEF DeleteLookup, ConnectCheck, DisconnectLookup
  <2>3. ~DeleteDeregister(t) /\ ~ConnectLookup(t) /\ ~DisconnectDeregister(t) /\ ~ReleaseLookup(t)
    BY <1>2, <2>1 DEF DeleteDeregister, ConnectLookup, DisconnectDeregister, ReleaseLookup
  <2>4. /\ ~EndUse(t) /\ ~DeleteErase(t) /\ ~DeleteFree(t) /\ ~ConnectRegister(t)
        /\ ~ReleaseErase(t) /\ ~ReleaseFree(t)
    BY <1>2 DEF EndUse, DeleteErase, DeleteFree, ConnectRegister, ReleaseErase, ReleaseFree
  <2> QED
    BY <2>2, <2>3, <2>4 DEF Step
<1>3. CASE pc[t] = Writing(m) /\ u \in readers[m]
  <2>1. ~DeleteErase(t) /\ ~ReleaseErase(t)
    BY <1>3 DEF DeleteErase, ReleaseErase
  <2>2. /\ ~EndUse(t) /\ ~DeleteLookup(t) /\ ~DeleteDeregister(t) /\ ~DeleteFree(t)
        /\ ~ConnectLookup(t) /\ ~ConnectCheck(t) /\ ~ConnectRegister(t)
        /\ ~DisconnectLookup(t) /\ ~DisconnectDeregister(t)
        /\ ~ReleaseLookup(t) /\ ~ReleaseFree(t)
    BY <1>3 DEF EndUse, DeleteLookup, DeleteDeregister, DeleteFree, ConnectLookup,
                ConnectCheck, ConnectRegister, DisconnectLookup, DisconnectDeregister,
                ReleaseLookup, ReleaseFree
  <2> QED
    BY <2>1, <2>2 DEF Step
<1> QED
  BY <1>1, <1>2, <1>3

\* A thread in a circle, by what it waits for.
LEMMA ReaderWaitsForWriter ==
  ASSUME NEW S \in SUBSET Thread, NEW m \in Manager, NEW t \in S,
         \E u \in S : WaitsFor(t, u), WantsToRead(t, m)
  PROVE  WritersFirst /\ \E u \in S : pc[u] = Writing(m)
BY DEF WaitsFor, WantsToRead, Writing, Manager

\* A writer in a circle waits for a reader in it.
LEMMA WriterWaitsForReader ==
  ASSUME NEW S \in SUBSET Thread, NEW m \in Manager, NEW t \in S,
         \E u \in S : WaitsFor(t, u), pc[t] = Writing(m)
  PROVE  \E u \in S : u \in readers[m]
BY DEF WaitsFor, WantsToRead, Writing, Manager

\* Who is in a circle wants a lock.
LEMMA InCircleWants ==
  ASSUME NEW t \in Thread, NEW u \in Thread, WaitsFor(t, u)
  PROVE  \E m \in Manager : WantsToRead(t, m) \/ pc[t] = Writing(m)
BY DEF WaitsFor

\* From a waiting writer of the channels the circle goes all the way round.
LEMMA RoundFromChannels ==
  ASSUME Locks, NEW S \in SUBSET Thread, Circle(S),
         NEW d \in S, pc[d] = "delete.write"
  PROVE  /\ WritersFirst
         /\ \E a, b \in S : /\ pc[a] \in {"delete.input", "disconnect.input"}
                            /\ pc[b] = "release.write"
<1>1. PICK a \in S : a \in readers["channels"]
  BY WriterWaitsForReader DEF Circle, Writing, Manager
<1>2. pc[a] \in {"use", "delete.input", "connect.register", "disconnect.input"}
  BY <1>1 DEF Locks, ReadsChannels
<1>3. PICK m \in Manager : WantsToRead(a, m) \/ pc[a] = Writing(m)
  BY InCircleWants DEF Circle
<1>4. pc[a] \in {"delete.input", "disconnect.input"} /\ WantsToRead(a, "input")
  BY <1>2, <1>3 DEF WantsToRead, Writing, Manager
<1>5. WritersFirst /\ \E b \in S : pc[b] = Writing("input")
  BY <1>4, ReaderWaitsForWriter DEF Circle, Manager
<1> QED
  BY <1>4, <1>5 DEF Writing

\* From a release that waits, the circle leads to a connect and a delete.
LEMMA RoundFromInput ==
  ASSUME Locks, NEW S \in SUBSET Thread, Circle(S),
         NEW b \in S, pc[b] = "release.write"
  PROVE  /\ WritersFirst
         /\ \E c, d \in S : pc[c] = "connect.channels" /\ pc[d] = "delete.write"
<1>1. PICK c \in S : c \in readers["input"]
  BY WriterWaitsForReader DEF Circle, Writing, Manager
<1>2. pc[c] \in {"connect.channels", "connect.register"}
  BY <1>1 DEF Locks, ReadsInput
<1>3. PICK m \in Manager : WantsToRead(c, m) \/ pc[c] = Writing(m)
  BY InCircleWants DEF Circle
<1>4. pc[c] = "connect.channels" /\ WantsToRead(c, "channels")
  BY <1>2, <1>3 DEF WantsToRead, Writing, Manager
<1>5. WritersFirst /\ \E d \in S : pc[d] = Writing("channels")
  BY <1>4, ReaderWaitsForWriter DEF Circle, Manager
<1> QED
  BY <1>4, <1>5 DEF Writing

\* So every circle has the four.
LEMMA CircleIsOfFour == ASSUME Locks PROVE CirclesAreOfFour
<1> SUFFICES ASSUME NEW S \in SUBSET Thread, Circle(S)
             PROVE  /\ WritersFirst
                    /\ \E a, b, c, d \in S :
                          /\ pc[a] \in {"delete.input", "disconnect.input"}
                          /\ pc[b] = "release.write"
                          /\ pc[c] = "connect.channels"
                          /\ pc[d] = "delete.write"
  BY DEF CirclesAreOfFour
<1>1. PICK t \in S : TRUE
  BY DEF Circle
<1>2. PICK m \in Manager : WantsToRead(t, m) \/ pc[t] = Writing(m)
  BY InCircleWants DEF Circle
<1>3. \E w \in S : pc[w] = Writing(m)
  BY <1>2, ReaderWaitsForWriter DEF Circle
<1>4. PICK w \in S : pc[w] \in {"delete.write", "release.write"}
  BY <1>3 DEF Writing
<1>5. CASE pc[w] = "delete.write"
  <2>1. PICK a, b \in S : pc[a] \in {"delete.input", "disconnect.input"} /\ pc[b] = "release.write"
    BY <1>5, RoundFromChannels
  <2>2. WritersFirst /\ \E c, d \in S : pc[c] = "connect.channels" /\ pc[d] = "delete.write"
    BY <2>1, RoundFromInput
  <2> QED
    BY <2>1, <2>2
<1>6. CASE pc[w] = "release.write"
  <2>1. PICK c, d \in S : pc[c] = "connect.channels" /\ pc[d] = "delete.write"
    BY <1>6, RoundFromInput
  <2>2. /\ WritersFirst
        /\ \E a, b \in S : pc[a] \in {"delete.input", "disconnect.input"} /\ pc[b] = "release.write"
    BY <2>1, RoundFromChannels
  <2> QED
    BY <2>1, <2>2
<1> QED
  BY <1>4, <1>5, <1>6

\* Calls that wait for one another are four at least, in these places, and only
\* where waiting writers keep readers out, as those of rw_lock_generic.cc do: the
\* two managers, which are locked in either order, need four threads to deadlock.
THEOREM DeadlockNeedsFour == Spec => []CirclesAreOfFour
<1>1. IInv => CirclesAreOfFour
  BY CircleIsOfFour DEF IInv
<1> QED
  BY <1>1, Invariance, PTL

\* The calls under way are no circle: one of them is not kept waiting.
LEMMA NoCircleNoWait ==
  ASSUME Locks, \A S \in SUBSET Thread : ~Circle(S)
  PROVE  SomebodyGoesOn
<1> DEFINE Busy == {t \in Thread : pc[t] # "idle"}
<1> SUFFICES ASSUME Busy # {},
                    \A t \in Busy : \E u \in Thread : WaitsFor(t, u)
             PROVE  FALSE
  BY DEF SomebodyGoesOn
<1>1. ASSUME NEW t \in Busy, NEW u \in Thread, WaitsFor(t, u) PROVE u \in Busy
  BY <1>1 DEF WaitsFor, Writing, Manager, Locks, ReadsChannels, ReadsInput
<1>2. Circle(Busy)
  BY <1>1 DEF Circle
<1> QED
  BY <1>2

\* With up to three threads, or when readers pass waiting writers, there is
\* always a call that no other call keeps waiting.
THEOREM ThreeThreadsGoOn ==
  ASSUME NEW x, NEW y, NEW z, Thread \subseteq {x, y, z} \/ ~WritersFirst
  PROVE  Spec => []SomebodyGoesOn
<1>1. IInv => SomebodyGoesOn
  <2> SUFFICES ASSUME IInv PROVE SomebodyGoesOn
    OBVIOUS
  <2>1. Locks /\ CirclesAreOfFour
    BY CircleIsOfFour DEF IInv
  <2>2. ASSUME NEW S \in SUBSET Thread, Circle(S) PROVE FALSE
    BY <2>1, <2>2 DEF CirclesAreOfFour
  <2> QED
    BY <2>1, <2>2, NoCircleNoWait
<1> QED
  BY <1>1, Invariance, PTL

-----------------------------------------------------------------------------
(* The locks keep the promise of counted owners                            *)

\* An encoder is owned by the channels it is in the map for, and by the calls
\* that read the map and have it.
EncoderPlaces == ({"map"} \X Channel) \cup ({"call"} \X Thread)
EncoderOwners ==
    {<<<<"map", i>>, encoderOf[i]>> : i \in {j \in Channel : encoderOf[j] # None}}
    \cup {<<<<"call", t>>, enc[t]>> : t \in {u \in Thread : ReadsChannels(u)}}

EncoderLife == INSTANCE ObjectLifetime WITH
    Place <- EncoderPlaces, Object <- Encoder, made <- 1 .. madeEncoders,
    alive <- encoders, owners <- EncoderOwners

\* A capturer is owned by its capture id and by the calls that read the inputs.
CapturerPlaces == ({"map"} \X CaptureId) \cup ({"call"} \X Thread)
CapturerOwners ==
    {<<<<"map", i>>, capturerOf[i]>> : i \in {j \in CaptureId : capturerOf[j] # None}}
    \cup {<<<<"call", t>>, cap[t]>> : t \in {u \in Thread : ReadsInput(u)}}

CapturerLife == INSTANCE ObjectLifetime WITH
    Place <- CapturerPlaces, Object <- Capturer, made <- 1 .. madeCapturers,
    alive <- capturers, owners <- CapturerOwners

\* What a call may reach is in the map: the locks let nobody keep more.
LEMMA EncoderOwnersInMap ==
  ASSUME TypeOK, EncPointers
  PROVE  /\ EncoderOwners \subseteq EncoderPlaces \X Encoder
         /\ EncoderLife!Owned(EncoderOwners) = {encoderOf[i] : i \in Channel} \ {None}
<1>1. None \notin Encoder
  BY ManagersAssumption DEF Encoder
<1>2. ASSUME NEW t \in Thread, ReadsChannels(t)
      PROVE  enc[t] \in Encoder /\ \E i \in Channel : encoderOf[i] = enc[t]
  BY <1>2 DEF EncPointers, TypeOK
<1>3. \A i \in Channel : encoderOf[i] \in Encoder \cup {None}
  BY DEF TypeOK
<1>4. EncoderOwners \subseteq EncoderPlaces \X Encoder
  BY <1>2, <1>3 DEF EncoderOwners, EncoderPlaces
<1>5. ASSUME NEW e \in EncoderLife!Owned(EncoderOwners)
      PROVE  e \in {encoderOf[i] : i \in Channel} \ {None}
  <2>1. PICK o \in EncoderOwners : o[2] = e
    BY DEF EncoderLife!Owned
  <2> QED
    BY <1>1, <1>2, <1>3, <2>1 DEF EncoderOwners
<1>6. ASSUME NEW i \in Channel, encoderOf[i] # None
      PROVE  encoderOf[i] \in EncoderLife!Owned(EncoderOwners)
  <2>1. <<<<"map", i>>, encoderOf[i]>> \in EncoderOwners /\ <<"map", i>> \in EncoderPlaces
    BY <1>6 DEF EncoderOwners, EncoderPlaces
  <2> QED
    BY <1>3, <1>6, <2>1 DEF EncoderLife!Owned
<1> QED
  BY <1>4, <1>5, <1>6

\* Every capturer with an owner is in the provider map.
LEMMA CapturerOwnersInMap ==
  ASSUME TypeOK, CapPointers
  PROVE  /\ CapturerOwners \subseteq CapturerPlaces \X Capturer
         /\ CapturerLife!Owned(CapturerOwners) = {capturerOf[i] : i \in CaptureId} \ {None}
<1>1. None \notin Capturer
  BY ManagersAssumption DEF Capturer
<1>2. ASSUME NEW t \in Thread, ReadsInput(t)
      PROVE  cap[t] \in Capturer /\ \E i \in CaptureId : capturerOf[i] = cap[t]
  BY <1>2 DEF CapPointers, TypeOK
<1>3. \A i \in CaptureId : capturerOf[i] \in Capturer \cup {None}
  BY DEF TypeOK
<1>4. CapturerOwners \subseteq CapturerPlaces \X Capturer
  BY <1>2, <1>3 DEF CapturerOwners, CapturerPlaces
<1>5. ASSUME NEW c \in CapturerLife!Owned(CapturerOwners)
      PROVE  c \in {capturerOf[i] : i \in CaptureId} \ {None}
  <2>1. PICK o \in CapturerOwners : o[2] = c
    BY DEF CapturerLife!Owned
  <2> QED
    BY <1>1, <1>2, <1>3, <2>1 DEF CapturerOwners
<1>6. ASSUME NEW i \in CaptureId, capturerOf[i] # None
      PROVE  capturerOf[i] \in CapturerLife!Owned(CapturerOwners)
  <2>1. /\ <<<<"map", i>>, capturerOf[i]>> \in CapturerOwners
        /\ <<"map", i>> \in CapturerPlaces
    BY <1>6 DEF CapturerOwners, CapturerPlaces
  <2> QED
    BY <1>3, <1>6, <2>1 DEF CapturerLife!Owned
<1> QED
  BY <1>4, <1>5, <1>6

\* Primed: they hold in the next state as well.
LEMMA EncoderOwnersInMapNext ==
  TypeOK' /\ EncPointers' =>
    /\ (EncoderOwners \subseteq EncoderPlaces \X Encoder)'
    /\ (EncoderLife!Owned(EncoderOwners) = {encoderOf[i] : i \in Channel} \ {None})'
<1>1. TypeOK /\ EncPointers =>
        /\ EncoderOwners \subseteq EncoderPlaces \X Encoder
        /\ EncoderLife!Owned(EncoderOwners) = {encoderOf[i] : i \in Channel} \ {None}
  BY EncoderOwnersInMap
<1> QED
  BY <1>1, PTL

\* The same after a step.
LEMMA CapturerOwnersInMapNext ==
  TypeOK' /\ CapPointers' =>
    /\ (CapturerOwners \subseteq CapturerPlaces \X Capturer)'
    /\ (CapturerLife!Owned(CapturerOwners) = {capturerOf[i] : i \in CaptureId} \ {None})'
<1>1. TypeOK /\ CapPointers =>
        /\ CapturerOwners \subseteq CapturerPlaces \X Capturer
        /\ CapturerLife!Owned(CapturerOwners) = {capturerOf[i] : i \in CaptureId} \ {None}
  BY CapturerOwnersInMap
<1> QED
  BY <1>1, PTL

\* Steps that put no new encoder into the map only share or give up owners.
LEMMA EncodersShared ==
  ASSUME IInv, TypeOK', EncPointers', UNCHANGED <<madeEncoders, encoders>>,
         \A i \in Channel : encoderOf'[i] = None \/ \E j \in Channel : encoderOf'[i] = encoderOf[j]
  PROVE  EncoderLife!Share
<1>1. EncoderLife!Owned(EncoderOwners) = {encoderOf[i] : i \in Channel} \ {None}
  BY EncoderOwnersInMap DEF IInv
<1>2. /\ (EncoderOwners \subseteq EncoderPlaces \X Encoder)'
      /\ (EncoderLife!Owned(EncoderOwners) = {encoderOf[i] : i \in Channel} \ {None})'
  BY EncoderOwnersInMapNext
<1>3. EncoderLife!Owned(EncoderOwners') = {encoderOf'[i] : i \in Channel} \ {None}
  BY <1>2 DEF EncoderLife!Owned
<1> QED
  BY <1>1, <1>2, <1>3 DEF EncoderLife!Share, EncoderPlaces

\* A step that makes and deletes none, and at most takes out of the map, shares.
LEMMA CapturersShared ==
  ASSUME IInv, TypeOK', CapPointers', UNCHANGED <<madeCapturers, capturers>>,
         \A i \in CaptureId : capturerOf'[i] \in {None, capturerOf[i]}
  PROVE  CapturerLife!Share
<1>1. CapturerLife!Owned(CapturerOwners) = {capturerOf[i] : i \in CaptureId} \ {None}
  BY CapturerOwnersInMap DEF IInv
<1>2. /\ (CapturerOwners \subseteq CapturerPlaces \X Capturer)'
      /\ (CapturerLife!Owned(CapturerOwners) = {capturerOf[i] : i \in CaptureId} \ {None})'
  BY CapturerOwnersInMapNext
<1>3. CapturerLife!Owned(CapturerOwners') = {capturerOf'[i] : i \in CaptureId} \ {None}
  BY <1>2 DEF CapturerLife!Owned
<1> QED
  BY <1>1, <1>2, <1>3 DEF CapturerLife!Share, CapturerPlaces

\* CreateChannel makes an encoder, with the map as its owner.
LEMMA CreateMakes ==
  ASSUME IInv, NEW t \in Thread, CreateChannel(t)
  PROVE  \E i \in Channel : EncoderLife!Make(<<"map", i>>, madeEncoders + 1)
<1> DEFINE new == madeEncoders + 1
<1>1. madeEncoders \in Nat /\ new # None
  BY Numbers, ManagersAssumption DEF IInv, TypeOK
<1>2. PICK i \in Channel : encoderOf[i] = None /\ encoderOf' = [encoderOf EXCEPT ![i] = new]
  BY DEF CreateChannel
<1>3. madeEncoders' = new /\ encoders' = encoders \cup {new} /\ UNCHANGED <<pc, enc>>
  BY DEF CreateChannel
<1>4. new \notin 1 .. madeEncoders /\ 1 .. madeEncoders' = (1 .. madeEncoders) \cup {new}
  BY <1>1, <1>3
<1>5. \A j \in Channel : encoderOf'[j] = IF j = i THEN new ELSE encoderOf[j]
  BY <1>2 DEF IInv, TypeOK
<1>6. EncoderOwners' = EncoderOwners \cup {<<<<"map", i>>, new>>}
  <2> HIDE DEF new
  <2>1. {j \in Channel : encoderOf'[j] # None} = {j \in Channel : encoderOf[j] # None} \cup {i}
    BY <1>1, <1>5
  <2>2. {<<<<"map", j>>, encoderOf'[j]>> : j \in {k \in Channel : encoderOf'[k] # None}}
        = {<<<<"map", j>>, encoderOf[j]>> : j \in {k \in Channel : encoderOf[k] # None}}
          \cup {<<<<"map", i>>, new>>}
    BY <1>2, <1>5, <2>1
  <2>3. {<<<<"call", u>>, enc[u]>> : u \in {w \in Thread : ReadsChannels(w)}}'
        = {<<<<"call", u>>, enc[u]>> : u \in {w \in Thread : ReadsChannels(w)}}
    BY <1>3 DEF ReadsChannels
  <2> QED
    BY <2>2, <2>3 DEF EncoderOwners
<1> QED
  BY <1>3, <1>4, <1>6 DEF EncoderLife!Make

\* AllocateCaptureDevice makes a capturer, with the map as its owner.
LEMMA AllocateMakes ==
  ASSUME IInv, NEW t \in Thread, AllocateCaptureDevice(t)
  PROVE  \E i \in CaptureId : CapturerLife!Make(<<"map", i>>, madeCapturers + 1)
<1> DEFINE new == madeCapturers + 1
<1>1. madeCapturers \in Nat /\ new # None
  BY ManagersAssumption DEF IInv, TypeOK
<1>2. PICK i \in CaptureId : capturerOf[i] = None /\ capturerOf' = [capturerOf EXCEPT ![i] = new]
  BY DEF AllocateCaptureDevice
<1>3. madeCapturers' = new /\ capturers' = capturers \cup {new} /\ UNCHANGED <<pc, cap>>
  BY DEF AllocateCaptureDevice
<1>4. new \notin 1 .. madeCapturers /\ 1 .. madeCapturers' = (1 .. madeCapturers) \cup {new}
  BY <1>1, <1>3
<1>5. \A j \in CaptureId : capturerOf'[j] = IF j = i THEN new ELSE capturerOf[j]
  BY <1>2 DEF IInv, TypeOK
<1>6. CapturerOwners' = CapturerOwners \cup {<<<<"map", i>>, new>>}
  <2> HIDE DEF new
  <2>1. {j \in CaptureId : capturerOf'[j] # None}
        = {j \in CaptureId : capturerOf[j] # None} \cup {i}
    BY <1>1, <1>5
  <2>2. {<<<<"map", j>>, capturerOf'[j]>> : j \in {k \in CaptureId : capturerOf'[k] # None}}
        = {<<<<"map", j>>, capturerOf[j]>> : j \in {k \in CaptureId : capturerOf[k] # None}}
          \cup {<<<<"map", i>>, new>>}
    BY <1>2, <1>5, <2>1
  <2>3. {<<<<"call", u>>, cap[u]>> : u \in {w \in Thread : ReadsInput(w)}}'
        = {<<<<"call", u>>, cap[u]>> : u \in {w \in Thread : ReadsInput(w)}}
    BY <1>3 DEF ReadsInput
  <2> QED
    BY <2>2, <2>3 DEF CapturerOwners
<1> QED
  BY <1>3, <1>4, <1>6 DEF CapturerLife!Make

\* DeleteChannel deletes an encoder that has no owner left.
LEMMA DeleteFrees ==
  ASSUME IInv, NEW t \in Thread, DeleteFree(t)
  PROVE  EncoderLife!Delete(enc[t])
<1>1. pc[t] = "delete.free" /\ encoders' = encoders \ {enc[t]}
      /\ UNCHANGED <<encoderOf, madeEncoders>>
  BY DEF DeleteFree
<1>2. /\ \A u \in Thread : u # t => pc'[u] = pc[u] /\ enc'[u] = enc[u]
      /\ pc'[t] = "idle"
  BY DEF DeleteFree, Return, Go, SetEnc, IInv, TypeOK
<1>3. enc[t] \in encoders /\ \A i \in Channel : encoderOf[i] # enc[t]
  BY <1>1 DEF IInv, EncPointers, FreesEncoder, EncodersOwned, Deleting
<1>4. enc[t] \notin EncoderLife!Owned(EncoderOwners)
  BY <1>3, EncoderOwnersInMap DEF IInv
<1>5. \A u \in Thread : /\ ReadsChannels(u)' <=> ReadsChannels(u)
                        /\ ReadsChannels(u) => enc'[u] = enc[u]
  BY <1>1, <1>2 DEF ReadsChannels
<1>6. UNCHANGED EncoderOwners
  BY <1>1, <1>5 DEF EncoderOwners
<1> QED
  BY <1>1, <1>3, <1>4, <1>6 DEF EncoderLife!Delete

\* DestroyCaptureDevice deletes a capturer that has no owner left.
LEMMA ReleaseFrees ==
  ASSUME IInv, NEW t \in Thread, ReleaseFree(t)
  PROVE  CapturerLife!Delete(cap[t])
<1>1. pc[t] = "release.free" /\ capturers' = capturers \ {cap[t]}
      /\ UNCHANGED <<capturerOf, madeCapturers>>
  BY DEF ReleaseFree
<1>2. /\ \A u \in Thread : u # t => pc'[u] = pc[u] /\ cap'[u] = cap[u]
      /\ pc'[t] = "idle"
  BY DEF ReleaseFree, Return, Go, SetCap, IInv, TypeOK
<1>3. cap[t] \in capturers /\ \A i \in CaptureId : capturerOf[i] # cap[t]
  BY <1>1 DEF IInv, CapPointers, FreesCapturer, CapturersOwned
<1>4. cap[t] \notin CapturerLife!Owned(CapturerOwners)
  BY <1>3, CapturerOwnersInMap DEF IInv
<1>5. \A u \in Thread : /\ ReadsInput(u)' <=> ReadsInput(u)
                        /\ ReadsInput(u) => cap'[u] = cap[u]
  BY <1>1, <1>2 DEF ReadsInput
<1>6. UNCHANGED CapturerOwners
  BY <1>1, <1>5 DEF CapturerOwners
<1> QED
  BY <1>1, <1>3, <1>4, <1>6 DEF CapturerLife!Delete

\* Each step makes an encoder, deletes one, or shares owners.
LEMMA EncoderStep ==
  ASSUME IInv, IInv', [Next]_vars
  PROVE  EncoderLife!Next \/ UNCHANGED EncoderLife!lifetimeVars
<1> USE DEF encoderVars, captureVars
<1>1. ASSUME UNCHANGED <<encoderOf, madeEncoders, encoders>>
      PROVE  EncoderLife!Next
  BY <1>1, EncodersShared DEF EncoderLife!Next, IInv
<1>2. CASE UNCHANGED vars
  BY <1>1, <1>2 DEF vars
<1>3. ASSUME NEW t \in Thread, Start(t) \/ Step(t) PROVE EncoderLife!Next
  <2>1. CASE CreateChannel(t)
    <3>1. PICK i \in Channel : EncoderLife!Make(<<"map", i>>, madeEncoders + 1)
      BY <2>1, CreateMakes
    <3>2. <<"map", i>> \in EncoderPlaces
      BY DEF EncoderPlaces
    <3>3. madeEncoders + 1 \in Encoder
      BY <2>1, ManagersAssumption DEF CreateChannel, Encoder, IInv, TypeOK
    <3> QED
      BY <3>1, <3>2, <3>3 DEF EncoderLife!Next
  <2>2. CASE CreateReceiveChannel(t)
    <3>1. PICK i \in Channel, original \in Channel :
            encoderOf' = [encoderOf EXCEPT ![i] = encoderOf[original]]
      BY <2>2 DEF CreateReceiveChannel
    <3>2. \A j \in Channel : encoderOf'[j] = IF j = i THEN encoderOf[original] ELSE encoderOf[j]
      BY <3>1 DEF IInv, TypeOK
    <3> QED
      BY <2>2, <3>2, EncodersShared DEF CreateReceiveChannel, EncoderLife!Next, IInv
  <2>3. CASE DeleteErase(t)
    <3>1. \A j \in Channel : encoderOf'[j] \in {None, encoderOf[j]}
      BY <2>3 DEF DeleteErase, IInv, TypeOK
    <3> QED
      BY <2>3, <3>1, EncodersShared DEF DeleteErase, EncoderLife!Next, IInv
  <2>4. CASE DeleteFree(t)
    <3>1. enc[t] \in Encoder
      BY <2>4, Numbers DEF DeleteFree, IInv, TypeOK, EncPointers, FreesEncoder
    <3> QED
      BY <2>4, <3>1, DeleteFrees DEF EncoderLife!Next
  <2>5. CASE \/ AllocateCaptureDevice(t) \/ UseChannel(t) \/ DeleteChannel(t)
             \/ ConnectCaptureDevice(t) \/ DisconnectCaptureDevice(t)
             \/ ReleaseCaptureDevice(t) \/ EndUse(t)
    BY <1>1, <2>5 DEF AllocateCaptureDevice, UseChannel, DeleteChannel, ConnectCaptureDevice,
                      DisconnectCaptureDevice, ReleaseCaptureDevice, Call, EndUse
  <2>6. CASE \/ DeleteLookup(t) \/ DeleteDeregister(t) \/ ConnectLookup(t) \/ ConnectCheck(t)
             \/ ConnectRegister(t) \/ DisconnectLookup(t) \/ DisconnectDeregister(t)
             \/ ReleaseLookup(t) \/ ReleaseErase(t) \/ ReleaseFree(t)
    BY <1>1, <2>6 DEF DeleteLookup, DeleteDeregister, ConnectLookup, ConnectCheck,
                      ConnectRegister, DisconnectLookup, DisconnectDeregister,
                      ReleaseLookup, ReleaseErase, ReleaseFree
  <2> QED
    BY <1>3, <2>1, <2>2, <2>3, <2>4, <2>5, <2>6 DEF Start, Step
<1>4. ASSUME NEW c \in Capturer, DeliverFrame(c) \/ FrameDelivered(c) PROVE EncoderLife!Next
  BY <1>1, <1>4 DEF DeliverFrame, FrameDelivered
<1> QED
  BY <1>2, <1>3, <1>4 DEF Next

\* Every step is one of the capturers' lifetime.
LEMMA CapturerStep ==
  ASSUME IInv, IInv', [Next]_vars
  PROVE  CapturerLife!Next \/ UNCHANGED CapturerLife!lifetimeVars
<1> USE DEF encoderVars, captureVars
<1>1. ASSUME UNCHANGED <<capturerOf, madeCapturers, capturers>>
      PROVE  CapturerLife!Next
  BY <1>1, CapturersShared DEF CapturerLife!Next, IInv
<1>2. CASE UNCHANGED vars
  BY <1>1, <1>2 DEF vars
<1>3. ASSUME NEW t \in Thread, Start(t) \/ Step(t) PROVE CapturerLife!Next
  <2>1. CASE AllocateCaptureDevice(t)
    <3>1. PICK i \in CaptureId : CapturerLife!Make(<<"map", i>>, madeCapturers + 1)
      BY <2>1, AllocateMakes
    <3>2. <<"map", i>> \in CapturerPlaces
      BY DEF CapturerPlaces
    <3>3. madeCapturers + 1 \in Capturer
      BY <2>1, ManagersAssumption DEF AllocateCaptureDevice, Capturer, IInv, TypeOK
    <3> QED
      BY <3>1, <3>2, <3>3 DEF CapturerLife!Next
  <2>2. CASE ReleaseErase(t)
    <3>1. \A j \in CaptureId : capturerOf'[j] \in {None, capturerOf[j]}
      BY <2>2 DEF ReleaseErase, IInv, TypeOK
    <3> QED
      BY <2>2, <3>1, CapturersShared DEF ReleaseErase, CapturerLife!Next, IInv
  <2>3. CASE ReleaseFree(t)
    <3>1. cap[t] \in Capturer
      BY <2>3, Numbers DEF ReleaseFree, IInv, TypeOK, CapPointers, FreesCapturer
    <3> QED
      BY <2>3, <3>1, ReleaseFrees DEF CapturerLife!Next
  <2>4. CASE \/ CreateChannel(t) \/ CreateReceiveChannel(t) \/ UseChannel(t)
             \/ DeleteChannel(t) \/ ConnectCaptureDevice(t) \/ DisconnectCaptureDevice(t)
             \/ ReleaseCaptureDevice(t) \/ EndUse(t)
    BY <1>1, <2>4 DEF CreateChannel, CreateReceiveChannel, UseChannel, DeleteChannel,
                      ConnectCaptureDevice, DisconnectCaptureDevice, ReleaseCaptureDevice,
                      Call, EndUse
  <2>5. CASE \/ DeleteLookup(t) \/ DeleteDeregister(t) \/ DeleteErase(t) \/ DeleteFree(t)
             \/ ConnectLookup(t) \/ ConnectCheck(t) \/ ConnectRegister(t)
             \/ DisconnectLookup(t) \/ DisconnectDeregister(t) \/ ReleaseLookup(t)
    BY <1>1, <2>5 DEF DeleteLookup, DeleteDeregister, DeleteErase, DeleteFree, ConnectLookup,
                      ConnectCheck, ConnectRegister, DisconnectLookup, DisconnectDeregister,
                      ReleaseLookup
  <2> QED
    BY <1>3, <2>1, <2>2, <2>3, <2>4, <2>5 DEF Start, Step
<1>4. ASSUME NEW c \in Capturer, DeliverFrame(c) \/ FrameDelivered(c) PROVE CapturerLife!Next
  BY <1>1, <1>4 DEF DeliverFrame, FrameDelivered
<1> QED
  BY <1>2, <1>3, <1>4 DEF Next

\* The read-write lock of ViEChannelManager keeps for encoders what ChannelOwner
\* keeps for voice channels with a counter: made once, reached through the map
\* and the calls that read it only, deleted when neither has it.
THEOREM EncodersRefinement ==
  Spec => EncoderLife!Init /\ [][EncoderLife!Next]_(EncoderLife!lifetimeVars)
<1>1. Init => EncoderLife!Init
  <2> SUFFICES ASSUME Init PROVE EncoderLife!Init
    OBVIOUS
  <2>1. EncoderOwners = {}
    BY DEF Init, EncoderOwners, ReadsChannels
  <2> QED
    BY <2>1 DEF Init, EncoderLife!Init
<1>2. IInv /\ IInv' /\ [Next]_vars => EncoderLife!Next \/ UNCHANGED EncoderLife!lifetimeVars
  BY EncoderStep
<1> QED
  BY <1>1, <1>2, Invariance, PTL DEF Spec

\* And so does the lock of ViEInputManager for capturers.
THEOREM CapturersRefinement ==
  Spec => CapturerLife!Init /\ [][CapturerLife!Next]_(CapturerLife!lifetimeVars)
<1>1. Init => CapturerLife!Init
  <2> SUFFICES ASSUME Init PROVE CapturerLife!Init
    OBVIOUS
  <2>1. CapturerOwners = {}
    BY DEF Init, CapturerOwners, ReadsInput
  <2> QED
    BY <2>1 DEF Init, CapturerLife!Init
<1>2. IInv /\ IInv' /\ [Next]_vars => CapturerLife!Next \/ UNCHANGED CapturerLife!lifetimeVars
  BY CapturerStep
<1> QED
  BY <1>1, <1>2, Invariance, PTL DEF Spec

-----------------------------------------------------------------------------
(* With one thread that calls the API: what the capture threads call       *)

\* No provider feeds encoder e.
Unfed(e) == \A c \in Capturer : e \notin callbacks[c]

FedAlive == \A c \in Capturer : callbacks[c] \subseteq encoders

FedOnce ==
    \A c, d \in Capturer : c # d => callbacks[c] \cap callbacks[d] = {}

\* A capturer that has callbacks is in the map, where Deregister and ConnectCheck
\* find it, or about to be freed by the thread.
FedByOwned(t) ==
    \A c \in Capturer : callbacks[c] # {} =>
        (\E i \in CaptureId : capturerOf[i] = c) \/ (FreesCapturer(t) /\ cap[t] = c)

\* An encoder that is going to be deleted or registered has no provider.
FedNever(t) ==
    /\ pc[t] = "delete.input" => enc[t] = encoderOf[channel[t]]
    /\ pc[t] = "delete.write" /\ ~Shared(channel[t]) => Unfed(encoderOf[channel[t]])
    /\ pc[t] \in {"delete.free", "connect.register"} => Unfed(enc[t])

Alone(t) == FedAlive /\ FedOnce /\ FedByOwned(t) /\ FedNever(t)

\* Callbacks only go, and neither encoders nor capturers do.
LEMMA FedKept ==
  ASSUME NEW t \in Thread, FedAlive, FedOnce, FedByOwned(t),
         encoders \subseteq encoders',
         \A c \in Capturer : callbacks'[c] \subseteq callbacks[c],
         \A i \in CaptureId : capturerOf[i] # None => capturerOf'[i] = capturerOf[i],
         None \notin Capturer,
         FreesCapturer(t) => FreesCapturer(t)' /\ cap'[t] = cap[t]
  PROVE  FedAlive' /\ FedOnce' /\ FedByOwned(t)'
<1>1. FedAlive' /\ FedOnce'
  BY DEF FedAlive, FedOnce
<1>2. ASSUME NEW c \in Capturer, callbacks'[c] # {}
      PROVE  (\E i \in CaptureId : capturerOf'[i] = c) \/ (FreesCapturer(t)' /\ cap'[t] = c)
  BY <1>2 DEF FedByOwned
<1> QED
  BY <1>1, <1>2 DEF FedByOwned

\* Deregister leaves no provider: there was one at most, and it is in the map.
LEMMA Deregistered ==
  ASSUME TypeOK, NEW t \in Thread, FedOnce, FedByOwned(t), ~FreesCapturer(t), Deregister(t),
         None \notin Capturer
  PROVE  /\ \A c \in Capturer : callbacks'[c] \subseteq callbacks[c]
         /\ \A c \in Capturer : enc[t] \notin callbacks'[c]
<1>1. \A c \in Capturer : enc[t] \in callbacks[c] => c \in Providers(enc[t])
  BY DEF FedByOwned, Providers, Allocated
<1>2. CASE Providers(enc[t]) = {} /\ UNCHANGED callbacks
  BY <1>1, <1>2 DEF Unfed
<1>3. CASE \E c \in Providers(enc[t]) \ delivering :
              callbacks' = [callbacks EXCEPT ![c] = @ \ {enc[t]}]
  <2>1. PICK c \in Providers(enc[t]) :
            callbacks' = [callbacks EXCEPT ![c] = @ \ {enc[t]}]
    BY <1>3
  <2>2. c \in Capturer /\ enc[t] \in callbacks[c]
    BY <2>1 DEF Providers, Allocated, TypeOK
  <2>3. \A d \in Capturer : callbacks'[d] = IF d = c THEN callbacks[d] \ {enc[t]} ELSE callbacks[d]
    BY <2>1, <2>2 DEF TypeOK
  <2>4. \A d \in Capturer \ {c} : enc[t] \notin callbacks[d]
    BY <2>2 DEF FedOnce
  <2> QED
    BY <2>3, <2>4 DEF Unfed
<1> QED
  BY <1>2, <1>3 DEF Deregister

\* With one thread nothing comes between taking an encoder from its provider and
\* deleting it, nor between the check for a provider and the registration.
LEMMA AloneStep ==
  ASSUME NEW t \in Thread, Thread = {t}, IInv, Alone(t), [Next]_vars
  PROVE  Alone(t)'
<1>0. TypeOK /\ Arguments /\ EncPointers /\ CapPointers /\ EncodersOwned
  BY DEF IInv
<1>1. None \notin Encoder /\ None \notin Capturer
  BY ManagersAssumption DEF Encoder, Capturer
<1>2. FedAlive /\ FedOnce /\ FedByOwned(t) /\ FedNever(t)
  BY DEF Alone
<1>3. CASE UNCHANGED vars
  BY <1>3 DEF vars, encoderVars, captureVars, Alone, FedAlive, FedOnce, FedByOwned, FedNever,
              Unfed, Shared, FreesCapturer
<1>4. ASSUME NEW c \in Capturer, DeliverFrame(c) \/ FrameDelivered(c) PROVE Alone(t)'
  BY <1>4 DEF DeliverFrame, FrameDelivered, encoderVars, captureVars, Alone, FedAlive,
              FedOnce, FedByOwned, FedNever, Unfed, Shared, FreesCapturer
<1>5. CASE CreateChannel(t)
  <2>1. FedAlive' /\ FedOnce' /\ FedByOwned(t)'
    BY <1>1, <1>2, <1>5, FedKept DEF CreateChannel, captureVars, FreesCapturer
  <2>2. FedNever(t)'
    BY <1>5 DEF CreateChannel, FedNever
  <2> QED
    BY <2>1, <2>2 DEF Alone
<1>6. CASE CreateReceiveChannel(t)
  <2>1. FedAlive' /\ FedOnce' /\ FedByOwned(t)'
    BY <1>1, <1>2, <1>6, FedKept DEF CreateReceiveChannel, captureVars, FreesCapturer
  <2>2. FedNever(t)'
    BY <1>6 DEF CreateReceiveChannel, FedNever
  <2> QED
    BY <2>1, <2>2 DEF Alone
<1>7. CASE AllocateCaptureDevice(t)
  <2>1. FedAlive' /\ FedOnce' /\ FedByOwned(t)'
    <3>1. \A i \in CaptureId : capturerOf[i] # None => capturerOf'[i] = capturerOf[i]
      BY <1>0, <1>7 DEF AllocateCaptureDevice, TypeOK
    <3> QED
      BY <1>1, <1>2, <1>7, <3>1, FedKept
         DEF AllocateCaptureDevice, encoderVars, FreesCapturer
  <2>2. FedNever(t)'
    BY <1>7 DEF AllocateCaptureDevice, FedNever
  <2> QED
    BY <2>1, <2>2 DEF Alone
<1>8. CASE UseChannel(t) \/ DeleteChannel(t) \/ ConnectCaptureDevice(t)
           \/ DisconnectCaptureDevice(t) \/ ReleaseCaptureDevice(t)
  <2>1. /\ pc[t] = "idle"
        /\ pc'[t] \in {"use", "delete", "connect", "disconnect", "release"}
        /\ UNCHANGED <<encoderVars, captureVars, callbacks, cap>>
    BY <1>0, <1>8 DEF UseChannel, DeleteChannel, ConnectCaptureDevice, DisconnectCaptureDevice,
                      ReleaseCaptureDevice, Call, Go, TypeOK
  <2>2. FedAlive' /\ FedOnce' /\ FedByOwned(t)'
    BY <1>1, <1>2, <2>1, FedKept DEF encoderVars, captureVars, FreesCapturer
  <2>3. FedNever(t)'
    BY <2>1 DEF FedNever
  <2> QED
    BY <2>2, <2>3 DEF Alone
<1>9. CASE EndUse(t) \/ ConnectLookup(t) \/ DisconnectLookup(t) \/ ReleaseLookup(t)
  <2>1. /\ pc[t] \in {"use", "connect", "disconnect", "release"}
        /\ UNCHANGED <<encoderVars, captureVars, callbacks>>
    BY <1>9 DEF EndUse, ConnectLookup, DisconnectLookup, ReleaseLookup
  <2>2. pc'[t] \in {"idle", "connect.channels", "disconnect.input", "release.write"}
    <3>1. CASE EndUse(t)
      BY <1>0, <3>1 DEF EndUse, Return, Go, TypeOK
    <3>2. CASE ConnectLookup(t)
      BY <1>0, <3>2 DEF ConnectLookup, Return, Go, TypeOK
    <3>3. CASE DisconnectLookup(t)
      BY <1>0, <3>3 DEF DisconnectLookup, Return, Go, TypeOK
    <3>4. CASE ReleaseLookup(t)
      BY <1>0, <3>4 DEF ReleaseLookup, Go, TypeOK
    <3> QED
      BY <1>9, <3>1, <3>2, <3>3, <3>4
  <2>3. FedAlive' /\ FedOnce' /\ FedByOwned(t)'
    BY <1>1, <1>2, <2>1, FedKept DEF encoderVars, captureVars, FreesCapturer
  <2>4. FedNever(t)'
    BY <2>2 DEF FedNever
  <2> QED
    BY <2>3, <2>4 DEF Alone
<1>10. CASE DeleteLookup(t)
  <2>1. /\ pc[t] = "delete" /\ channel[t] \in Channel
        /\ UNCHANGED <<encoderVars, captureVars, callbacks, channel>>
    BY <1>0, <1>10 DEF DeleteLookup, Arguments
  <2>2. \/ pc'[t] = "idle"
        \/ pc'[t] = "delete.write" /\ Shared(channel[t])
        \/ pc'[t] = "delete.input" /\ enc'[t] = encoderOf[channel[t]]
    BY <1>0, <1>10 DEF DeleteLookup, Return, Go, SetEnc, TypeOK
  <2>3. FedAlive' /\ FedOnce' /\ FedByOwned(t)'
    BY <1>1, <1>2, <2>1, FedKept DEF encoderVars, captureVars, FreesCapturer
  <2>4. FedNever(t)'
    BY <2>1, <2>2 DEF FedNever, Shared, encoderVars
  <2> QED
    BY <2>3, <2>4 DEF Alone
<1>11. CASE DeleteDeregister(t)
  <2>1. /\ pc[t] = "delete.input" /\ Deregister(t)
        /\ pc'[t] = "delete.write"
        /\ UNCHANGED <<encoderVars, captureVars, channel>>
    BY <1>0, <1>11 DEF DeleteDeregister, Go, TypeOK
  <2>2. /\ \A c \in Capturer : callbacks'[c] \subseteq callbacks[c]
        /\ \A c \in Capturer : enc[t] \notin callbacks'[c]
    BY <1>0, <1>1, <1>2, <2>1, Deregistered DEF FreesCapturer
  <2>3. FedAlive' /\ FedOnce' /\ FedByOwned(t)'
    BY <1>1, <1>2, <2>1, <2>2, FedKept DEF encoderVars, captureVars, FreesCapturer
  <2>4. enc[t] = encoderOf[channel[t]]
    BY <1>2, <2>1 DEF FedNever
  <2>5. FedNever(t)'
    BY <2>1, <2>2, <2>4 DEF FedNever, Unfed, encoderVars
  <2> QED
    BY <2>3, <2>5 DEF Alone
<1>12. CASE DeleteErase(t)
  <2>1. /\ pc[t] = "delete.write"
        /\ UNCHANGED <<encoders, captureVars, callbacks>>
    BY <1>12 DEF DeleteErase
  <2>2. \/ pc'[t] = "idle"
        \/ /\ pc'[t] = "delete.free" /\ ~Shared(channel[t])
           /\ enc'[t] = encoderOf[channel[t]]
    BY <1>0, <1>12 DEF DeleteErase, Go, SetEnc, TypeOK
  <2>3. FedAlive' /\ FedOnce' /\ FedByOwned(t)'
    BY <1>1, <1>2, <2>1, FedKept DEF captureVars, FreesCapturer
  <2>4. FedNever(t)'
    BY <1>2, <2>1, <2>2 DEF FedNever, Unfed
  <2> QED
    BY <2>3, <2>4 DEF Alone
<1>13. CASE DeleteFree(t)
  <2>1. /\ pc[t] = "delete.free" /\ pc'[t] = "idle"
        /\ encoders' = encoders \ {enc[t]}
        /\ UNCHANGED <<capturerOf, callbacks>>
    BY <1>0, <1>13 DEF DeleteFree, Return, Go, TypeOK, captureVars
  <2>2. Unfed(enc[t])
    BY <1>2, <2>1 DEF FedNever
  <2>3. FedAlive'
    BY <1>2, <2>1, <2>2 DEF FedAlive, Unfed
  <2>4. FedOnce' /\ FedByOwned(t)'
    BY <1>2, <2>1 DEF FedOnce, FedByOwned, FreesCapturer
  <2>5. FedNever(t)'
    BY <2>1 DEF FedNever
  <2> QED
    BY <2>3, <2>4, <2>5 DEF Alone
<1>14. CASE ConnectCheck(t)
  <2>1. /\ pc[t] = "connect.channels"
        /\ UNCHANGED <<encoderVars, captureVars, callbacks>>
    BY <1>14 DEF ConnectCheck
  <2>2. \/ pc'[t] = "idle"
        \/ pc'[t] = "connect.register" /\ Providers(enc'[t]) = {}
    BY <1>0, <1>14 DEF ConnectCheck, Return, Go, SetEnc, TypeOK
  <2>3. FedAlive' /\ FedOnce' /\ FedByOwned(t)'
    BY <1>1, <1>2, <2>1, FedKept DEF encoderVars, captureVars, FreesCapturer
  <2>4. Providers(enc'[t]) = {} => \A c \in Capturer : enc'[t] \notin callbacks[c]
    BY <1>1, <1>2, <2>1 DEF FedByOwned, FreesCapturer, Providers, Allocated
  <2>5. FedNever(t)'
    BY <2>1, <2>2, <2>4 DEF FedNever, Unfed
  <2> QED
    BY <2>3, <2>5 DEF Alone
<1>15. CASE ConnectRegister(t)
  <2> DEFINE e == enc[t]
  <2>1. /\ pc[t] = "connect.register" /\ pc'[t] = "idle"
        /\ UNCHANGED <<encoders, capturerOf>>
    BY <1>0, <1>15 DEF ConnectRegister, Return, Go, TypeOK, encoderVars, captureVars
  <2>2. e \in encoders
    BY <1>0, <2>1 DEF EncPointers, ReadsChannels, EncodersOwned
  <2>3. cap[t] \in Capturer /\ \E i \in CaptureId : capturerOf[i] = cap[t]
    BY <1>0, <2>1 DEF CapPointers, ReadsInput, TypeOK
  <2>4. \A c \in Capturer :
            callbacks'[c] = IF c = cap[t] THEN callbacks[c] \cup {e} ELSE callbacks[c]
    BY <1>0, <1>15, <2>3 DEF ConnectRegister, TypeOK
  <2>5. \A c \in Capturer : e \notin callbacks[c]
    BY <1>2, <2>1 DEF FedNever, Unfed
  <2> HIDE DEF e
  <2>6. FedAlive'
    BY <1>2, <2>1, <2>2, <2>4 DEF FedAlive
  <2>7. FedOnce'
    <3>1. ASSUME NEW c \in Capturer, NEW d \in Capturer, c # d, NEW x,
                 x \in callbacks'[c], x \in callbacks'[d]
          PROVE  FALSE
      <4>1. x \in callbacks[c] => x \notin callbacks[d]
        BY <1>2, <3>1 DEF FedOnce
      <4> QED
        BY <2>4, <2>5, <3>1, <4>1
    <3> QED
      BY <3>1 DEF FedOnce
  <2>8. FedByOwned(t)'
    BY <1>2, <2>1, <2>3, <2>4 DEF FedByOwned, FreesCapturer
  <2>9. FedNever(t)'
    BY <2>1 DEF FedNever
  <2> QED
    BY <2>6, <2>7, <2>8, <2>9 DEF Alone
<1>16. CASE DisconnectDeregister(t)
  <2>1. /\ pc[t] = "disconnect.input" /\ Deregister(t)
        /\ pc'[t] = "idle"
        /\ UNCHANGED <<encoderVars, captureVars>>
    BY <1>0, <1>16 DEF DisconnectDeregister, Return, Go, TypeOK
  <2>2. \A c \in Capturer : callbacks'[c] \subseteq callbacks[c]
    BY <1>0, <1>1, <1>2, <2>1, Deregistered DEF FreesCapturer
  <2>3. FedAlive' /\ FedOnce' /\ FedByOwned(t)'
    BY <1>1, <1>2, <2>1, <2>2, FedKept DEF encoderVars, captureVars, FreesCapturer
  <2>4. FedNever(t)'
    BY <2>1 DEF FedNever
  <2> QED
    BY <2>3, <2>4 DEF Alone
<1>17. CASE ReleaseErase(t)
  <2> DEFINE i == captureId[t]
  <2>1. /\ pc[t] = "release.write" /\ i \in CaptureId
        /\ UNCHANGED <<encoders, callbacks>>
        /\ \A j \in CaptureId \ {i} : capturerOf'[j] = capturerOf[j]
    BY <1>0, <1>17 DEF ReleaseErase, Arguments, encoderVars, TypeOK
  <2>2. \/ capturerOf[i] = None /\ pc'[t] = "idle"
        \/ capturerOf[i] # None /\ pc'[t] = "release.free" /\ cap'[t] = capturerOf[i]
    BY <1>0, <1>17 DEF ReleaseErase, Go, SetCap, TypeOK
  <2> HIDE DEF i
  <2>3. FedAlive' /\ FedOnce'
    BY <1>2, <2>1 DEF FedAlive, FedOnce
  <2>4. FedByOwned(t)'
    BY <1>1, <1>2, <2>1, <2>2 DEF FedByOwned, FreesCapturer
  <2>5. FedNever(t)'
    BY <2>2 DEF FedNever
  <2> QED
    BY <2>3, <2>4, <2>5 DEF Alone
<1>18. CASE ReleaseFree(t)
  <2>1. /\ pc[t] = "release.free" /\ pc'[t] = "idle"
        /\ UNCHANGED <<encoders, capturerOf>>
    BY <1>0, <1>18 DEF ReleaseFree, Return, Go, TypeOK, encoderVars
  <2>2. \A c \in Capturer : callbacks'[c] = IF c = cap[t] THEN {} ELSE callbacks[c]
    BY <1>0, <1>18 DEF ReleaseFree, TypeOK
  <2>3. FedAlive' /\ FedOnce'
    BY <1>2, <2>1, <2>2 DEF FedAlive, FedOnce
  <2>4. FedByOwned(t)'
    BY <1>2, <2>1, <2>2 DEF FedByOwned
  <2>5. FedNever(t)'
    BY <2>1 DEF FedNever
  <2> QED
    BY <2>3, <2>4, <2>5 DEF Alone
<1>19. CASE Start(t) \/ Step(t)
  BY <1>5, <1>6, <1>7, <1>8, <1>9, <1>10, <1>11, <1>12, <1>13, <1>14, <1>15, <1>16,
     <1>17, <1>18, <1>19 DEF Start, Step
<1> QED
  BY <1>3, <1>4, <1>19 DEF Next

\* So it is for the application's one thread from the start.
LEMMA AloneInvariance ==
  ASSUME NEW main, Thread = {main}
  PROVE  Spec => [](IInv /\ Alone(main))
<1>1. Init => Alone(main)
  BY DEF Init, Alone, FedAlive, FedOnce, FedByOwned, FedNever
<1>2. IInv /\ Alone(main) /\ [Next]_vars => Alone(main)'
  BY AloneStep
<1> QED
  BY <1>1, <1>2, Invariance, PTL DEF Spec

\* Frames go to encoders that exist, if one thread calls the engine.
THEOREM CallbacksSafe ==
  ASSUME NEW main, Thread = {main}
  PROVE  Spec => []CallbacksAlive
<1>1. IInv /\ Alone(main) => CallbacksAlive
  <2>1. IInv => capturers \subseteq Capturer
    BY ManagersAssumption DEF IInv, TypeOK, Capturer
  <2> QED
    BY <2>1 DEF Alone, FedAlive, CallbacksAlive
<1> QED
  BY <1>1, AloneInvariance, PTL

\* An encoder has one provider, if one thread calls the engine.
THEOREM ProviderUnique ==
  ASSUME NEW main, Thread = {main}
  PROVE  Spec => []OneProvider
<1>1. IInv /\ Alone(main) => OneProvider
  <2>1. IInv => capturers \subseteq Capturer
    BY ManagersAssumption DEF IInv, TypeOK, Capturer
  <2> QED
    BY <2>1 DEF Alone, FedOnce, OneProvider
<1> QED
  BY <1>1, AloneInvariance, PTL

=============================================================================
