--------------------------- MODULE RecordingBuffers ---------------------------
(***************************************************************************)
(* The recording buffers of AudioDeviceIPhone.  The callback of the audio  *)
(* unit (RecordProcessImpl) copies what the microphone gave into buffers   *)
(* of ten milliseconds, the capture thread (CaptureWorkerThread) hands the *)
(* full ones on, and the thread that owns the device starts and stops it.  *)
(*                                                                         *)
(* Nothing protects the buffers: only the length of a buffer says whose it *)
(* is, and "has to be done last".  So every load of a length and every      *)
(* store is a step; `todo' holds the stores a thread has still to make.    *)
(* InOrder says that stores become visible in the order of the program,    *)
(* which neither the language nor the processor promises.  An increment is *)
(* a load and a store.  Samples are counted in units.                      *)
(***************************************************************************)
EXTENDS AudioUnitDevice, Integers, Functions

CONSTANTS
    NumBuffers,  \* N_REC_BUFFERS
    Full,        \* the units of ten milliseconds (noSamp10ms)
    MaxBlock,    \* bound: units a callback brings
    MaxSeq,      \* bound: buffers begun in a recording
    MaxStarts,   \* bound: calls of StartRecording
    Word,        \* 2^32, the range of _recordingBufferTotalSize
    InOrder      \* whether stores keep the order of the program

ASSUME RecordingAssumption ==
    /\ NumBuffers \in Nat \ {0} /\ Full \in Nat \ {0}
    /\ MaxBlock \in Nat /\ MaxSeq \in Nat /\ MaxStarts \in Nat
    /\ Word \in Nat \ {0}
    /\ InOrder \in BOOLEAN

VARIABLES
    dev,       \* the device: what is initialised and on, and its audio unit
    starts,    \* calls of StartRecording so far
    starting,  \* whether the owner is in StartRecording
    clearing,  \* what it has still to reset there
    length,    \* _recordingLength
    seq,       \* _recordingSeqNumber
    cur,       \* _recordingCurrentSeq
    total,     \* _recordingBufferTotalSize
    callback,  \* the audio unit's thread in RecordProcessImpl
    capture    \* the capture thread in CaptureWorkerThread

vars == <<dev, starts, starting, clearing, length, seq, cur, total, callback, capture>>
owner == <<dev, starts, starting, clearing>>
buffers == <<length, seq, cur, total>>

Buffer == 1 .. NumBuffers
Nobody == 0   \* no position, -1 in the code

CallbackStores == {"data", "seq", "load", "total", "length"}
CaptureStores == CallbackStores \ {"data"}
Resets == {"length", "seq", "cur", "total"}

Callback == [at : {"idle", "scan", "store"},
             left : 0 .. MaxBlock,       \* inNumberFrames - dataPos
             pos : 1 .. NumBuffers + 1,  \* bufPos
             sees : {"any", "room", "none"}, \* the load of that length to come
             pick : Buffer \cup {Nobody},\* insertPos
             len : 0 .. Full,            \* currentRecLen
             copy : 0 .. MaxBlock,       \* nCopy
             cur : 0 .. MaxSeq,          \* _recordingCurrentSeq as it was then
             total : 0 .. Word - 1,      \* _recordingBufferTotalSize as loaded
             todo : SUBSET CallbackStores]

Capture == [at : {"idle", "scan", "deliver", "store"},
            pos : 1 .. NumBuffers + 1,
            best : Buffer \cup {Nobody}, \* lowestSeqBufPos, if foundBuf
            low : 0 .. MaxSeq,           \* lowestSeq
            total : 0 .. Word - 1,
            fresh : BOOLEAN,             \* no reset since it began to look
            todo : SUBSET CaptureStores]

IdleCallback == [at |-> "idle", left |-> 0, pos |-> 1, sees |-> "any", pick |-> Nobody,
                 len |-> 0, copy |-> 0, cur |-> 0, total |-> 0, todo |-> {}]
IdleCapture == [at |-> "idle", pos |-> 1, best |-> Nobody, low |-> 0, total |-> 0,
                fresh |-> FALSE, todo |-> {}]

Init ==
    /\ dev = [NewDevice EXCEPT !.initialized = TRUE]
    /\ starts = 0 /\ starting = FALSE /\ clearing = {}
    /\ length = [b \in Buffer |-> 0] /\ seq = [b \in Buffer |-> 0]
    /\ cur = 0 /\ total = 0
    /\ callback = IdleCallback /\ capture = IdleCapture

Recording == "recording" \in dev.on

-----------------------------------------------------------------------------
(* The order of stores                                                     *)

\* The order of the program: length comes first where it is reset.
StoreRank == [data |-> 1, seq |-> 2, load |-> 3, total |-> 4, length |-> 5]
ResetRank == [length |-> 1, seq |-> 2, cur |-> 3, total |-> 4]

\* Mutant: the length comes first.
Mutant_May(x, todo, Rank) ==
    /\ x \in todo
    /\ x = "total" => "load" \notin todo
    /\ x # "length" => "length" \notin todo

May(x, todo, Rank) ==
    /\ x \in todo
    /\ x = "total" => "load" \notin todo
    /\ InOrder => \A y \in todo : Rank[x] <= Rank[y]

-----------------------------------------------------------------------------
(* The owner, one call at a time under _critSect                           *)

\* Stopping the audio unit waits until its callback has returned.
Becomes(d) ==
    /\ ~starting
    /\ dev.unit = "running" /\ d.unit # "running" => callback.at = "idle"
    /\ dev' = d
    /\ UNCHANGED <<starts, starting, clearing, buffers, callback, capture>>

InitStreams == \E r \in InitRecording(dev) \cup InitPlayout(dev) : Becomes(r.dev)
Playout == \E r \in StartPlayout(dev) \cup {StopPlayout(dev)} : Becomes(r.dev)
StopRecord == Becomes(StopRecording(dev).dev)

\* The buffers are reset before the audio unit is asked to start.
StartRecord ==
    /\ ~starting /\ starts < MaxStarts
    /\ "recording" \in dev.ready \ dev.on
    /\ starts' = starts + 1
    /\ starting' = TRUE
    /\ clearing' = Resets
    /\ UNCHANGED <<dev, buffers, callback, capture>>

Reset(x) ==
    /\ May(x, clearing, ResetRank)
    /\ clearing' = clearing \ {x}
    /\ length' = IF x = "length" THEN [b \in Buffer |-> 0] ELSE length
    /\ seq' = IF x = "seq" THEN [b \in Buffer |-> 0] ELSE seq
    /\ cur' = IF x = "cur" THEN 0 ELSE cur
    /\ total' = IF x = "total" THEN 0 ELSE total
    /\ capture' = [capture EXCEPT !.fresh = @ /\ x # "length"]
    /\ UNCHANGED <<dev, starts, starting, callback>>

StartUnit ==
    /\ starting /\ clearing = {}
    /\ starting' = FALSE
    /\ \E r \in StartRecording(dev) : dev' = r.dev
    /\ UNCHANGED <<starts, clearing, buffers, callback, capture>>

-----------------------------------------------------------------------------
(* RecordProcessImpl                                                       *)

\* A callback that finds _recording off drops its data; so does every one
\* after MaxSeq buffers, for the bound.
CallbackBegin ==
    /\ dev.unit = "running" /\ Recording
    /\ callback.at = "idle"
    /\ \E n \in 1 .. MaxBlock :
          /\ cur + n <= MaxSeq
          /\ callback' = [IdleCallback EXCEPT !.at = "scan", !.left = n]
    /\ UNCHANGED <<owner, buffers, capture>>

\* A partial buffer ends the search, the first empty one is kept.  The length is
\* loaded for each comparison: a full buffer that is freed after the first load
\* passes for the partial one.
CallbackLook(len) ==
    CASE callback.sees = "any" ->
            [callback EXCEPT !.sees = IF len > 0 THEN "room" ELSE "none"]
      [] callback.sees = "room" /\ len < Full ->
            [callback EXCEPT !.sees = "any", !.pick = callback.pos, !.pos = NumBuffers + 1]
      [] callback.sees = "room" /\ len = Full ->
            [callback EXCEPT !.sees = "none"]
      [] callback.sees = "none" ->
            [callback EXCEPT !.sees = "any", !.pos = @ + 1,
                             !.pick = IF @ = Nobody /\ len = 0 THEN callback.pos ELSE @]

CallbackScan ==
    /\ callback.at = "scan" /\ callback.pos \in Buffer
    /\ callback' = CallbackLook(length[callback.pos])
    /\ UNCHANGED <<owner, buffers, capture>>

\* Mutant: does not ask how much room is left.
Mutant_Fitting(left, room) == left

Fitting(left, room) == IF left < room THEN left ELSE room

\* Without a buffer the rest of the data is dropped.
CallbackPick ==
    /\ callback.at = "scan" /\ callback.pos = NumBuffers + 1
    /\ callback' =
          IF callback.pick = Nobody THEN IdleCallback
          ELSE LET len == length[callback.pick]
               IN  [callback EXCEPT
                      !.at = "store", !.len = len, !.cur = cur,
                      !.copy = Fitting(callback.left, Full - len),
                      !.todo = CallbackStores \ (IF len = 0 THEN {} ELSE {"seq"})]
    /\ UNCHANGED <<owner, buffers, capture>>

\* A value that is used twice may be kept or loaded again: both matter when the
\* owner resets it in between.
CallbackStore(x) ==
    /\ callback.at = "store" /\ May(x, callback.todo, StoreRank)
    /\ callback' = [callback EXCEPT !.todo = @ \ {x},
                                    !.total = IF x = "load" THEN total ELSE @]
    /\ IF x = "seq"
       THEN \E c \in {cur, callback.cur} :
               seq' = [seq EXCEPT ![callback.pick] = c] /\ cur' = c + 1
       ELSE UNCHANGED <<seq, cur>>
    /\ total' = IF x = "total" THEN (callback.total + callback.copy) % Word ELSE total
    /\ IF x = "length"
       THEN \E l \in {callback.len, length[callback.pick]} :
               length' = [length EXCEPT ![callback.pick] = l + callback.copy]
       ELSE UNCHANGED length
    /\ UNCHANGED <<owner, capture>>

CallbackNext ==
    /\ callback.at = "store" /\ callback.todo = {}
    /\ callback' = IF callback.left = callback.copy THEN IdleCallback
                   ELSE [IdleCallback EXCEPT !.at = "scan",
                                             !.left = callback.left - callback.copy]
    /\ UNCHANGED <<owner, buffers, capture>>

-----------------------------------------------------------------------------
(* CaptureWorkerThread                                                     *)

Scanning == [IdleCapture EXCEPT !.at = "scan", !.fresh = TRUE]

CaptureBegin ==
    /\ Recording /\ capture.at = "idle"
    /\ capture' = Scanning
    /\ UNCHANGED <<owner, buffers, callback>>

\* Mutant: a buffer is handed on as soon as it has data.
Mutant_CaptureScan_partial ==
    /\ capture.at = "scan" /\ capture.pos \in Buffer
    /\ capture' =
          IF /\ length[capture.pos] > 0
             /\ capture.best = Nobody \/ seq[capture.pos] < capture.low
          THEN [capture EXCEPT !.best = capture.pos, !.low = seq[capture.pos],
                               !.pos = @ + 1]
          ELSE [capture EXCEPT !.pos = @ + 1]
    /\ UNCHANGED <<owner, buffers, callback>>

\* Mutant: the last buffer is not looked at.
Mutant_CaptureScan ==
    /\ capture.at = "scan" /\ capture.pos \in Buffer
    /\ capture' =
          IF /\ length[capture.pos] = Full
             /\ capture.best = Nobody \/ seq[capture.pos] < capture.low
             /\ capture.pos # NumBuffers
          THEN [capture EXCEPT !.best = capture.pos, !.low = seq[capture.pos],
                               !.pos = @ + 1]
          ELSE [capture EXCEPT !.pos = @ + 1]
    /\ UNCHANGED <<owner, buffers, callback>>

CaptureScan ==
    /\ capture.at = "scan" /\ capture.pos \in Buffer
    /\ capture' =
          IF /\ length[capture.pos] = Full
             /\ capture.best = Nobody \/ seq[capture.pos] < capture.low
          THEN [capture EXCEPT !.best = capture.pos, !.low = seq[capture.pos],
                               !.pos = @ + 1]
          ELSE [capture EXCEPT !.pos = @ + 1]
    /\ UNCHANGED <<owner, buffers, callback>>

CapturePick ==
    /\ capture.at = "scan" /\ capture.pos = NumBuffers + 1
    /\ capture' = IF capture.best = Nobody THEN IdleCapture
                  ELSE [capture EXCEPT !.at = "deliver"]
    /\ UNCHANGED <<owner, buffers, callback>>

\* UpdateRecordingDelay, SetRecordedBuffer and DeliverRecordedData: the buffer
\* is read from here to the first store.
CaptureDeliver ==
    /\ capture.at = "deliver"
    /\ capture' = [capture EXCEPT !.at = "store", !.todo = CaptureStores]
    /\ UNCHANGED <<owner, buffers, callback>>

CaptureStore(x) ==
    /\ capture.at = "store" /\ May(x, capture.todo, StoreRank)
    /\ LET b == capture.best
       IN  /\ capture' = [capture EXCEPT !.todo = @ \ {x},
                                         !.total = IF x = "load" THEN total ELSE @]
           /\ seq' = IF x = "seq" THEN [seq EXCEPT ![b] = 0] ELSE seq
           /\ total' = IF x = "total" THEN (capture.total - length[b]) % Word ELSE total
           /\ length' = IF x = "length" THEN [length EXCEPT ![b] = 0] ELSE length
    /\ UNCHANGED <<owner, cur, callback>>

CaptureNext ==
    /\ capture.at = "store" /\ capture.todo = {}
    /\ capture' = Scanning
    /\ UNCHANGED <<owner, buffers, callback>>

-----------------------------------------------------------------------------

OwnerStarts == (\E x \in Resets : Reset(x)) \/ StartUnit

CallbackStep ==
    CallbackScan \/ CallbackPick \/ (\E x \in CallbackStores : CallbackStore(x))
        \/ CallbackNext

CaptureStep ==
    CaptureBegin \/ CaptureScan \/ CapturePick \/ CaptureDeliver
        \/ (\E x \in CaptureStores : CaptureStore(x)) \/ CaptureNext

Next ==
    \/ InitStreams \/ Playout \/ StopRecord \/ StartRecord \/ OwnerStarts
    \/ CallbackBegin \/ CallbackStep
    \/ CaptureStep

\* A call that was begun ends, a callback that was begun ends, and the capture
\* thread runs from Init to Terminate; no call and no data has to come.
Spec == Init /\ [][Next]_vars
             /\ WF_vars(OwnerStarts) /\ WF_vars(CallbackStep) /\ WF_vars(CaptureStep)

-----------------------------------------------------------------------------
(* Properties                                                              *)

\* The variables hold values of their types: no buffer overflows, whatever
\* resets come between the steps of the two threads.
TypeOK ==
    /\ dev \in Device
    /\ starts \in 0 .. MaxStarts
    /\ starting \in BOOLEAN
    /\ clearing \subseteq Resets
    /\ length \in [Buffer -> 0 .. Full]
    /\ seq \in [Buffer -> 0 .. MaxSeq]
    /\ cur \in 0 .. MaxSeq
    /\ total \in 0 .. Word - 1
    /\ callback \in Callback
    /\ capture \in Capture

\* The capture thread has found a buffer and not yet given it back.
Holding == capture.at = "deliver" \/ "length" \in capture.todo

\* "Has to be done last to avoid interrupt problems between threads": the
\* callback never copies into the buffer that the capture thread delivers, unless
\* StartRecording has reset the buffers under it.
CopyAlone ==
    Holding /\ capture.fresh /\ "data" \in callback.todo =>
        callback.pick # capture.best

\* What fills and empties a buffer: the callback, which only adds; the capture
\* thread, which has delivered it whole, or one that a new recording reset under
\* it; and the start of a recording.
RecordingsKept ==
    \A b \in Buffer : length'[b] # length[b] =>
        \/ "length" \in clearing \ clearing'
        \/ callback.at = "store" /\ b = callback.pick /\ length'[b] > length[b]
        \/ /\ capture.at = "store" /\ b = capture.best
           /\ length'[b] = 0
           /\ capture.fresh => length[b] = Full

\* Recorded data are not lost: RecordProcessImpl and CaptureWorkerThread write the
\* lengths without a lock, and yet a buffer never shrinks before it was delivered,
\* unless StartRecording comes in between.
NothingOverwritten == [][RecordingsKept]_vars

\* While the device records, a full buffer is handed on and given back.
FullIsDelivered ==
    \A b \in Buffer : length[b] = Full ~> length[b] = 0 \/ ~Recording

\* "Current total size all data in buffers, used for delay estimate".
TotalIsSum ==
    callback.at # "store" /\ capture.at # "store" /\ ~starting =>
        total = FoldFunction(+, 0, length)

=============================================================================
