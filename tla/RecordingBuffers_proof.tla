------------------------ MODULE RecordingBuffers_proof ------------------------
(***************************************************************************)
(* Proofs about RecordingBuffers, for any number of buffers of any size    *)
(* and any number of recordings, in whatever order stores become visible.  *)
(***************************************************************************)
EXTENDS RecordingBuffers, TLAPS

-----------------------------------------------------------------------------
(* Arithmetic and the device                                               *)

\* A word wraps around.
LEMMA Wraps == ASSUME NEW a \in Int PROVE a % Word \in 0 .. Word - 1
BY RecordingAssumption

\* What is copied fits, and is something.
LEMMA Fits ==
  ASSUME NEW left \in Nat \ {0}, NEW room \in Nat \ {0}
  PROVE  Fitting(left, room) \in 1 .. left /\ Fitting(left, room) <= room
BY DEF Fitting

\* Initialising, starting and stopping a direction give a device again.
LEMMA DeviceKept ==
  ASSUME NEW d \in Device, NEW x \in Direction
  PROVE  /\ \A r \in InitStream(d, x) : r.dev \in Device
         /\ \A r \in StartStream(d, x) : r.dev \in Device
         /\ StopStream(d, x).dev \in Device
<1>1. ASSUME NEW r \in InitStream(d, x) PROVE r.dev \in Device
  <2> DEFINE prepared == [d EXCEPT !.ready = @ \cup {x}]
  <2>1. prepared \in Device
    BY DEF Device
  <2>2. r.dev = d \/ r.dev = prepared \/ r.dev = [prepared EXCEPT !.unit = "stopped"]
    BY <1>1 DEF InitStream, InitPlayOrRecord, Done, Refused
  <2> QED
    BY <2>1, <2>2 DEF Device
<1>2. ASSUME NEW r \in StartStream(d, x) PROVE r.dev \in Device
  <2> DEFINE started == [d EXCEPT !.on = @ \cup {x}]
  <2>1. started \in Device
    BY DEF Device
  <2>2. r.dev = d \/ r.dev = started \/ r.dev = [started EXCEPT !.unit = "running"]
    BY <1>2 DEF StartStream, Done, Refused
  <2> QED
    BY <2>1, <2>2 DEF Device
<1>3. StopStream(d, x).dev \in Device
  BY DEF StopStream, ShutdownPlayOrRecord, Done, Refused, Device
<1> QED
  BY <1>1, <1>2, <1>3

-----------------------------------------------------------------------------
(* The inductive invariant                                                 *)

\* How far the callback is, what it has found and what it may still begin.
CallbackInv ==
    /\ callback.at = "idle" => callback.todo = {}
    /\ callback.at = "scan" =>
          /\ callback.todo = {} /\ callback.left >= 1
          /\ cur + callback.left <= MaxSeq
          /\ callback.pick # Nobody => length[callback.pick] < Full
    /\ callback.at = "store" =>
          /\ callback.pick \in Buffer
          /\ 1 <= callback.copy /\ callback.copy <= callback.left
          /\ cur + callback.left - callback.copy <= MaxSeq
          /\ "seq" \in callback.todo => /\ cur + callback.left <= MaxSeq
                                        /\ callback.cur + callback.left <= MaxSeq
          /\ "length" \in callback.todo =>
                /\ length[callback.pick] <= callback.len
                /\ callback.len + callback.copy <= Full

\* What the capture thread has found stays full unless the owner resets it.
CaptureInv ==
    /\ capture.at \in {"idle", "scan", "deliver"} => capture.todo = {}
    /\ capture.at \in {"deliver", "store"} => capture.best \in Buffer
    /\ capture.fresh /\ capture.best # Nobody /\ (capture.at = "scan" \/ Holding) =>
          length[capture.best] = Full

\* Stores in order: the data is there before the length.
OrderInv == InOrder /\ "data" \in callback.todo => "length" \in callback.todo

IInv == TypeOK /\ CallbackInv /\ CaptureInv /\ OrderInv

\* At first all buffers are empty and both threads idle.
LEMMA InitInv == Init => IInv
<1> SUFFICES ASSUME Init PROVE IInv
  OBVIOUS
<1> USE RecordingAssumption
<1>1. NewDevice \in Device /\ [NewDevice EXCEPT !.initialized = TRUE] \in Device
  BY DEF NewDevice, Device
<1>2. TypeOK
  <2>1. callback \in Callback
    BY DEF Init, Callback, IdleCallback, CallbackStores, Buffer
  <2>2. capture \in Capture
    BY DEF Init, Capture, IdleCapture, CaptureStores, CallbackStores, Buffer
  <2>3. length \in [Buffer -> 0 .. Full] /\ seq \in [Buffer -> 0 .. MaxSeq]
    BY DEF Init
  <2>4. starts \in 0 .. MaxStarts /\ cur \in 0 .. MaxSeq /\ total \in 0 .. Word - 1
    BY SMT DEF Init
  <2>6. starting \in BOOLEAN /\ clearing \subseteq Resets
    BY Zenon DEF Init
  <2>5. dev \in Device
    BY <1>1 DEF Init
  <2> QED
    BY <2>1, <2>2, <2>3, <2>4, <2>5, <2>6 DEF TypeOK
<1>3. CallbackInv /\ CaptureInv /\ OrderInv
  BY DEF Init, CallbackInv, CaptureInv, OrderInv, IdleCallback, IdleCapture, Holding
<1> QED
  BY <1>2, <1>3 DEF IInv

-----------------------------------------------------------------------------
(* The owner's steps                                                       *)

\* An operation of the device touches no buffer.
LEMMA BecomesInv == ASSUME IInv, NEW d \in Device, Becomes(d) PROVE IInv'
<1>1. TypeOK'
  BY DEF IInv, TypeOK, Becomes, buffers
<1> QED
  BY <1>1 DEF IInv, CallbackInv, CaptureInv, Holding,
              OrderInv, Becomes, buffers

\* So do the calls that only change the device.
LEMMA DeviceInv ==
  ASSUME IInv, InitStreams \/ Playout \/ StopRecord \/ StartUnit PROVE IInv'
<1> USE DEF Direction
<1>0. dev \in Device
  BY DEF IInv, TypeOK
<1>1. CASE InitStreams
  BY <1>0, <1>1, BecomesInv, DeviceKept DEF InitStreams, InitRecording, InitPlayout
<1>2. CASE Playout
  BY <1>0, <1>2, BecomesInv, DeviceKept DEF Playout, StartPlayout, StopPlayout
<1>3. CASE StopRecord
  BY <1>0, <1>3, BecomesInv, DeviceKept DEF StopRecord, StopRecording
<1>4. CASE StartUnit
  <2>1. dev' \in Device
    BY <1>0, <1>4, DeviceKept DEF StartUnit, StartRecording
  <2>2. TypeOK'
    BY <1>4, <2>1 DEF IInv, TypeOK, StartUnit, buffers
  <2> QED
    BY <1>4, <2>2 DEF IInv, CallbackInv, CaptureInv,
                      Holding, OrderInv, StartUnit, buffers
<1> QED
  BY <1>1, <1>2, <1>3, <1>4

\* Entering StartRecording resets nothing yet.
LEMMA StartRecordInv == ASSUME IInv, StartRecord PROVE IInv'
<1>1. TypeOK'
  BY RecordingAssumption DEF IInv, TypeOK, StartRecord, buffers
<1> QED
  BY <1>1 DEF IInv, CallbackInv, CaptureInv, Holding,
              OrderInv, StartRecord, buffers

\* A reset empties buffers: the one the callback has picked is still not full, and
\* what the capture thread has found is not fresh any more.
LEMMA ResetInv == ASSUME IInv, NEW x \in Resets, Reset(x) PROVE IInv'
<1> USE RecordingAssumption
<1>1. /\ length' \in [Buffer -> 0 .. Full]
      /\ \A b \in Buffer : length'[b] = 0 \/ length'[b] = length[b]
      /\ x # "length" => length' = length
  BY DEF IInv, TypeOK, Reset
<1>2. seq' \in [Buffer -> 0 .. MaxSeq]
  BY DEF IInv, TypeOK, Reset
<1>3. cur' \in 0 .. MaxSeq /\ cur' <= cur
  BY DEF IInv, TypeOK, Reset
<1>4. total' \in 0 .. Word - 1
  BY DEF IInv, TypeOK, Reset
<1>5. /\ capture' \in Capture
      /\ capture'.at = capture.at /\ capture'.best = capture.best
      /\ capture'.todo = capture.todo
      /\ capture'.fresh => capture.fresh /\ x # "length"
  BY DEF IInv, TypeOK, Reset, Capture
<1>6. TypeOK'
  BY <1>1, <1>2, <1>3, <1>4, <1>5 DEF IInv, TypeOK, Reset
<1>7. CallbackInv'
  <2>1. callback' = callback /\ callback \in Callback
    BY DEF IInv, TypeOK, Reset
  <2>2. cur \in Int /\ cur' \in Int /\ callback.left \in Int /\ callback.copy \in Int
        /\ callback.len \in Int /\ MaxSeq \in Int /\ Full \in Int
    BY <2>1, <1>3 DEF IInv, TypeOK, Callback
  <2>3. \A b \in Buffer : length[b] \in Int /\ length'[b] \in Int /\ 0 <= length[b]
    BY <1>1 DEF IInv, TypeOK
  <2>4. ASSUME callback.at = "scan", callback.pick # Nobody
        PROVE  length'[callback.pick] < Full
    <3>1. callback.pick \in Buffer
      BY <2>1, <2>4 DEF Callback
    <3> QED
      BY <1>1, <2>2, <2>3, <2>4, <3>1 DEF IInv, CallbackInv
  <2>5. ASSUME callback.at = "store", "length" \in callback.todo
        PROVE  length'[callback.pick] <= callback.len
    BY <1>1, <2>1, <2>2, <2>3, <2>5 DEF IInv, CallbackInv, Callback
  <2> QED
    BY <1>3, <2>1, <2>2, <2>4, <2>5 DEF IInv, CallbackInv
<1>8. CaptureInv'
  BY <1>1, <1>5 DEF IInv, CaptureInv, Holding
<1>9. OrderInv'
  BY DEF IInv, OrderInv, Reset
<1> QED
  BY <1>6, <1>7, <1>8, <1>9 DEF IInv

-----------------------------------------------------------------------------
(* The callback's steps                                                    *)

\* What both threads are before they begin.
LEMMA IdleTypes == IdleCallback \in Callback /\ IdleCapture \in Capture
<1> USE RecordingAssumption
<1>1. 0 \in 0 .. MaxBlock /\ 0 \in 0 .. Full /\ 0 \in 0 .. MaxSeq /\ 0 \in 0 .. Word - 1
      /\ 1 \in 1 .. NumBuffers + 1
  OBVIOUS
<1>2. IdleCallback \in Callback
  BY <1>1 DEF IdleCallback, Callback
<1>3. IdleCapture \in Capture
  BY <1>1 DEF IdleCapture, Capture
<1> QED
  BY <1>2, <1>3

\* The callback begins to look for a buffer.
LEMMA CallbackBeginInv == ASSUME IInv, CallbackBegin PROVE IInv'
<1> USE RecordingAssumption
<1>1. PICK n \in 1 .. MaxBlock :
         /\ cur + n <= MaxSeq
         /\ callback' = [IdleCallback EXCEPT !.at = "scan", !.left = n]
  BY DEF CallbackBegin
<1>2. /\ callback' \in Callback
      /\ callback'.at = "scan" /\ callback'.todo = {} /\ callback'.left = n
      /\ callback'.pick = Nobody /\ callback'.pos = 1
  <2>1. /\ callback'.at = "scan" /\ callback'.todo = {} /\ callback'.left = n
        /\ callback'.pick = Nobody /\ callback'.pos = 1
    BY <1>1 DEF IdleCallback
  <2>2. n \in 0 .. MaxBlock
    OBVIOUS
  <2>3. callback' \in Callback
    BY <1>1, <2>2, IdleTypes DEF Callback
  <2> QED
    BY <2>1, <2>3
<1>3. UNCHANGED <<owner, buffers, capture>>
  BY DEF CallbackBegin
<1>4. TypeOK'
  BY <1>2, <1>3 DEF IInv, TypeOK, owner, buffers
<1>5. CallbackInv'
  BY <1>1, <1>2, <1>3 DEF CallbackInv, Buffer, buffers
<1> QED
  BY <1>2, <1>3, <1>4, <1>5 DEF IInv, CaptureInv, Holding,
                                OrderInv, owner, buffers

\* A load of a length: what is picked is not full, and only the callback, which
\* still searches, could fill it.
LEMMA CallbackScanInv == ASSUME IInv, CallbackScan PROVE IInv'
<1> USE RecordingAssumption
<1> DEFINE b == callback.pos
           len == length[b]
<1>1. /\ callback.at = "scan" /\ b \in Buffer /\ callback \in Callback
      /\ callback' = CallbackLook(len)
      /\ UNCHANGED <<owner, buffers, capture>>
  BY DEF IInv, TypeOK, CallbackScan
<1>2. length \in [Buffer -> 0 .. Full] /\ len \in 0 .. Full
  BY <1>1 DEF IInv, TypeOK
<1>3. /\ callback' \in Callback
      /\ callback'.at = "scan" /\ callback'.todo = callback.todo
      /\ callback'.left = callback.left
      /\ callback'.pick = callback.pick \/ (callback'.pick = b /\ len < Full)
  <2>1. b \in 1 .. NumBuffers + 1 /\ b + 1 \in 1 .. NumBuffers + 1
        /\ NumBuffers + 1 \in 1 .. NumBuffers + 1
    BY <1>1 DEF Buffer
  <2>2. callback.sees \in {"any", "room", "none"}
    BY <1>1 DEF Callback
  <2>3. CASE callback.sees = "any"
    <3>1. PICK next \in {"room", "none"} : callback' = [callback EXCEPT !.sees = next]
      BY <1>1, <2>3 DEF CallbackLook
    <3> HIDE DEF b, len
    <3>2. callback' \in Callback
      BY <1>1, <3>1 DEF Callback
    <3>3. /\ callback'.at = callback.at /\ callback'.todo = callback.todo
          /\ callback'.left = callback.left /\ callback'.pick = callback.pick
      BY <1>1, <3>1 DEF Callback
    <3> QED
      BY <1>1, <3>2, <3>3
  <2>4. CASE callback.sees = "room" /\ len < Full
    <3>1. callback' = [callback EXCEPT !.sees = "any", !.pick = b, !.pos = NumBuffers + 1]
      BY <1>1, <2>4 DEF CallbackLook
    <3> HIDE DEF b, len
    <3> QED
      BY <1>1, <2>1, <2>4, <3>1 DEF Callback
  <2>5. CASE callback.sees = "room" /\ len = Full
    <3>1. callback' = [callback EXCEPT !.sees = "none"]
      BY <1>1, <2>5 DEF CallbackLook
    <3> HIDE DEF b, len
    <3>2. callback' \in Callback
      BY <1>1, <3>1 DEF Callback
    <3>3. /\ callback'.at = callback.at /\ callback'.todo = callback.todo
          /\ callback'.left = callback.left /\ callback'.pick = callback.pick
      BY <1>1, <3>1 DEF Callback
    <3> QED
      BY <1>1, <3>2, <3>3
  <2>6. CASE callback.sees = "none"
    <3>1. callback' = [callback EXCEPT !.sees = "any", !.pos = b + 1,
                          !.pick = IF callback.pick = Nobody /\ len = 0 THEN b
                                   ELSE callback.pick]
      BY <1>1, <2>6 DEF CallbackLook
    <3> DEFINE q == IF callback.pick = Nobody /\ len = 0 THEN b ELSE callback.pick
    <3>2. q \in Buffer \cup {Nobody} /\ (q = callback.pick \/ (q = b /\ len < Full))
      BY <1>1 DEF Callback
    <3> HIDE DEF b, len, q
    <3>3. callback' = [callback EXCEPT !.sees = "any", !.pos = b + 1, !.pick = q]
      BY <3>1 DEF q
    <3>4. callback' \in Callback
      BY <1>1, <2>1, <3>2, <3>3 DEF Callback
    <3>5. /\ callback'.at = callback.at /\ callback'.todo = callback.todo
          /\ callback'.left = callback.left /\ callback'.pick = q
      BY <1>1, <3>3 DEF Callback
    <3> QED
      BY <1>1, <3>2, <3>4, <3>5
  <2> QED
    BY <1>2, <2>2, <2>3, <2>4, <2>5, <2>6
<1>4. TypeOK'
  BY <1>1, <1>3 DEF IInv, TypeOK, owner, buffers
<1>5. length' = length /\ cur' = cur
  BY <1>1 DEF buffers
<1>6. callback'.pick # Nobody => length[callback'.pick] < Full
  BY <1>1, <1>3 DEF IInv, CallbackInv
<1>7. CallbackInv'
  BY <1>1, <1>3, <1>5, <1>6 DEF IInv, CallbackInv
<1> QED
  BY <1>1, <1>3, <1>4, <1>5, <1>7 DEF IInv, CaptureInv, Holding, OrderInv, owner, buffers

\* The chosen buffer has room.
LEMMA CallbackPickInv == ASSUME IInv, CallbackPick PROVE IInv'
<1> USE RecordingAssumption
<1> DEFINE b == callback.pick
           len == length[b]
           copy == Fitting(callback.left, Full - len)
<1>1. /\ callback.at = "scan" /\ callback.pos = NumBuffers + 1 /\ callback \in Callback
      /\ UNCHANGED <<owner, buffers, capture>>
  BY DEF IInv, TypeOK, CallbackPick
<1>2. /\ length \in [Buffer -> 0 .. Full] /\ cur \in 0 .. MaxSeq
      /\ callback.left \in 1 .. MaxBlock /\ cur + callback.left <= MaxSeq
  BY <1>1 DEF IInv, TypeOK, CallbackInv, Callback
<1>3. CASE b = Nobody
  <2>1. callback' = IdleCallback /\ callback' \in Callback
    BY <1>3 DEF CallbackPick, IdleCallback, Callback, Buffer
  <2>2. TypeOK'
    BY <1>1, <2>1 DEF IInv, TypeOK, owner, buffers
  <2>3. callback'.at = "idle" /\ callback'.todo = {}
    BY <2>1 DEF IdleCallback
  <2>4. CallbackInv' /\ OrderInv'
    BY <2>3 DEF CallbackInv, OrderInv
  <2> QED
    BY <1>1, <2>2, <2>4 DEF IInv, CaptureInv, Holding, owner,
                                  buffers
<1>4. CASE b # Nobody
  <2>1. b \in Buffer /\ len \in 0 .. Full - 1
    BY <1>1, <1>2, <1>4 DEF IInv, CallbackInv, Callback
  <2>2. copy \in 1 .. callback.left /\ copy <= Full - len
    <3>1. callback.left \in Nat \ {0} /\ Full - len \in Nat \ {0}
      BY <1>2, <2>1
    <3> QED
      BY <3>1, Fits
  <2>3. callback' = [callback EXCEPT !.at = "store", !.len = len, !.cur = cur,
                        !.copy = copy,
                        !.todo = CallbackStores \ (IF len = 0 THEN {} ELSE {"seq"})]
    BY <1>4 DEF CallbackPick
  <2> HIDE DEF len, copy
  <2>4. /\ callback' \in Callback
        /\ callback'.at = "store" /\ callback'.pick = b /\ callback'.len = len
        /\ callback'.copy = copy /\ callback'.left = callback.left
        /\ callback'.cur = cur /\ "length" \in callback'.todo
    <3>1. copy \in 0 .. MaxBlock /\ len \in 0 .. Full
      BY <1>2, <2>1, <2>2
    <3>2. CallbackStores \ (IF len = 0 THEN {} ELSE {"seq"}) \in SUBSET CallbackStores
          /\ "length" \in CallbackStores \ (IF len = 0 THEN {} ELSE {"seq"})
      BY DEF CallbackStores
    <3>3. callback' \in Callback
      BY <1>1, <1>2, <2>1, <2>3, <3>1, <3>2 DEF Callback
    <3>4. /\ callback'.at = "store" /\ callback'.pick = b /\ callback'.len = len
          /\ callback'.copy = copy /\ callback'.left = callback.left
          /\ callback'.cur = cur
          /\ callback'.todo = CallbackStores \ (IF len = 0 THEN {} ELSE {"seq"})
      BY <1>1, <2>3 DEF Callback
    <3> QED
      BY <3>2, <3>3, <3>4
  <2>5. TypeOK'
    BY <1>1, <2>4 DEF IInv, TypeOK, owner, buffers
  <2>6. CallbackInv'
    <3>1. callback.left \in Int /\ cur \in Int /\ copy \in Int /\ len \in Int
          /\ Full \in Int /\ MaxSeq \in Int
      BY <1>2, <2>1, <2>2
    <3>2. /\ callback.left - copy >= 0 /\ cur + callback.left - copy <= MaxSeq
          /\ len + copy <= Full /\ 1 <= copy /\ copy <= callback.left
      BY <1>2, <2>2, <3>1
    <3>3. length' = length /\ cur' = cur /\ length[b] = len
      BY <1>1 DEF buffers, len
    <3> QED
      BY <1>2, <2>1, <2>4, <3>1, <3>2, <3>3 DEF CallbackInv
  <2> QED
    BY <1>1, <2>4, <2>5, <2>6 DEF IInv, CaptureInv, Holding,
                                        OrderInv, owner, buffers
<1> QED
  BY <1>3, <1>4

\* The number a callback gives a buffer is within the bound.
LEMMA CallbackSeqInv == ASSUME IInv, CallbackStore("seq") PROVE IInv'
<1> USE RecordingAssumption
<1>1. /\ callback.at = "store" /\ "seq" \in callback.todo /\ callback \in Callback
      /\ callback' = [callback EXCEPT !.todo = @ \ {"seq"}, !.total = @]
      /\ total' = total /\ length' = length
      /\ UNCHANGED <<owner, capture>>
  BY DEF IInv, TypeOK, CallbackStore, May
<1>2. PICK c \in {cur, callback.cur} : seq' = [seq EXCEPT ![callback.pick] = c] /\ cur' = c + 1
  BY DEF CallbackStore
<1>3. /\ callback' \in Callback /\ callback'.todo = callback.todo \ {"seq"}
      /\ callback'.at = callback.at /\ callback'.pick = callback.pick
      /\ callback'.len = callback.len /\ callback'.copy = callback.copy
      /\ callback'.left = callback.left
  BY <1>1 DEF Callback
<1>4. /\ callback.left \in Int /\ callback.copy \in Int /\ callback.cur \in 0 .. MaxSeq
      /\ cur \in 0 .. MaxSeq /\ callback.pick \in Buffer
      /\ 1 <= callback.copy /\ callback.copy <= callback.left
      /\ cur + callback.left <= MaxSeq /\ callback.cur + callback.left <= MaxSeq
  BY <1>1 DEF IInv, TypeOK, CallbackInv, Callback
<1>5. c \in 0 .. MaxSeq /\ c + 1 \in 0 .. MaxSeq /\ c + 1 + callback.left - callback.copy <= MaxSeq
  BY <1>2, <1>4
<1>6. seq' \in [Buffer -> 0 .. MaxSeq] /\ cur' \in 0 .. MaxSeq
  BY <1>2, <1>4, <1>5 DEF IInv, TypeOK
<1>7. TypeOK'
  BY <1>1, <1>3, <1>6 DEF IInv, TypeOK, owner
<1>8. CallbackInv'
  BY <1>1, <1>2, <1>3, <1>5 DEF IInv, CallbackInv
<1> QED
  BY <1>1, <1>3, <1>7, <1>8 DEF IInv, CaptureInv, Holding,
                                      OrderInv, owner

\* The length is what the callback found, or less, and what it has copied.
LEMMA CallbackLengthInv == ASSUME IInv, CallbackStore("length") PROVE IInv'
<1> USE RecordingAssumption
<1> DEFINE b == callback.pick
<1>1. /\ callback.at = "store" /\ "length" \in callback.todo /\ callback \in Callback
      /\ callback' = [callback EXCEPT !.todo = @ \ {"length"}, !.total = @]
      /\ UNCHANGED <<seq, cur, total, owner, capture>>
      /\ InOrder => \A y \in callback.todo : StoreRank["length"] <= StoreRank[y]
  BY DEF IInv, TypeOK, CallbackStore, May
<1>2. PICK l \in {callback.len, length[b]} :
         length' = [length EXCEPT ![b] = l + callback.copy]
  BY DEF CallbackStore
<1>3. /\ callback' \in Callback /\ callback'.todo = callback.todo \ {"length"}
      /\ callback'.at = callback.at /\ callback'.pick = b
      /\ callback'.copy = callback.copy /\ callback'.left = callback.left
      /\ callback'.cur = callback.cur
  BY <1>1 DEF Callback
<1>4. /\ b \in Buffer /\ callback.len \in 0 .. Full /\ callback.copy \in Int
      /\ 1 <= callback.copy /\ length \in [Buffer -> 0 .. Full]
      /\ length[b] <= callback.len /\ callback.len + callback.copy <= Full
  BY <1>1 DEF IInv, TypeOK, CallbackInv, Callback
<1> HIDE DEF b
<1>5. l + callback.copy \in 0 .. Full /\ length[b] < Full
  BY <1>2, <1>4
<1>6. /\ length' \in [Buffer -> 0 .. Full]
      /\ \A c \in Buffer \ {b} : length'[c] = length[c]
  BY <1>2, <1>4, <1>5
<1>7. TypeOK'
  BY <1>1, <1>3, <1>6 DEF IInv, TypeOK, owner
<1>8. CallbackInv'
  BY <1>1, <1>3 DEF IInv, CallbackInv, b
<1>9. CaptureInv'
  <2>1. capture' = capture
    BY <1>1
  <2>2. ASSUME capture.fresh, capture.best # Nobody, capture.at = "scan" \/ Holding
        PROVE  length'[capture.best] = Full
    <3>1. length[capture.best] = Full
      BY <2>2 DEF IInv, CaptureInv
    <3>2. capture.best \in Buffer
      BY <2>2 DEF IInv, TypeOK, Capture
    <3>3. capture.best # b
      BY <1>4, <1>5, <3>1
    <3> QED
      BY <1>6, <3>1, <3>2, <3>3
  <2> QED
    BY <2>1, <2>2 DEF IInv, CaptureInv, Holding
<1>10. OrderInv'
  <2> SUFFICES ASSUME InOrder, "data" \in callback.todo PROVE FALSE
    BY <1>3 DEF OrderInv
  <2> QED
    BY <1>1 DEF StoreRank
<1> QED
  BY <1>7, <1>8, <1>9, <1>10 DEF IInv

\* The other stores only wait no longer.
LEMMA CallbackOtherInv ==
  ASSUME IInv, NEW x \in CallbackStores, x \notin {"seq", "length"}, CallbackStore(x)
  PROVE  IInv'
<1> USE RecordingAssumption
<1>1. /\ callback.at = "store" /\ callback \in Callback
      /\ UNCHANGED <<seq, cur, length, owner, capture>>
  BY DEF IInv, TypeOK, CallbackStore
<1>2. total' \in 0 .. Word - 1
  <2>1. callback.total + callback.copy \in Int /\ total \in 0 .. Word - 1
    BY <1>1 DEF IInv, TypeOK, Callback
  <2> QED
    BY <2>1, Wraps DEF CallbackStore
<1>3. /\ callback' \in Callback /\ callback'.todo = callback.todo \ {x}
      /\ callback'.at = callback.at /\ callback'.pick = callback.pick
      /\ callback'.len = callback.len /\ callback'.copy = callback.copy
      /\ callback'.left = callback.left /\ callback'.cur = callback.cur
  <2>1. callback' = [callback EXCEPT !.todo = @ \ {x},
                                     !.total = IF x = "load" THEN total ELSE @]
    BY DEF CallbackStore
  <2>2. (IF x = "load" THEN total ELSE callback.total) \in 0 .. Word - 1
    BY <1>1 DEF IInv, TypeOK, Callback
  <2> QED
    BY <1>1, <2>1, <2>2 DEF Callback
<1>4. TypeOK'
  BY <1>1, <1>2, <1>3 DEF IInv, TypeOK, owner
<1>5. CallbackInv'
  BY <1>1, <1>3 DEF IInv, CallbackInv
<1> QED
  BY <1>1, <1>3, <1>4, <1>5 DEF IInv, CaptureInv, Holding,
                                      OrderInv, owner

\* What is left of the data is looked a place for from the first buffer on.
LEMMA CallbackNextInv == ASSUME IInv, CallbackNext PROVE IInv'
<1> USE RecordingAssumption
<1>1. /\ callback.at = "store" /\ callback.todo = {} /\ callback \in Callback
      /\ UNCHANGED <<owner, buffers, capture>>
  BY DEF IInv, TypeOK, CallbackNext
<1>2. /\ callback.left \in 0 .. MaxBlock /\ callback.copy \in 0 .. MaxBlock
      /\ 1 <= callback.copy /\ callback.copy <= callback.left /\ cur \in 0 .. MaxSeq
      /\ cur + callback.left - callback.copy <= MaxSeq
  BY <1>1 DEF IInv, TypeOK, CallbackInv, Callback
<1>3. /\ callback' \in Callback /\ callback'.todo = {}
      /\ \/ callback'.at = "idle"
         \/ /\ callback'.at = "scan" /\ callback'.pick = Nobody /\ callback'.pos = 1
            /\ callback'.left = callback.left - callback.copy /\ callback'.left >= 1
  <2>1. CASE callback.left = callback.copy
    BY <2>1, IdleTypes DEF CallbackNext, IdleCallback
  <2>2. CASE callback.left # callback.copy
    <3>1. callback.left - callback.copy \in 0 .. MaxBlock
          /\ callback.left - callback.copy >= 1
      BY <1>2, <2>2
    <3>2. callback' = [IdleCallback EXCEPT !.at = "scan",
                                           !.left = callback.left - callback.copy]
      BY <2>2 DEF CallbackNext
    <3>3. callback' \in Callback
      BY <3>1, <3>2, IdleTypes DEF Callback
    <3>4. /\ callback'.at = "scan" /\ callback'.pick = Nobody /\ callback'.pos = 1
          /\ callback'.left = callback.left - callback.copy /\ callback'.todo = {}
      BY <3>2 DEF IdleCallback
    <3> QED
      BY <3>1, <3>3, <3>4
  <2> QED
    BY <2>1, <2>2
<1>4. TypeOK'
  BY <1>1, <1>3 DEF IInv, TypeOK, owner, buffers
<1>5. CallbackInv'
  <2>1. cur' = cur /\ (callback'.at = "idle" \/ cur + callback'.left <= MaxSeq)
    BY <1>1, <1>2, <1>3 DEF buffers
  <2> QED
    BY <1>1, <1>3, <2>1 DEF CallbackInv, Buffer, buffers
<1> QED
  BY <1>1, <1>3, <1>4, <1>5 DEF IInv, CaptureInv, Holding,
                                      OrderInv, owner, buffers

-----------------------------------------------------------------------------
(* The capture thread's steps                                              *)

\* The capture thread begins to look for a full buffer.
LEMMA ScanningInv ==
  ASSUME IInv, capture' = Scanning \/ capture' = IdleCapture,
         UNCHANGED <<owner, buffers, callback>>
  PROVE  IInv'
<1> USE RecordingAssumption
<1>1. /\ capture' \in Capture /\ capture'.todo = {} /\ capture'.best = Nobody
      /\ capture'.at \in {"idle", "scan"}
  <2>1. CASE capture' = IdleCapture
    BY <2>1, IdleTypes DEF IdleCapture
  <2>2. CASE capture' = Scanning
    <3>1. capture' \in Capture
      BY <2>2, IdleTypes DEF Scanning, Capture
    <3> QED
      BY <2>2, <3>1 DEF Scanning, IdleCapture
  <2> QED
    BY <2>1, <2>2
<1>2. TypeOK'
  BY <1>1 DEF IInv, TypeOK, owner, buffers
<1>3. CaptureInv'
  BY <1>1 DEF CaptureInv, Holding
<1> QED
  BY <1>2, <1>3 DEF IInv, CallbackInv, OrderInv, owner, buffers

\* A look at one buffer keeps the full one with the lowest number.
LEMMA CaptureScanInv == ASSUME IInv, CaptureScan PROVE IInv'
<1> USE RecordingAssumption
<1> DEFINE b == capture.pos
<1>1. /\ capture.at = "scan" /\ b \in Buffer /\ capture \in Capture
      /\ UNCHANGED <<owner, buffers, callback>>
  BY DEF IInv, TypeOK, CaptureScan
<1>2. seq[b] \in 0 .. MaxSeq /\ b + 1 \in 1 .. NumBuffers + 1
  BY <1>1 DEF IInv, TypeOK, Buffer
<1>3. \/ /\ length[b] = Full
         /\ capture' = [capture EXCEPT !.best = b, !.low = seq[b], !.pos = b + 1]
      \/ capture' = [capture EXCEPT !.pos = b + 1]
  BY DEF CaptureScan
<1> HIDE DEF b
<1>4. /\ capture' \in Capture /\ capture'.at = capture.at /\ capture'.todo = capture.todo
      /\ capture'.fresh = capture.fresh
      /\ capture'.best = capture.best \/ (capture'.best = b /\ length[b] = Full)
  <2>1. CASE /\ length[b] = Full
             /\ capture' = [capture EXCEPT !.best = b, !.low = seq[b], !.pos = b + 1]
    BY <1>1, <1>2, <2>1 DEF Capture
  <2>2. CASE capture' = [capture EXCEPT !.pos = b + 1]
    <3>1. capture' \in Capture
      BY <1>1, <1>2, <2>2 DEF Capture
    <3>2. /\ capture'.at = capture.at /\ capture'.todo = capture.todo
          /\ capture'.fresh = capture.fresh /\ capture'.best = capture.best
      BY <1>1, <2>2 DEF Capture
    <3> QED
      BY <3>1, <3>2
  <2> QED
    BY <1>3, <2>1, <2>2
<1>5. TypeOK'
  BY <1>1, <1>4 DEF IInv, TypeOK, owner, buffers
<1>6. CaptureInv'
  BY <1>1, <1>4 DEF IInv, CaptureInv, Holding, buffers
<1> QED
  BY <1>1, <1>5, <1>6 DEF IInv, CallbackInv, OrderInv, owner,
                          buffers

\* The buffer that was found is delivered.
LEMMA CapturePickInv == ASSUME IInv, CapturePick PROVE IInv'
<1>1. /\ capture.at = "scan" /\ capture \in Capture
      /\ UNCHANGED <<owner, buffers, callback>>
  BY DEF IInv, TypeOK, CapturePick
<1>2. CASE capture.best = Nobody
  BY <1>1, <1>2, ScanningInv DEF CapturePick
<1>3. CASE capture.best # Nobody
  <2>1. capture' = [capture EXCEPT !.at = "deliver"]
    BY <1>3 DEF CapturePick
  <2>2. /\ capture' \in Capture /\ capture'.at = "deliver" /\ capture'.todo = capture.todo
        /\ capture'.fresh = capture.fresh /\ capture'.best = capture.best
    BY <1>1, <2>1 DEF Capture
  <2>3. TypeOK'
    BY <1>1, <2>2 DEF IInv, TypeOK, owner, buffers
  <2>4. CaptureInv'
    BY <1>1, <1>3, <2>2 DEF IInv, CaptureInv, Holding, Capture, buffers
  <2> QED
    BY <1>1, <2>3, <2>4 DEF IInv, CallbackInv, OrderInv,
                            owner, buffers
<1> QED
  BY <1>2, <1>3

\* After the delivery the buffer is still held.
LEMMA CaptureDeliverInv == ASSUME IInv, CaptureDeliver PROVE IInv'
<1>1. /\ capture.at = "deliver" /\ capture \in Capture
      /\ capture' = [capture EXCEPT !.at = "store", !.todo = CaptureStores]
      /\ UNCHANGED <<owner, buffers, callback>>
  BY DEF IInv, TypeOK, CaptureDeliver
<1>2. /\ capture' \in Capture /\ capture'.at = "store"
      /\ capture'.fresh = capture.fresh /\ capture'.best = capture.best
  BY <1>1 DEF Capture
<1>3. TypeOK'
  BY <1>1, <1>2 DEF IInv, TypeOK, owner, buffers
<1>4. CaptureInv'
  BY <1>1, <1>2 DEF IInv, CaptureInv, Holding, buffers
<1> QED
  BY <1>1, <1>3, <1>4 DEF IInv, CallbackInv, OrderInv,
                          owner, buffers

\* A store of the capture thread empties a buffer at most; then it holds none.
LEMMA CaptureStoreInv ==
  ASSUME IInv, NEW x \in CaptureStores, CaptureStore(x) PROVE IInv'
<1> USE RecordingAssumption
<1> DEFINE b == capture.best
<1>1. /\ capture.at = "store" /\ x \in capture.todo /\ capture \in Capture
      /\ capture' = [capture EXCEPT !.todo = @ \ {x},
                                    !.total = IF x = "load" THEN total ELSE @]
      /\ seq' = IF x = "seq" THEN [seq EXCEPT ![b] = 0] ELSE seq
      /\ total' = IF x = "total" THEN (capture.total - length[b]) % Word ELSE total
      /\ length' = IF x = "length" THEN [length EXCEPT ![b] = 0] ELSE length
      /\ UNCHANGED <<owner, cur, callback>>
  BY DEF IInv, TypeOK, CaptureStore, May
<1>2. /\ b \in Buffer /\ total \in 0 .. Word - 1 /\ capture.total \in 0 .. Word - 1
      /\ length \in [Buffer -> 0 .. Full] /\ seq \in [Buffer -> 0 .. MaxSeq]
  BY <1>1 DEF IInv, TypeOK, CaptureInv, Capture
<1>3. /\ capture' \in Capture /\ capture'.todo = capture.todo \ {x}
      /\ capture'.at = capture.at /\ capture'.best = b /\ capture'.fresh = capture.fresh
  <2>1. (IF x = "load" THEN total ELSE capture.total) \in 0 .. Word - 1
    BY <1>2
  <2> QED
    BY <1>1, <2>1 DEF Capture
<1> HIDE DEF b
<1>4. total' \in 0 .. Word - 1
  <2>1. capture.total - length[b] \in Int
    BY <1>2
  <2> QED
    BY <1>1, <1>2, <2>1, Wraps
<1>5. seq' \in [Buffer -> 0 .. MaxSeq]
  BY <1>1, <1>2
<1>6. /\ length' \in [Buffer -> 0 .. Full]
      /\ \A c \in Buffer : length'[c] = 0 \/ length'[c] = length[c]
      /\ x # "length" => length' = length
  BY <1>1, <1>2
<1>7. TypeOK'
  BY <1>1, <1>3, <1>4, <1>5, <1>6 DEF IInv, TypeOK, owner
<1>8. CallbackInv'
  <2>1. callback' = callback /\ callback \in Callback /\ cur' = cur
    BY <1>1 DEF IInv, TypeOK
  <2>2. Full \in Int /\ callback.len \in Int
        /\ \A c \in Buffer : length[c] \in Int /\ length'[c] \in Int /\ 0 <= length[c]
    BY <1>2, <1>6, <2>1 DEF Callback
  <2>3. ASSUME callback.at = "scan", callback.pick # Nobody
        PROVE  length'[callback.pick] < Full
    <3>1. callback.pick \in Buffer
      BY <2>1, <2>3 DEF Callback
    <3> QED
      BY <1>6, <2>2, <2>3, <3>1 DEF IInv, CallbackInv
  <2>4. ASSUME callback.at = "store", "length" \in callback.todo
        PROVE  length'[callback.pick] <= callback.len
    BY <1>6, <2>1, <2>2, <2>4 DEF IInv, CallbackInv
  <2> QED
    BY <2>1, <2>3, <2>4 DEF IInv, CallbackInv
<1>9. CaptureInv'
  <2>1. CASE x = "length"
    BY <1>1, <1>2, <1>3, <2>1 DEF CaptureInv, Holding
  <2>2. CASE x # "length"
    BY <1>1, <1>2, <1>3, <1>6, <2>2 DEF IInv, CaptureInv, Holding, b
  <2> QED
    BY <2>1, <2>2
<1>10. OrderInv'
  BY <1>1 DEF IInv, OrderInv
<1> QED
  BY <1>7, <1>8, <1>9, <1>10 DEF IInv

-----------------------------------------------------------------------------
(* The theorems                                                            *)

\* Every step keeps the invariant.
LEMMA NextInv == ASSUME IInv, [Next]_vars PROVE IInv'
<1>1. CASE UNCHANGED vars
  BY <1>1 DEF IInv, TypeOK, CallbackInv, CaptureInv,
              Holding, OrderInv, vars
<1>2. CASE InitStreams \/ Playout \/ StopRecord \/ StartRecord \/ OwnerStarts
  BY <1>2, DeviceInv, StartRecordInv, ResetInv DEF OwnerStarts
<1>3. CASE CallbackBegin \/ CallbackStep
  BY <1>3, CallbackBeginInv, CallbackScanInv, CallbackPickInv, CallbackSeqInv,
     CallbackLengthInv, CallbackOtherInv, CallbackNextInv DEF CallbackStep
<1>4. CASE CaptureStep
  <2>1. CASE CaptureBegin \/ CaptureNext
    BY <2>1, ScanningInv DEF CaptureBegin, CaptureNext
  <2> QED
    BY <1>4, <2>1, CaptureScanInv, CapturePickInv, CaptureDeliverInv, CaptureStoreInv
       DEF CaptureStep
<1> QED
  BY <1>1, <1>2, <1>3, <1>4 DEF Next

\* The invariant holds in every reachable state.
LEMMA Invariant == Spec => []IInv
BY InitInv, NextInv, PTL DEF Spec

\* No buffer of the device overflows, however the steps of its threads and the
\* starts of recordings interleave and in whatever order stores become visible.
THEOREM TypeCorrect == Spec => []TypeOK
<1>1. IInv => TypeOK
  BY DEF IInv
<1> QED
  BY <1>1, Invariant, PTL

\* If the callback copies into the buffer that is delivered, its own store of the
\* length has overtaken the copy.
CopyOvertaken ==
    Holding /\ capture.fresh /\ "data" \in callback.todo
        /\ callback.pick = capture.best => ~InOrder /\ "length" \notin callback.todo

\* RecordProcessImpl writes to a buffer that CaptureWorkerThread delivers for one
\* reason only: the length, which "has to be done last", became visible before the
\* samples.  No interleaving of the two threads brings it about, and no reordering
\* of any other store of either.
THEOREM CopiesAlone == Spec => []CopyOvertaken
<1>1. IInv => CopyOvertaken
  <2> SUFFICES ASSUME IInv, Holding, capture.fresh, "data" \in callback.todo,
                      callback.pick = capture.best, "length" \in callback.todo
               PROVE  FALSE
    BY DEF CopyOvertaken, IInv, OrderInv
  <2>1. callback.at = "store"
    BY DEF IInv, CallbackInv, TypeOK, Callback
  <2>2. length[callback.pick] < Full
    <3>1. /\ length[callback.pick] <= callback.len /\ callback.pick \in Buffer
          /\ 1 <= callback.copy /\ callback.len + callback.copy <= Full
      BY <2>1 DEF IInv, CallbackInv
    <3>2. /\ callback.len \in Int /\ callback.copy \in Int /\ Full \in Int
          /\ length[callback.pick] \in Int
      BY <3>1, RecordingAssumption DEF IInv, TypeOK, Callback
    <3> QED
      BY <3>1, <3>2
  <2>3. capture.best \in Buffer /\ length[capture.best] = Full
    <3>1. capture.at \in {"deliver", "store"}
      BY DEF IInv, CaptureInv, TypeOK, Capture, Holding
    <3> QED
      BY <3>1 DEF IInv, CaptureInv, Buffer, Nobody
  <2> QED
    BY <2>2, <2>3, RecordingAssumption
<1> QED
  BY <1>1, Invariant, PTL

\* Recorded data are not lost, in whatever order stores become visible: two
\* threads write lengths without a lock, and yet a buffer never shrinks before
\* it was delivered, unless a recording is started or was started while the
\* capture thread had the buffer.
THEOREM DataKept == Spec => NothingOverwritten
<1>1. ASSUME IInv, Next, NEW b \in Buffer, length'[b] # length[b]
      PROVE  \/ "length" \in clearing \ clearing'
             \/ callback.at = "store" /\ b = callback.pick /\ length'[b] > length[b]
             \/ /\ capture.at = "store" /\ b = capture.best
                /\ length'[b] = 0
                /\ capture.fresh => length[b] = Full
  <2>1. length \in [Buffer -> 0 .. Full] /\ Full \in Nat
    BY <1>1, RecordingAssumption DEF IInv, TypeOK
  <2>2. \/ \E x \in Resets : Reset(x)
        \/ \E x \in CallbackStores : CallbackStore(x)
        \/ \E x \in CaptureStores : CaptureStore(x)
    BY <1>1 DEF Next, OwnerStarts, CallbackStep, CaptureStep, InitStreams, Playout, StopRecord,
         StartRecord, Becomes, StartUnit, CallbackBegin, CallbackScan, CallbackPick,
         CallbackNext, CaptureBegin, CaptureScan, CapturePick, CaptureDeliver, CaptureNext,
         buffers
  <2>3. CASE \E x \in Resets : Reset(x)
    BY <1>1, <2>3 DEF Reset, May
  <2>4. CASE \E x \in CallbackStores : CallbackStore(x)
    <3>1. CallbackStore("length")
      BY <1>1, <2>4 DEF CallbackStore
    <3>2. /\ callback.at = "store" /\ callback.pick \in Buffer /\ callback \in Callback
          /\ 1 <= callback.copy /\ length[callback.pick] <= callback.len
      BY <1>1, <3>1 DEF CallbackStore, May, IInv, TypeOK, CallbackInv
    <3>3. PICK l \in {callback.len, length[callback.pick]} :
             length' = [length EXCEPT ![callback.pick] = l + callback.copy]
      BY <3>1 DEF CallbackStore
    <3>4. b = callback.pick
      BY <1>1, <2>1, <3>3
    <3>5. callback.len \in Int /\ callback.copy \in Int /\ length[b] \in Int
      BY <2>1, <3>2, <3>4, RecordingAssumption DEF Callback
    <3> QED
      BY <2>1, <3>2, <3>3, <3>4, <3>5
  <2>5. CASE \E x \in CaptureStores : CaptureStore(x)
    <3>1. CaptureStore("length")
      BY <1>1, <2>5 DEF CaptureStore
    <3>2. /\ capture.at = "store" /\ "length" \in capture.todo /\ capture.best \in Buffer
          /\ length' = [length EXCEPT ![capture.best] = 0]
      BY <1>1, <3>1 DEF CaptureStore, May, IInv, CaptureInv
    <3>3. b = capture.best /\ length'[b] = 0
      BY <1>1, <2>1, <3>2
    <3>4. capture.fresh => length[b] = Full
      BY <1>1, <3>2, <3>3 DEF IInv, CaptureInv, Holding, Buffer, Nobody
    <3> QED
      BY <3>2, <3>3, <3>4
  <2> QED
    BY <2>2, <2>3, <2>4, <2>5
<1>2. IInv /\ [Next]_vars => [RecordingsKept]_vars
  BY <1>1 DEF RecordingsKept
<1> QED
  BY <1>2, Invariant, PTL DEF Spec, NothingOverwritten

=============================================================================
