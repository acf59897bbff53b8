--------------------------- MODULE AudioUnitDevice ---------------------------
(***************************************************************************)
(* AudioDeviceIPhone: the microphone and the loudspeaker of an iPhone      *)
(* behind one shared audio unit.  The unit is created by the direction     *)
(* that is initialised first, started by the one that starts first, and    *)
(* stopped and disposed of when neither runs.                              *)
(*                                                                         *)
(* A device is a record; an operation maps it to the set of its possible   *)
(* outcomes, each a device and whether the caller is told of success: the  *)
(* system may refuse to create the unit and to start it.  Both directions  *)
(* have the same code.  That a direction's device is specified is not      *)
(* kept: VoEBaseImpl::Init selects the only one there is before use.       *)
(***************************************************************************)

Direction == {"playout", "recording"}

Device == [initialized : BOOLEAN,
           ready : SUBSET Direction,   \* _playIsInitialized, _recIsInitialized
           on : SUBSET Direction,      \* _playing, _recording
           unit : {"none", "stopped", "running"}]   \* _auVoiceProcessing

NewDevice == [initialized |-> FALSE, ready |-> {}, on |-> {}, unit |-> "none"]

Done(d) == [dev |-> d, ok |-> TRUE]
Refused(d) == [dev |-> d, ok |-> FALSE]

\* Creates the audio unit if there is none.  A failure is logged only.
InitPlayOrRecord(d) ==
    IF d.unit = "none" THEN {d, [d EXCEPT !.unit = "stopped"]} ELSE {d}

\* Stops the audio unit and disposes of it.
ShutdownPlayOrRecord(d) == [d EXCEPT !.unit = "none"]

InitStream(d, x) ==
    IF ~d.initialized \/ x \in d.on THEN {Refused(d)}
    ELSE IF x \in d.ready THEN {Done(d)}
    ELSE LET prepared == [d EXCEPT !.ready = @ \cup {x}]
         IN  IF d.ready = {} THEN {Done(e) : e \in InitPlayOrRecord(prepared)}
                             ELSE {Done(prepared)}

\* AudioOutputUnitStart refuses a unit that does not exist.
StartStream(d, x) ==
    LET started == [d EXCEPT !.on = @ \cup {x}]
    IN  IF ~d.initialized \/ x \notin d.ready THEN {Refused(d)}
        ELSE IF d.on # {} THEN {Done(started)}
        ELSE IF d.unit = "none" THEN {Refused(d)}
        ELSE {Refused(d), Done([started EXCEPT !.unit = "running"])}

\* Mutant: shuts the unit down without asking for the other direction.
Mutant_StopStream(d, x) ==
    IF ~d.initialized THEN Refused(d)
    ELSE IF x \notin d.ready THEN Done(d)
    ELSE Done([ShutdownPlayOrRecord(d) EXCEPT !.on = @ \ {x}, !.ready = @ \ {x}])

StopStream(d, x) ==
    IF ~d.initialized THEN Refused(d)
    ELSE IF x \notin d.ready THEN Done(d)
    ELSE LET off == [d EXCEPT !.on = @ \ {x}]
             shut == IF off.on = {} THEN ShutdownPlayOrRecord(off) ELSE off
         IN  Done([shut EXCEPT !.ready = @ \ {x}])

InitPlayout(d) == InitStream(d, "playout")
InitRecording(d) == InitStream(d, "recording")
StartPlayout(d) == StartStream(d, "playout")
StartRecording(d) == StartStream(d, "recording")
StopPlayout(d) == StopStream(d, "playout")
StopRecording(d) == StopStream(d, "recording")

\* Init fails when the thread that delivers recorded data is not created.
InitDevice(d) ==
    IF d.initialized THEN {Done(d)}
    ELSE {Refused(d), Done([d EXCEPT !.initialized = TRUE])}

TerminateDevice(d) ==
    IF d.initialized
    THEN [ShutdownPlayOrRecord(d) EXCEPT !.initialized = FALSE]
    ELSE d

\* Stops what runs and starts it again, both inits before both starts.
InitAgain(d, x, was) == IF x \in was.ready THEN {r.dev : r \in InitStream(d, x)} ELSE {d}
StartAgain(d, x, was) == IF x \in was.on THEN {r.dev : r \in StartStream(d, x)} ELSE {d}

ResetAudioDevice(d) ==
    IF ~d.initialized \/ d.ready = {} THEN {d}
    ELSE {e \in Device :
            \E d1 \in InitAgain(StopRecording(StopPlayout(d).dev).dev, "playout", d) :
            \E d2 \in InitAgain(d1, "recording", d) :
            \E d3 \in StartAgain(d2, "playout", d) :
               e \in StartAgain(d3, "recording", d)}
==============================================================================
