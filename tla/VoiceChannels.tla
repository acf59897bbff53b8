---------------------------- MODULE VoiceChannels ----------------------------
(***************************************************************************)
(* The channels of a voice engine: ChannelManager and ChannelOwner, used   *)
(* by the threads that call VoEBase (under its critical section) and by    *)
(* the socket and audio threads (without it).                              *)
(*                                                                         *)
(* An owner is a reference to a channel in a frame of a thread: `owns' are *)
(* the locals of the caller, `reference' the local of DestroyChannel and   *)
(* DestroyAllChannels.  The list channels_ holds one owner per channel.    *)
(* The owners that vector operations copy and drop again while the lock is *)
(* held cancel out and are left out.                                       *)
(***************************************************************************)
EXTENDS Integers, FiniteSets

CONSTANTS
    Thread,     \* the threads that use the engine
    Api,        \* those that call VoEBase
    Socket,     \* those that deliver packets to a channel
    Audio,      \* those that go over all channels
    MaxId,      \* bound: the last channel id that is given out
    NoThread    \* "no thread", for a lock that is free

ASSUME ThreadAssumption ==
    /\ IsFiniteSet(Thread)
    /\ Api \subseteq Thread
    /\ NoThread \notin Thread
    /\ MaxId \in Nat

VARIABLES
    lastId,     \* last_channel_id_
    channels,   \* channels_, as the set of the ids in it
    count,      \* ref_count of each ChannelRef
    exists,     \* the Channel objects that are constructed and not deleted
    apiLock,    \* who is in SharedData's critical section
    lock,       \* who is in ChannelManager's lock_
    pc,         \* what each thread does next
    call,       \* the method each thread is in
    arg,        \* its channel id
    owns,       \* the owners in its caller's frame
    reference   \* the owners in the frame of DestroyChannel(s)

vars == <<lastId, channels, count, exists, apiLock, lock, pc, call, arg, owns,
          reference>>

Ids == 0 .. MaxId

Calls == {"CreateChannel", "DeleteChannel", "GetChannel", "GetAllChannels", 
          "DestroyChannel", "DestroyAllChannels", "none"}
Places == {"idle", "construct", "lock", "body", "unlock", "use", "drop", "delete"}

Init ==
    /\ lastId = -1
    /\ channels = {}
    /\ count = [i \in Ids |-> 0]
    /\ exists = {}
    /\ apiLock = NoThread
    /\ lock = NoThread
    /\ pc = [t \in Thread |-> "idle"]
    /\ call = [t \in Thread |-> "none"]
    /\ arg = [t \in Thread |-> 0]
    /\ owns = [t \in Thread |-> {}]
    /\ reference = [t \in Thread |-> {}]

-----------------------------------------------------------------------------
(* Entering a method                                                       *)

Go(t, place) == pc' = [pc EXCEPT ![t] = place]

Enter(t, c, place) ==
    /\ pc[t] = "idle"
    /\ call' = [call EXCEPT ![t] = c]
    /\ Go(t, place)

\* A method of VoEBase first takes the critical section of the engine.
TakeApi(t) ==
    /\ t \in Api
    /\ apiLock = NoThread
    /\ apiLock' = t

VoE_CreateChannel(t) ==
    /\ lastId < MaxId
    /\ TakeApi(t)
    /\ Enter(t, "CreateChannel", "construct")
    /\ UNCHANGED <<lastId, channels, count, exists, lock, arg, owns, reference>>

\* DeleteChannel looks the channel up before it destroys it.
VoE_DeleteChannel(t) ==
    /\ TakeApi(t)
    /\ Enter(t, "DeleteChannel", "lock")
    /\ \E i \in Ids : arg' = [arg EXCEPT ![t] = i]
    /\ UNCHANGED <<lastId, channels, count, exists, lock, owns, reference>>

VoE_Terminate(t) ==
    /\ TakeApi(t)
    /\ Enter(t, "DestroyAllChannels", "lock")
    /\ UNCHANGED <<lastId, channels, count, exists, lock, arg, owns, reference>>

\* A socket thread delivers a packet to a channel.
ReceivedRTPPacket(t) ==
    /\ t \in Socket
    /\ Enter(t, "GetChannel", "lock")
    /\ \E i \in Ids : arg' = [arg EXCEPT ![t] = i]
    /\ UNCHANGED <<lastId, channels, count, exists, apiLock, lock, owns, reference>>

\* The audio threads go over all channels (ChannelManager::Iterator).
Iterate(t) ==
    /\ t \in Audio
    /\ Enter(t, "GetAllChannels", "lock")
    /\ UNCHANGED <<lastId, channels, count, exists, apiLock, lock, arg, owns,
                   reference>>

-----------------------------------------------------------------------------
(* The methods of ChannelManager                                           *)

\* CreateChannel makes the channel and its first owner outside the lock.
Construct(t) ==
    /\ pc[t] = "construct"
    /\ lastId' = lastId + 1
    /\ count' = [count EXCEPT ![lastId + 1] = 1]
    /\ exists' = exists \cup {lastId + 1}
    /\ owns' = [owns EXCEPT ![t] = {lastId + 1}]
    /\ arg' = [arg EXCEPT ![t] = lastId + 1]
    /\ Go(t, "lock")
    /\ UNCHANGED <<channels, apiLock, lock, call, reference>>

Lock(t) ==
    /\ pc[t] = "lock"
    /\ lock = NoThread
    /\ lock' = t
    /\ Go(t, "body")
    /\ UNCHANGED <<lastId, channels, count, exists, apiLock, call, arg, owns,
                   reference>>

\* One more owner of each channel of S.
Add(S) == count' = [i \in Ids |-> IF i \in S THEN count[i] + 1 ELSE count[i]]

InBody(t, C) == pc[t] = "body" /\ call[t] \in C /\ Go(t, "unlock")

PushBack(t) ==
    /\ InBody(t, {"CreateChannel"})
    /\ channels' = channels \cup {arg[t]}
    /\ Add({arg[t]})
    /\ UNCHANGED <<lastId, exists, apiLock, lock, call, arg, owns, reference>>

\* Mutants: the copies are not counted; a channel is found by its id only.
Mutant_Copy(t, S) ==
    /\ owns' = [owns EXCEPT ![t] = S]
    /\ UNCHANGED <<lastId, channels, count, exists, apiLock, lock, call, arg,
                   reference>>

\* The copies a lookup makes, of one channel or of all.
Copy(t, S) ==
    /\ owns' = [owns EXCEPT ![t] = S]
    /\ Add(S)
    /\ UNCHANGED <<lastId, channels, exists, apiLock, lock, call, arg, reference>>

Mutant_GetChannel(t) ==
    InBody(t, {"GetChannel", "DeleteChannel"}) /\ Copy(t, {arg[t]} \cap exists)

GetChannel(t) ==
    InBody(t, {"GetChannel", "DeleteChannel"}) /\ Copy(t, {arg[t]} \cap channels)
GetAllChannels(t) == InBody(t, {"GetAllChannels"}) /\ Copy(t, channels)

\* The list's owners become the locals of the method: the counts stay.
Take(t, S) ==
    /\ reference' = [reference EXCEPT ![t] = S]
    /\ channels' = channels \ S
    /\ UNCHANGED <<lastId, count, exists, apiLock, lock, call, arg, owns>>

DestroyChannel(t) == InBody(t, {"DestroyChannel"}) /\ Take(t, {arg[t]} \cap channels)
DestroyAllChannels(t) == InBody(t, {"DestroyAllChannels"}) /\ Take(t, channels)

\* Mutant: the local of DestroyChannel is declared inside the lock's scope.
Mutant_Unlock(t) ==
    /\ pc[t] = "unlock"
    /\ lock' = IF reference[t] = {} THEN NoThread ELSE lock
    /\ Go(t, "use")
    /\ UNCHANGED <<lastId, channels, count, exists, apiLock, call, arg, owns,
                   reference>>

Unlock(t) ==
    /\ pc[t] = "unlock"
    /\ lock' = NoThread
    /\ Go(t, "use")
    /\ UNCHANGED <<lastId, channels, count, exists, apiLock, call, arg, owns,
                   reference>>

-----------------------------------------------------------------------------
(* Back in the caller                                                      *)

\* The caller is done with the channels; its owners go out of scope.  When
\* DeleteChannel found none it is done, too.
Use(t) ==
    /\ pc[t] = "use"
    /\ call' = [call EXCEPT ![t] =
                    IF @ = "DeleteChannel" /\ owns[t] = {} THEN "none" ELSE @]
    /\ Go(t, "drop")
    /\ UNCHANGED <<lastId, channels, count, exists, apiLock, lock, arg, owns,
                   reference>>

\* VoEBaseImpl::CreateChannel destroys a channel that cannot be set up and
\* keeps its own owner until it returns.
SetUpFails(t) ==
    /\ pc[t] = "use" /\ call[t] = "CreateChannel"
    /\ call' = [call EXCEPT ![t] = "DestroyChannel"]
    /\ Go(t, "lock")
    /\ UNCHANGED <<lastId, channels, count, exists, apiLock, lock, arg, owns,
                   reference>>

\* Mutants of ~ChannelOwner: it counts twice, deletes too early, never deletes.
Mutant_Release_twice(t, i) ==
    /\ count' = [count EXCEPT ![i] = @ - 2]
    /\ IF count[i] = 1
       THEN Go(t, "delete") /\ arg' = [arg EXCEPT ![t] = i]
       ELSE UNCHANGED <<pc, arg>>

Mutant_Release_early(t, i) ==
    /\ count' = [count EXCEPT ![i] = @ - 1]
    /\ IF count[i] <= 2
       THEN Go(t, "delete") /\ arg' = [arg EXCEPT ![t] = i]
       ELSE UNCHANGED <<pc, arg>>

Mutant_Release_never(t, i) ==
    /\ count' = [count EXCEPT ![i] = @ - 1]
    /\ UNCHANGED <<pc, arg>>

\* ~ChannelOwner: the decrement is atomic, and who reaches zero deletes.
Release(t, i) ==
    /\ count' = [count EXCEPT ![i] = @ - 1]
    /\ IF count[i] = 1
       THEN Go(t, "delete") /\ arg' = [arg EXCEPT ![t] = i]
       ELSE UNCHANGED <<pc, arg>>

DropReference(t) ==
    /\ pc[t] = "drop"
    /\ \E i \in reference[t] :
          Release(t, i) /\ reference' = [reference EXCEPT ![t] = @ \ {i}]
    /\ UNCHANGED <<lastId, channels, exists, apiLock, lock, call, owns>>

DropOwner(t) ==
    /\ pc[t] = "drop" /\ reference[t] = {}
    /\ \E i \in owns[t] :
          Release(t, i) /\ owns' = [owns EXCEPT ![t] = @ \ {i}]
    /\ UNCHANGED <<lastId, channels, exists, apiLock, lock, call, reference>>

\* delete channel_ref_: the Channel's destructor runs in this thread.
Delete(t) ==
    /\ pc[t] = "delete"
    /\ exists' = exists \ {arg[t]}
    /\ Go(t, "drop")
    /\ UNCHANGED <<lastId, channels, count, apiLock, lock, call, arg, owns, reference>>

Dropped(t) == pc[t] = "drop" /\ owns[t] = {} /\ reference[t] = {}

\* DeleteChannel goes on to destroy the channel it found.
Destroy(t) ==
    /\ Dropped(t) /\ call[t] = "DeleteChannel"
    /\ call' = [call EXCEPT ![t] = "DestroyChannel"]
    /\ Go(t, "lock")
    /\ UNCHANGED <<lastId, channels, count, exists, apiLock, lock, arg, owns,
                   reference>>

Return(t) ==
    /\ Dropped(t) /\ call[t] # "DeleteChannel"
    /\ apiLock' = IF apiLock = t THEN NoThread ELSE apiLock
    /\ call' = [call EXCEPT ![t] = "none"]
    /\ Go(t, "idle")
    /\ UNCHANGED <<lastId, channels, count, exists, lock, arg, owns, reference>>

-----------------------------------------------------------------------------

Start(t) ==
    \/ VoE_CreateChannel(t) \/ VoE_DeleteChannel(t) \/ VoE_Terminate(t)
    \/ ReceivedRTPPacket(t) \/ Iterate(t)

Step(t) ==
    \/ Construct(t) \/ Lock(t)
    \/ PushBack(t) \/ GetChannel(t) \/ GetAllChannels(t)
    \/ DestroyChannel(t) \/ DestroyAllChannels(t) \/ Unlock(t)
    \/ Use(t) \/ SetUpFails(t)
    \/ DropReference(t) \/ DropOwner(t) \/ Delete(t) \/ Destroy(t) \/ Return(t)

Next == \E t \in Thread : Start(t) \/ Step(t)

\* A thread inside the engine runs on; nobody has to call.
Spec == Init /\ [][Next]_vars /\ \A t \in Thread : WF_vars(Step(t))

-----------------------------------------------------------------------------
(* Properties                                                              *)

\* The variables hold values of their types.
TypeOK ==
    /\ lastId \in -1 .. MaxId
    /\ channels \subseteq Ids
    /\ count \in [Ids -> Nat]
    /\ exists \subseteq Ids
    /\ apiLock \in Api \cup {NoThread}
    /\ lock \in Thread \cup {NoThread}
    /\ pc \in [Thread -> Places]
    /\ call \in [Thread -> Calls]
    /\ arg \in [Thread -> Ids]
    /\ owns \in [Thread -> SUBSET Ids]
    /\ reference \in [Thread -> SUBSET Ids]

\* The threads that own channel i in the frames f.
Holders(f, i) == {t \in Thread : i \in f[t]}
Listed(i) == IF i \in channels THEN 1 ELSE 0
NumOwners(i) == Cardinality(Holders(owns, i)) + Cardinality(Holders(reference, i))
                  + Listed(i)

\* ChannelRef::ref_count is the number of owners, in the list and in the frames
\* of all threads, after every interleaving of copies and destructors.
CountIsOwners == \A i \in Ids : count[i] = NumOwners(i)

\* "As the Iterator holds its own references to the Channels, they will remain
\* valid even if they are removed from the ChannelManager": no owner, also
\* none that a media thread took before DeleteChannel, outlives its channel.
OwnersAlive ==
    /\ channels \subseteq exists
    /\ \A t \in Thread : owns[t] \cup reference[t] \subseteq exists

\* "we never delete Channels while holding a lock": the thread whose destructor
\* deletes a channel is not in the manager's lock, nobody else is deleting the
\* channel and nobody can reach it.
DeleteAlone ==
    \A t \in Thread : pc[t] = "delete" =>
        /\ lock # t
        /\ arg[t] \in exists
        /\ NumOwners(arg[t]) = 0
        /\ \A u \in Thread \ {t} : pc[u] = "delete" => arg[u] # arg[t]

\* A channel that was pushed and is not in the list any more is deleted in the
\* end, by whichever thread drops the last owner: DeleteChannel leaks nothing.
Unlisted(i) ==
    /\ i \in exists \ channels
    /\ \A t \in Thread : ~(/\ call[t] = "CreateChannel"
                           /\ pc[t] \in {"lock", "body"}
                           /\ arg[t] = i)
DestroyedIsDeleted == \A i \in Ids : Unlisted(i) ~> i \notin exists

\* Where owners live, for the abstract specification.
OwnerPlaces == {<<"channels_", NoThread>>} \cup ({"owns", "reference"} \X Thread)
ListOwners == {<<"channels_", NoThread>>} \X channels
FrameOwners ==
    UNION {({<<"owns", t>>} \X owns[t]) \cup ({<<"reference", t>>} \X reference[t]) :
               t \in Thread}

Lifetime == INSTANCE ObjectLifetime WITH
    Place <- OwnerPlaces, Object <- Ids, made <- 0 .. lastId, alive <- exists,
    owners <- ListOwners \cup FrameOwners

\* The counter implements ownership: "Channels are deleted when no references to
\* them are held", and not before.
ImplementsLifetime == Lifetime!Spec

=============================================================================
