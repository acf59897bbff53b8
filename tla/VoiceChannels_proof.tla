------------------------- MODULE VoiceChannels_proof -------------------------
(***************************************************************************)
(* Proofs about VoiceChannels, for every finite set of threads and every   *)
(* number of channels: the reference count is the number of owners, and so *)
(* no owner ever refers to a deleted channel, none is leaked, and some     *)
(* thread that has or wants a lock can always go on.                       *)
(***************************************************************************)
EXTENDS VoiceChannels, FiniteSetTheorems, TLAPS

-----------------------------------------------------------------------------
(* The inductive invariant                                                 *)

Pushing(t) == pc[t] \in {"lock", "body"} /\ call[t] = "CreateChannel"

\* What the frames of a thread hold where.
Frames ==
    \A t \in Thread :
        /\ pc[t] = "construct" => call[t] = "CreateChannel"
        /\ pc[t] \in {"idle", "construct"} => owns[t] = {}
        /\ pc[t] \in {"idle", "construct", "lock", "body"} => reference[t] = {}
        /\ pc[t] \in {"unlock", "use"} /\ call[t] = "CreateChannel" => reference[t] = {}
        /\ Pushing(t) => arg[t] \in owns[t]
        /\ /\ pc[t] \in {"lock", "body"}
           /\ call[t] \in {"GetChannel", "DeleteChannel", "GetAllChannels"}
           => owns[t] = {}

\* The two locks exclude what they are there to exclude.
Locks ==
    \A t \in Thread :
        /\ lock = t <=> pc[t] \in {"body", "unlock"}
        /\ pc[t] = "construct" \/ Pushing(t) => apiLock = t

\* The ids that were not given out, and the one that is being pushed.
Fresh ==
    /\ \A i \in Ids : i > lastId => count[i] = 0 /\ i \notin exists
    /\ \A t \in Thread : pc[t] = "construct" => lastId < MaxId
    /\ \A t \in Thread : Pushing(t) => arg[t] \notin channels

\* A channel that is counted exists, and a deleter is alone with its channel.
Life == \A i \in Ids : count[i] > 0 => i \in exists
Deleting ==
    \A t \in Thread : pc[t] = "delete" =>
        /\ arg[t] \in exists
        /\ count[arg[t]] = 0
        /\ \A u \in Thread \ {t} : pc[u] = "delete" => arg[u] # arg[t]

IInv ==
    TypeOK /\ CountIsOwners /\ Frames /\ Locks /\ Fresh /\ Life /\ Deleting

-----------------------------------------------------------------------------
(* Counting                                                                *)

\* The number of threads that hold a channel changes with the one frame that
\* changes.
Bit(b) == IF b THEN 1 ELSE 0

\* Finitely many threads hold a channel.
LEMMA HoldersFinite ==
  ASSUME NEW f \in [Thread -> SUBSET Ids], NEW i \in Ids
  PROVE  IsFiniteSet(Holders(f, i)) /\ Cardinality(Holders(f, i)) \in Nat
BY ThreadAssumption, FS_Subset, FS_CardinalityType DEF Holders

\* One frame changes, and their number by one at most.
LEMMA HoldersChange ==
  ASSUME NEW f \in [Thread -> SUBSET Ids], NEW t \in Thread,
         NEW S \in SUBSET Ids, NEW i \in Ids,
         NEW g, g = [f EXCEPT ![t] = S]
  PROVE  Cardinality(Holders(g, i)) =
           Cardinality(Holders(f, i)) - Bit(i \in f[t]) + Bit(i \in S)
<1> DEFINE H == Holders(f, i)
           G == Holders(g, i)
<1>1. IsFiniteSet(H) /\ Cardinality(H) \in Nat
  BY HoldersFinite
<1>0. \A u \in Thread : g[u] = IF u = t THEN S ELSE f[u]
  OBVIOUS
<1>2. CASE i \in f[t] /\ i \in S
  <2>1. G = H
    BY <1>0, <1>2 DEF Holders
  <2> QED
    BY <1>1, <1>2, <2>1 DEF Bit
<1>3. CASE i \in f[t] /\ i \notin S
  <2>1. G = H \ {t} /\ t \in H
    BY <1>0, <1>3 DEF Holders
  <2> HIDE DEF G, H
  <2>2. Cardinality(G) = Cardinality(H) - 1
    BY <1>1, <2>1, FS_RemoveElement
  <2> QED
    BY <1>1, <1>3, <2>2 DEF Bit, G, H
<1>4. CASE i \notin f[t] /\ i \in S
  <2>1. G = H \cup {t} /\ t \notin H
    BY <1>0, <1>4 DEF Holders
  <2> HIDE DEF G, H
  <2>2. Cardinality(G) = Cardinality(H) + 1
    BY <1>1, <2>1, FS_AddElement
  <2> QED
    BY <1>1, <1>4, <2>2 DEF Bit, G, H
<1>5. CASE i \notin f[t] /\ i \notin S
  <2>1. G = H
    BY <1>0, <1>5 DEF Holders
  <2> QED
    BY <1>1, <1>5, <2>1 DEF Bit
<1> QED
  BY <1>2, <1>3, <1>4, <1>5

\* The same, for the two frames of a thread.
LEMMA OwnsChange ==
  ASSUME owns \in [Thread -> SUBSET Ids], NEW t \in Thread,
         NEW S \in SUBSET Ids, NEW i \in Ids,
         owns' = [owns EXCEPT ![t] = S]
  PROVE  Cardinality(Holders(owns', i)) =
           Cardinality(Holders(owns, i)) - Bit(i \in owns[t]) + Bit(i \in S)
BY HoldersChange, Zenon

\* The same for the frames of DestroyChannel.
LEMMA ReferenceChange ==
  ASSUME reference \in [Thread -> SUBSET Ids], NEW t \in Thread,
         NEW S \in SUBSET Ids, NEW i \in Ids,
         reference' = [reference EXCEPT ![t] = S]
  PROVE  Cardinality(Holders(reference', i)) =
           Cardinality(Holders(reference, i)) - Bit(i \in reference[t]) + Bit(i \in S)
BY HoldersChange, Zenon

\* A channel in somebody's frame has a holder.
LEMMA HoldersPositive ==
  ASSUME NEW f \in [Thread -> SUBSET Ids], NEW t \in Thread, NEW i \in f[t]
  PROVE  Cardinality(Holders(f, i)) > 0
<1>1. i \in Ids
  OBVIOUS
<1>2. IsFiniteSet(Holders(f, i)) /\ Cardinality(Holders(f, i)) \in Nat
  BY <1>1, HoldersFinite
<1>3. t \in Holders(f, i)
  BY DEF Holders
<1>4. Cardinality(Holders(f, i)) # 0
  BY <1>2, <1>3, FS_EmptySet
<1> QED
  BY <1>2, <1>4

\* Who holds a channel is counted.
LEMMA HeldIsCounted ==
  ASSUME TypeOK, CountIsOwners, NEW i \in Ids
  PROVE  /\ NumOwners(i) = count[i] /\ count[i] \in Nat
         /\ i \in channels => count[i] > 0
         /\ \A t \in Thread : i \in owns[t] \cup reference[t] => count[i] > 0
<1>1. /\ Cardinality(Holders(owns, i)) \in Nat
      /\ Cardinality(Holders(reference, i)) \in Nat
      /\ Listed(i) \in {0, 1} /\ (i \in channels => Listed(i) = 1)
  BY HoldersFinite DEF TypeOK, Listed
<1>2. NumOwners(i) = count[i] /\ count[i] \in Nat
  BY DEF CountIsOwners, TypeOK
<1>3. ASSUME NEW t \in Thread, i \in owns[t] PROVE Cardinality(Holders(owns, i)) > 0
  BY <1>3, HoldersPositive DEF TypeOK
<1>4. ASSUME NEW t \in Thread, i \in reference[t]
      PROVE  Cardinality(Holders(reference, i)) > 0
  BY <1>4, HoldersPositive DEF TypeOK
<1> QED
  BY <1>1, <1>2, <1>3, <1>4 DEF NumOwners

\* The id that CreateChannel gives out is new, within the bound.
LEMMA NewId ==
  ASSUME TypeOK, Frames, Fresh, NEW t \in Thread, Construct(t)
  PROVE  /\ lastId + 1 \in Ids /\ lastId + 1 \in -1 .. MaxId
         /\ count[lastId + 1] = 0 /\ lastId + 1 \notin exists
         /\ owns[t] = {}
<1>1. pc[t] = "construct" /\ lastId \in -1 .. MaxId /\ MaxId \in Nat
  BY ThreadAssumption DEF Construct, TypeOK
<1>2. lastId < MaxId
  BY <1>1 DEF Fresh
<1>3. lastId + 1 \in Ids /\ lastId + 1 > lastId /\ lastId + 1 \in -1 .. MaxId
  BY <1>1, <1>2 DEF Ids
<1>4. count[lastId + 1] = 0 /\ lastId + 1 \notin exists
  BY <1>3 DEF Fresh
<1>5. owns[t] = {}
  BY <1>1 DEF Frames
<1> QED
  BY <1>3, <1>4, <1>5

-----------------------------------------------------------------------------
(* One lemma per conjunct of the invariant                                 *)

\* The values stay in their types; a count never drops below zero.
LEMMA TypeStep ==
  ASSUME TypeOK, CountIsOwners, Frames, Locks, Fresh, Life, Deleting, [Next]_vars
  PROVE  TypeOK'
<1> USE ThreadAssumption DEF TypeOK, Calls, Places, Go
<1>0. CASE UNCHANGED vars
  BY <1>0 DEF vars
<1>1. ASSUME NEW t \in Thread, Start(t) \/ Step(t) PROVE TypeOK'
  <2>1. CASE VoE_CreateChannel(t)
    BY <2>1 DEF VoE_CreateChannel, TakeApi, Enter
  <2>2. CASE VoE_DeleteChannel(t)
    BY <2>2 DEF VoE_DeleteChannel, TakeApi, Enter
  <2>3. CASE VoE_Terminate(t)
    BY <2>3 DEF VoE_Terminate, TakeApi, Enter
  <2>4. CASE ReceivedRTPPacket(t)
    BY <2>4 DEF ReceivedRTPPacket, Enter
  <2>5. CASE Iterate(t)
    BY <2>5 DEF Iterate, Enter
  <2>6. CASE Construct(t)
    <3>1. lastId + 1 \in Ids /\ lastId + 1 \in -1 .. MaxId
      BY <2>6, NewId
    <3>2. /\ lastId' \in -1 .. MaxId /\ exists' \subseteq Ids
          /\ count' \in [Ids -> Nat]
      BY <2>6, <3>1 DEF Construct
    <3>3. owns' \in [Thread -> SUBSET Ids] /\ arg' \in [Thread -> Ids]
      BY <2>6, <3>1 DEF Construct
    <3> QED
      BY <2>6, <3>2, <3>3 DEF Construct
  <2>7. CASE Lock(t)
    BY <2>7 DEF Lock
  <2>8. CASE PushBack(t)
    <3>1. count' \in [Ids -> Nat]
      BY <2>8 DEF PushBack, Add
    <3>2. arg[t] \in Ids /\ channels' = channels \cup {arg[t]}
      BY <2>8 DEF PushBack
    <3> QED
      BY <2>8, <3>1, <3>2 DEF PushBack, InBody
  <2>9. CASE GetChannel(t)
    BY <2>9 DEF GetChannel, InBody, Copy, Add
  <2>10. CASE GetAllChannels(t)
    BY <2>10 DEF GetAllChannels, InBody, Copy, Add
  <2>11. CASE DestroyChannel(t)
    BY <2>11 DEF DestroyChannel, InBody, Take
  <2>12. CASE DestroyAllChannels(t)
    BY <2>12 DEF DestroyAllChannels, InBody, Take
  <2>13. CASE Unlock(t)
    BY <2>13 DEF Unlock
  <2>14. CASE Use(t)
    BY <2>14 DEF Use
  <2>15. CASE SetUpFails(t)
    BY <2>15 DEF SetUpFails
  <2>16. CASE DropReference(t)
    <3>1. PICK i \in reference[t] : Release(t, i) /\ reference' = [reference EXCEPT ![t] = @ \ {i}]
      BY <2>16 DEF DropReference
    <3>2. i \in Ids /\ count[i] \in Nat /\ count[i] > 0
      BY HeldIsCounted
    <3> QED
      BY <2>16, <3>1, <3>2 DEF DropReference, Release
  <2>17. CASE DropOwner(t)
    <3>1. PICK i \in owns[t] : Release(t, i) /\ owns' = [owns EXCEPT ![t] = @ \ {i}]
      BY <2>17 DEF DropOwner
    <3>2. i \in Ids /\ count[i] \in Nat /\ count[i] > 0
      BY HeldIsCounted
    <3> QED
      BY <2>17, <3>1, <3>2 DEF DropOwner, Release
  <2>18. CASE Delete(t)
    BY <2>18 DEF Delete
  <2>19. CASE Destroy(t)
    BY <2>19 DEF Destroy, Dropped
  <2>20. CASE Return(t)
    BY <2>20 DEF Return, Dropped
  <2> QED
    BY <1>1, <2>1, <2>2, <2>3, <2>4, <2>5, <2>6, <2>7, <2>8, <2>9, <2>10,
       <2>11, <2>12, <2>13, <2>14, <2>15, <2>16, <2>17, <2>18, <2>19, <2>20 DEF Start, Step
<1> QED
  BY <1>0, <1>1 DEF Next

\* The count follows the owners.
LEMMA CountStep ==
  ASSUME TypeOK, CountIsOwners, Frames, Locks, Fresh, Life, Deleting, [Next]_vars
  PROVE  CountIsOwners'
<1> USE DEF TypeOK, CountIsOwners, NumOwners
<1>0. CASE UNCHANGED vars
  BY <1>0 DEF vars, Holders, Listed
<1>1. ASSUME NEW t \in Thread, Start(t) \/ Step(t) PROVE CountIsOwners'
  <2>1. CASE VoE_CreateChannel(t)
    <3>1. UNCHANGED <<count, owns, reference, channels>>
      BY <2>1 DEF VoE_CreateChannel, TakeApi, Enter
    <3> QED
      BY <3>1 DEF Holders, Listed, Ids
  <2>2. CASE VoE_DeleteChannel(t)
    <3>1. UNCHANGED <<count, owns, reference, channels>>
      BY <2>2 DEF VoE_DeleteChannel, TakeApi, Enter
    <3> QED
      BY <3>1 DEF Holders, Listed, Ids
  <2>3. CASE VoE_Terminate(t)
    <3>1. UNCHANGED <<count, owns, reference, channels>>
      BY <2>3 DEF VoE_Terminate, TakeApi, Enter
    <3> QED
      BY <3>1 DEF Holders, Listed, Ids
  <2>4. CASE ReceivedRTPPacket(t)
    <3>1. UNCHANGED <<count, owns, reference, channels>>
      BY <2>4 DEF ReceivedRTPPacket, Enter
    <3> QED
      BY <3>1 DEF Holders, Listed, Ids
  <2>5. CASE Iterate(t)
    <3>1. UNCHANGED <<count, owns, reference, channels>>
      BY <2>5 DEF Iterate, Enter
    <3> QED
      BY <3>1 DEF Holders, Listed, Ids
  <2>6. CASE Construct(t)
    <3> SUFFICES ASSUME NEW i \in Ids PROVE (count[i] = NumOwners(i))'
      BY DEF CountIsOwners, Ids
    <3>0. /\ Cardinality(Holders(owns, i)) \in Nat
          /\ Cardinality(Holders(reference, i)) \in Nat
          /\ count[i] = NumOwners(i) /\ count[i] \in Nat
      BY HoldersFinite, HeldIsCounted
    <3>1. /\ owns' = [owns EXCEPT ![t] = {lastId + 1}] /\ owns[t] = {}
          /\ count' = [count EXCEPT ![lastId + 1] = 1]
          /\ reference' = reference /\ channels' = channels
          /\ lastId + 1 \in Ids /\ count[lastId + 1] = 0
      BY <2>6, NewId DEF Construct
    <3>2. Cardinality(Holders(owns', i)) =
             Cardinality(Holders(owns, i)) + Bit(i = lastId + 1)
      <4>1. Cardinality(Holders(owns', i)) = Cardinality(Holders(owns, i))
               - Bit(i \in owns[t]) + Bit(i \in {lastId + 1})
        BY <3>1, OwnsChange
      <4> QED
        BY <3>0, <3>1, <4>1 DEF Bit
    <3>3. count'[i] = count[i] + Bit(i = lastId + 1)
      BY <3>0, <3>1 DEF Bit
    <3> QED
      BY <3>0, <3>1, <3>2, <3>3 DEF Listed, Bit, Holders
  <2>7. CASE Lock(t)
    <3>1. UNCHANGED <<count, owns, reference, channels>>
      BY <2>7 DEF Lock
    <3> QED
      BY <3>1 DEF Holders, Listed, Ids
  <2>8. CASE PushBack(t)
    <3> SUFFICES ASSUME NEW i \in Ids PROVE (count[i] = NumOwners(i))'
      BY DEF CountIsOwners, Ids
    <3>0. /\ Cardinality(Holders(owns, i)) \in Nat
          /\ Cardinality(Holders(reference, i)) \in Nat
          /\ count[i] = NumOwners(i) /\ count[i] \in Nat
      BY HoldersFinite, HeldIsCounted
    <3>1. /\ owns' = owns /\ reference' = reference
          /\ channels' = channels \cup {arg[t]} /\ arg[t] \notin channels
          /\ count' = [j \in Ids |-> IF j \in {arg[t]} THEN count[j] + 1 ELSE count[j]]
      BY <2>8 DEF PushBack, InBody, Add, Fresh, Pushing
    <3>2. Listed(i)' = Listed(i) + Bit(i = arg[t])
      BY <3>1 DEF Listed, Bit
    <3>3. count'[i] = count[i] + Bit(i = arg[t])
      BY <3>0, <3>1 DEF Bit
    <3> QED
      BY <3>0, <3>1, <3>2, <3>3 DEF Listed, Bit, Holders
  <2>9. CASE GetChannel(t)
    <3> SUFFICES ASSUME NEW i \in Ids PROVE (count[i] = NumOwners(i))'
      BY DEF CountIsOwners, Ids
    <3>0. /\ Cardinality(Holders(owns, i)) \in Nat
          /\ Cardinality(Holders(reference, i)) \in Nat
          /\ count[i] = NumOwners(i) /\ count[i] \in Nat
      BY HoldersFinite, HeldIsCounted
    <3> DEFINE S == {arg[t]} \cap channels
    <3>1. /\ owns' = [owns EXCEPT ![t] = S] /\ owns[t] = {}
          /\ reference' = reference /\ channels' = channels
          /\ count' = [j \in Ids |-> IF j \in S THEN count[j] + 1 ELSE count[j]]
          /\ S \subseteq Ids
      BY <2>9 DEF GetChannel, InBody, Copy, Add, Frames
    <3> HIDE DEF S
    <3>2. Cardinality(Holders(owns', i)) = Cardinality(Holders(owns, i)) + Bit(i \in S)
      <4>1. Cardinality(Holders(owns', i)) =
               Cardinality(Holders(owns, i)) - Bit(i \in owns[t]) + Bit(i \in S)
        BY <3>1, OwnsChange
      <4> QED
        BY <3>0, <3>1, <4>1 DEF Bit
    <3>3. count'[i] = count[i] + Bit(i \in S)
      BY <3>0, <3>1 DEF Bit
    <3> QED
      BY <3>0, <3>1, <3>2, <3>3 DEF Listed, Bit, Holders
  <2>10. CASE GetAllChannels(t)
    <3> SUFFICES ASSUME NEW i \in Ids PROVE (count[i] = NumOwners(i))'
      BY DEF CountIsOwners, Ids
    <3>0. /\ Cardinality(Holders(owns, i)) \in Nat
          /\ Cardinality(Holders(reference, i)) \in Nat
          /\ count[i] = NumOwners(i) /\ count[i] \in Nat
      BY HoldersFinite, HeldIsCounted
    <3> DEFINE S == channels
    <3>1. /\ owns' = [owns EXCEPT ![t] = S] /\ owns[t] = {}
          /\ reference' = reference /\ channels' = channels
          /\ count' = [j \in Ids |-> IF j \in S THEN count[j] + 1 ELSE count[j]]
          /\ S \subseteq Ids
      BY <2>10 DEF GetAllChannels, InBody, Copy, Add, Frames
    <3> HIDE DEF S
    <3>2. Cardinality(Holders(owns', i)) = Cardinality(Holders(owns, i)) + Bit(i \in S)
      <4>1. Cardinality(Holders(owns', i)) =
               Cardinality(Holders(owns, i)) - Bit(i \in owns[t]) + Bit(i \in S)
        BY <3>1, OwnsChange
      <4> QED
        BY <3>0, <3>1, <4>1 DEF Bit
    <3>3. count'[i] = count[i] + Bit(i \in S)
      BY <3>0, <3>1 DEF Bit
    <3> QED
      BY <3>0, <3>1, <3>2, <3>3 DEF Listed, Bit, Holders
  <2>11. CASE DestroyChannel(t)
    <3> SUFFICES ASSUME NEW i \in Ids PROVE (count[i] = NumOwners(i))'
      BY DEF CountIsOwners, Ids
    <3>0. /\ Cardinality(Holders(owns, i)) \in Nat
          /\ Cardinality(Holders(reference, i)) \in Nat
          /\ count[i] = NumOwners(i) /\ count[i] \in Nat
      BY HoldersFinite, HeldIsCounted
    <3> DEFINE S == {arg[t]} \cap channels
    <3>1. /\ reference' = [reference EXCEPT ![t] = S] /\ reference[t] = {}
          /\ owns' = owns /\ count' = count
          /\ channels' = channels \ S /\ S \subseteq channels /\ S \subseteq Ids
      BY <2>11 DEF DestroyChannel, InBody, Take, Frames
    <3> HIDE DEF S
    <3>2. Cardinality(Holders(reference', i)) =
             Cardinality(Holders(reference, i)) + Bit(i \in S)
      <4>1. Cardinality(Holders(reference', i)) =
               Cardinality(Holders(reference, i)) - Bit(i \in reference[t]) + Bit(i \in S)
        BY <3>1, ReferenceChange
      <4> QED
        BY <3>0, <3>1, <4>1 DEF Bit
    <3>3. Listed(i)' = Listed(i) - Bit(i \in S)
      BY <3>1 DEF Bit, Listed
    <3> QED
      BY <3>0, <3>1, <3>2, <3>3 DEF Listed, Bit, Holders
  <2>12. CASE DestroyAllChannels(t)
    <3> SUFFICES ASSUME NEW i \in Ids PROVE (count[i] = NumOwners(i))'
      BY DEF CountIsOwners, Ids
    <3>0. /\ Cardinality(Holders(owns, i)) \in Nat
          /\ Cardinality(Holders(reference, i)) \in Nat
          /\ count[i] = NumOwners(i) /\ count[i] \in Nat
      BY HoldersFinite, HeldIsCounted
    <3> DEFINE S == channels
    <3>1. /\ reference' = [reference EXCEPT ![t] = S] /\ reference[t] = {}
          /\ owns' = owns /\ count' = count
          /\ channels' = channels \ S /\ S \subseteq channels /\ S \subseteq Ids
      BY <2>12 DEF DestroyAllChannels, InBody, Take, Frames
    <3> HIDE DEF S
    <3>2. Cardinality(Holders(reference', i)) =
             Cardinality(Holders(reference, i)) + Bit(i \in S)
      <4>1. Cardinality(Holders(reference', i)) =
               Cardinality(Holders(reference, i)) - Bit(i \in reference[t]) + Bit(i \in S)
        BY <3>1, ReferenceChange
      <4> QED
        BY <3>0, <3>1, <4>1 DEF Bit
    <3>3. Listed(i)' = Listed(i) - Bit(i \in S)
      BY <3>1 DEF Bit, Listed
    <3> QED
      BY <3>0, <3>1, <3>2, <3>3 DEF Listed, Bit, Holders
  <2>13. CASE Unlock(t)
    <3>1. UNCHANGED <<count, owns, reference, channels>>
      BY <2>13 DEF Unlock
    <3> QED
      BY <3>1 DEF Holders, Listed, Ids
  <2>14. CASE Use(t)
    <3>1. UNCHANGED <<count, owns, reference, channels>>
      BY <2>14 DEF Use
    <3> QED
      BY <3>1 DEF Holders, Listed, Ids
  <2>15. CASE SetUpFails(t)
    <3>1. UNCHANGED <<count, owns, reference, channels>>
      BY <2>15 DEF SetUpFails
    <3> QED
      BY <3>1 DEF Holders, Listed, Ids
  <2>16. CASE DropReference(t)
    <3> SUFFICES ASSUME NEW i \in Ids PROVE (count[i] = NumOwners(i))'
      BY DEF CountIsOwners, Ids
    <3>0. /\ Cardinality(Holders(owns, i)) \in Nat
          /\ Cardinality(Holders(reference, i)) \in Nat
          /\ count[i] = NumOwners(i) /\ count[i] \in Nat
      BY HoldersFinite, HeldIsCounted
    <3>1. PICK j \in reference[t] :
              Release(t, j) /\ reference' = [reference EXCEPT ![t] = @ \ {j}]
      BY <2>16 DEF DropReference
    <3>2. /\ owns' = owns /\ channels' = channels
          /\ count' = [count EXCEPT ![j] = @ - 1] /\ j \in Ids
          /\ reference[t] \ {j} \subseteq Ids
      BY <2>16, <3>1 DEF DropReference, Release
    <3>3. Cardinality(Holders(reference', i)) = Cardinality(Holders(reference, i)) - Bit(i = j)
      <4>1. Cardinality(Holders(reference', i)) = Cardinality(Holders(reference, i))
               - Bit(i \in reference[t]) + Bit(i \in reference[t] \ {j})
        BY <3>1, <3>2, ReferenceChange
      <4>2. CASE i = j
        BY <3>0, <4>1, <4>2 DEF Bit
      <4>3. CASE i # j
        BY <3>0, <4>1, <4>3 DEF Bit
      <4> QED
        BY <4>2, <4>3
    <3>4. count'[i] = count[i] - Bit(i = j)
      BY <3>0, <3>2 DEF Bit
    <3> QED
      BY <3>0, <3>2, <3>3, <3>4 DEF Listed, Bit, Holders
  <2>17. CASE DropOwner(t)
    <3> SUFFICES ASSUME NEW i \in Ids PROVE (count[i] = NumOwners(i))'
      BY DEF CountIsOwners, Ids
    <3>0. /\ Cardinality(Holders(owns, i)) \in Nat
          /\ Cardinality(Holders(reference, i)) \in Nat
          /\ count[i] = NumOwners(i) /\ count[i] \in Nat
      BY HoldersFinite, HeldIsCounted
    <3>1. PICK j \in owns[t] :
              Release(t, j) /\ owns' = [owns EXCEPT ![t] = @ \ {j}]
      BY <2>17 DEF DropOwner
    <3>2. /\ reference' = reference /\ channels' = channels
          /\ count' = [count EXCEPT ![j] = @ - 1] /\ j \in Ids
          /\ owns[t] \ {j} \subseteq Ids
      BY <2>17, <3>1 DEF DropOwner, Release
    <3>3. Cardinality(Holders(owns', i)) = Cardinality(Holders(owns, i)) - Bit(i = j)
      <4>1. Cardinality(Holders(owns', i)) = Cardinality(Holders(owns, i))
               - Bit(i \in owns[t]) + Bit(i \in owns[t] \ {j})
        BY <3>1, <3>2, OwnsChange
      <4>2. CASE i = j
        BY <3>0, <4>1, <4>2 DEF Bit
      <4>3. CASE i # j
        BY <3>0, <4>1, <4>3 DEF Bit
      <4> QED
        BY <4>2, <4>3
    <3>4. count'[i] = count[i] - Bit(i = j)
      BY <3>0, <3>2 DEF Bit
    <3> QED
      BY <3>0, <3>2, <3>3, <3>4 DEF Listed, Bit, Holders
  <2>18. CASE Delete(t)
    <3>1. UNCHANGED <<count, owns, reference, channels>>
      BY <2>18 DEF Delete
    <3> QED
      BY <3>1 DEF Holders, Listed, Ids
  <2>19. CASE Destroy(t)
    <3>1. UNCHANGED <<count, owns, reference, channels>>
      BY <2>19 DEF Destroy, Dropped
    <3> QED
      BY <3>1 DEF Holders, Listed, Ids
  <2>20. CASE Return(t)
    <3>1. UNCHANGED <<count, owns, reference, channels>>
      BY <2>20 DEF Return, Dropped
    <3> QED
      BY <3>1 DEF Holders, Listed, Ids
  <2> QED
    BY <1>1, <2>1, <2>2, <2>3, <2>4, <2>5, <2>6, <2>7, <2>8, <2>9, <2>10,
       <2>11, <2>12, <2>13, <2>14, <2>15, <2>16, <2>17, <2>18, <2>19, <2>20 DEF Start, Step
<1> QED
  BY <1>0, <1>1 DEF Next

\* Where a frame is empty.
LEMMA FramesStep ==
  ASSUME TypeOK, CountIsOwners, Frames, Locks, Fresh, Life, Deleting, [Next]_vars
  PROVE  Frames'
<1> USE DEF TypeOK, Frames, Pushing, Go
<1>0. CASE UNCHANGED vars
  BY <1>0 DEF vars
<1>1. ASSUME NEW t \in Thread, Start(t) \/ Step(t) PROVE Frames'
  <2>1. CASE VoE_CreateChannel(t)
    BY <2>1 DEF VoE_CreateChannel, TakeApi, Enter
  <2>2. CASE VoE_DeleteChannel(t)
    BY <2>2 DEF VoE_DeleteChannel, TakeApi, Enter
  <2>3. CASE VoE_Terminate(t)
    BY <2>3 DEF VoE_Terminate, TakeApi, Enter
  <2>4. CASE ReceivedRTPPacket(t)
    BY <2>4 DEF ReceivedRTPPacket, Enter
  <2>5. CASE Iterate(t)
    BY <2>5 DEF Iterate, Enter
  <2>6. CASE Construct(t)
    <3>1. lastId + 1 \in Ids /\ owns[t] = {} /\ reference[t] = {}
      BY <2>6, NewId DEF Construct
    <3>2. /\ owns' = [owns EXCEPT ![t] = {lastId + 1}] /\ reference' = reference
          /\ pc' = [pc EXCEPT ![t] = "lock"] /\ call' = call
          /\ arg' = [arg EXCEPT ![t] = lastId + 1] /\ call[t] = "CreateChannel"
      BY <2>6 DEF Construct
    <3> QED
      BY <3>1, <3>2
  <2>7. CASE Lock(t)
    BY <2>7 DEF Lock
  <2>8. CASE PushBack(t)
    BY <2>8 DEF PushBack, InBody, Add
  <2>9. CASE GetChannel(t)
    BY <2>9 DEF GetChannel, InBody, Copy, Add
  <2>10. CASE GetAllChannels(t)
    BY <2>10 DEF GetAllChannels, InBody, Copy, Add
  <2>11. CASE DestroyChannel(t)
    BY <2>11 DEF DestroyChannel, InBody, Take
  <2>12. CASE DestroyAllChannels(t)
    BY <2>12 DEF DestroyAllChannels, InBody, Take
  <2>13. CASE Unlock(t)
    BY <2>13 DEF Unlock
  <2>14. CASE Use(t)
    BY <2>14 DEF Use
  <2>15. CASE SetUpFails(t)
    BY <2>15 DEF SetUpFails
  <2>16. CASE DropReference(t)
    BY <2>16 DEF DropReference, Release
  <2>17. CASE DropOwner(t)
    BY <2>17 DEF DropOwner, Release
  <2>18. CASE Delete(t)
    BY <2>18 DEF Delete
  <2>19. CASE Destroy(t)
    BY <2>19 DEF Destroy, Dropped
  <2>20. CASE Return(t)
    BY <2>20 DEF Return, Dropped
  <2> QED
    BY <1>1, <2>1, <2>2, <2>3, <2>4, <2>5, <2>6, <2>7, <2>8, <2>9, <2>10,
       <2>11, <2>12, <2>13, <2>14, <2>15, <2>16, <2>17, <2>18, <2>19, <2>20 DEF Start, Step
<1> QED
  BY <1>0, <1>1 DEF Next

\* Mutual exclusion by lock_ and by the critical section of the engine.
LEMMA LocksStep ==
  ASSUME TypeOK, CountIsOwners, Frames, Locks, Fresh, Life, Deleting, [Next]_vars
  PROVE  Locks'
<1> USE ThreadAssumption DEF TypeOK, Locks, Pushing, Go
<1>0. CASE UNCHANGED vars
  BY <1>0 DEF vars
<1>1. ASSUME NEW t \in Thread, Start(t) \/ Step(t) PROVE Locks'
  <2>1. CASE VoE_CreateChannel(t)
    BY <2>1 DEF VoE_CreateChannel, TakeApi, Enter
  <2>2. CASE VoE_DeleteChannel(t)
    BY <2>2 DEF VoE_DeleteChannel, TakeApi, Enter
  <2>3. CASE VoE_Terminate(t)
    BY <2>3 DEF VoE_Terminate, TakeApi, Enter
  <2>4. CASE ReceivedRTPPacket(t)
    BY <2>4 DEF ReceivedRTPPacket, Enter
  <2>5. CASE Iterate(t)
    BY <2>5 DEF Iterate, Enter
  <2>6. CASE Construct(t)
    BY <2>6 DEF Construct
  <2>7. CASE Lock(t)
    BY <2>7 DEF Lock
  <2>8. CASE PushBack(t)
    BY <2>8 DEF PushBack, InBody, Add
  <2>9. CASE GetChannel(t)
    BY <2>9 DEF GetChannel, InBody, Copy, Add
  <2>10. CASE GetAllChannels(t)
    BY <2>10 DEF GetAllChannels, InBody, Copy, Add
  <2>11. CASE DestroyChannel(t)
    BY <2>11 DEF DestroyChannel, InBody, Take
  <2>12. CASE DestroyAllChannels(t)
    BY <2>12 DEF DestroyAllChannels, InBody, Take
  <2>13. CASE Unlock(t)
    BY <2>13 DEF Unlock
  <2>14. CASE Use(t)
    BY <2>14 DEF Use
  <2>15. CASE SetUpFails(t)
    BY <2>15 DEF SetUpFails
  <2>16. CASE DropReference(t)
    BY <2>16 DEF DropReference, Release
  <2>17. CASE DropOwner(t)
    BY <2>17 DEF DropOwner, Release
  <2>18. CASE Delete(t)
    BY <2>18 DEF Delete
  <2>19. CASE Destroy(t)
    BY <2>19 DEF Destroy, Dropped
  <2>20. CASE Return(t)
    BY <2>20 DEF Return, Dropped
  <2> QED
    BY <1>1, <2>1, <2>2, <2>3, <2>4, <2>5, <2>6, <2>7, <2>8, <2>9, <2>10,
       <2>11, <2>12, <2>13, <2>14, <2>15, <2>16, <2>17, <2>18, <2>19, <2>20 DEF Start, Step
<1> QED
  BY <1>0, <1>1 DEF Next

\* An id is given out once.
LEMMA FreshStep ==
  ASSUME TypeOK, CountIsOwners, Frames, Locks, Fresh, Life, Deleting, [Next]_vars
  PROVE  Fresh'
<1> USE ThreadAssumption DEF TypeOK, Fresh, Locks, Pushing, Go, Ids
<1>0. CASE UNCHANGED vars
  BY <1>0 DEF vars
<1>1. ASSUME NEW t \in Thread, Start(t) \/ Step(t) PROVE Fresh'
  <2>1. CASE VoE_CreateChannel(t)
    BY <2>1 DEF VoE_CreateChannel, TakeApi, Enter
  <2>2. CASE VoE_DeleteChannel(t)
    BY <2>2 DEF VoE_DeleteChannel, TakeApi, Enter
  <2>3. CASE VoE_Terminate(t)
    BY <2>3 DEF VoE_Terminate, TakeApi, Enter
  <2>4. CASE ReceivedRTPPacket(t)
    BY <2>4 DEF ReceivedRTPPacket, Enter
  <2>5. CASE Iterate(t)
    BY <2>5 DEF Iterate, Enter
  <2>6. CASE Construct(t)
    <3>1. lastId' = lastId + 1 /\ lastId + 1 \in Ids
      BY <2>6, NewId DEF Construct
    <3>2. /\ count' = [count EXCEPT ![lastId + 1] = 1]
          /\ exists' = exists \cup {lastId + 1} /\ channels' = channels
          /\ pc' = [pc EXCEPT ![t] = "lock"] /\ call' = call
          /\ arg' = [arg EXCEPT ![t] = lastId + 1]
      BY <2>6 DEF Construct
    <3>3. ASSUME NEW i \in Ids, i > lastId + 1 PROVE count'[i] = 0 /\ i \notin exists'
      BY <3>1, <3>2, <3>3
    <3>4. ASSUME NEW u \in Thread, pc'[u] = "construct" PROVE u # t /\ apiLock = u
      BY <3>2, <3>4 DEF Locks
    <3>5. apiLock = t /\ NoThread # t
      BY <2>6 DEF Construct, Locks
    <3>6. lastId + 1 \notin channels
      BY <2>6, NewId, HeldIsCounted
    <3>7. ASSUME NEW u \in Thread, Pushing(u)' PROVE arg'[u] \notin channels'
      BY <3>2, <3>6, <3>7
    <3> QED
      BY <3>1, <3>3, <3>4, <3>5, <3>7
  <2>7. CASE Lock(t)
    BY <2>7 DEF Lock
  <2>8. CASE PushBack(t)
    <3>1. pc[t] = "body" /\ call[t] = "CreateChannel" /\ arg[t] \in owns[t]
      BY <2>8 DEF PushBack, InBody, Frames, Pushing
    <3>2. arg[t] \in Ids /\ count[arg[t]] > 0
      BY <3>1, HeldIsCounted
    <3> QED
      BY <2>8, <3>1, <3>2 DEF PushBack, InBody, Add
  <2>9. CASE GetChannel(t)
    <3>1. \A i \in channels : i \in Ids /\ count[i] > 0
      BY HeldIsCounted
    <3> QED
      BY <2>9, <3>1 DEF GetChannel, InBody, Copy, Add
  <2>10. CASE GetAllChannels(t)
    <3>1. \A i \in channels : i \in Ids /\ count[i] > 0
      BY HeldIsCounted
    <3> QED
      BY <2>10, <3>1 DEF GetAllChannels, InBody, Copy, Add
  <2>11. CASE DestroyChannel(t)
    BY <2>11 DEF DestroyChannel, InBody, Take
  <2>12. CASE DestroyAllChannels(t)
    BY <2>12 DEF DestroyAllChannels, InBody, Take
  <2>13. CASE Unlock(t)
    BY <2>13 DEF Unlock
  <2>14. CASE Use(t)
    BY <2>14 DEF Use
  <2>15. CASE SetUpFails(t)
    BY <2>15 DEF SetUpFails
  <2>16. CASE DropReference(t)
    <3>1. PICK i \in reference[t] : Release(t, i) /\ reference' = [reference EXCEPT ![t] = @ \ {i}]
      BY <2>16 DEF DropReference
    <3>2. i \in Ids /\ count[i] \in Nat /\ count[i] > 0
      BY HeldIsCounted
    <3>3. /\ count' = [count EXCEPT ![i] = @ - 1] /\ UNCHANGED <<lastId, exists, channels>>
          /\ pc[t] = "drop" /\ UNCHANGED call
      BY <2>16, <3>1 DEF DropReference, Release
    <3>4. \A j \in Ids : j > lastId' => count'[j] = 0 /\ j \notin exists'
      BY <3>2, <3>3
    <3>5. ASSUME NEW u \in Thread
          PROVE  /\ pc'[u] = "construct" => pc[u] = "construct"
                 /\ Pushing(u)' => Pushing(u) /\ arg'[u] = arg[u]
      BY <3>1, <3>3 DEF Release
    <3> QED
      BY <3>3, <3>4, <3>5
  <2>17. CASE DropOwner(t)
    <3>1. PICK i \in owns[t] : Release(t, i) /\ owns' = [owns EXCEPT ![t] = @ \ {i}]
      BY <2>17 DEF DropOwner
    <3>2. i \in Ids /\ count[i] \in Nat /\ count[i] > 0
      BY HeldIsCounted
    <3>3. /\ count' = [count EXCEPT ![i] = @ - 1] /\ UNCHANGED <<lastId, exists, channels>>
          /\ pc[t] = "drop" /\ UNCHANGED call
      BY <2>17, <3>1 DEF DropOwner, Release
    <3>4. \A j \in Ids : j > lastId' => count'[j] = 0 /\ j \notin exists'
      BY <3>2, <3>3
    <3>5. ASSUME NEW u \in Thread
          PROVE  /\ pc'[u] = "construct" => pc[u] = "construct"
                 /\ Pushing(u)' => Pushing(u) /\ arg'[u] = arg[u]
      BY <3>1, <3>3 DEF Release
    <3> QED
      BY <3>3, <3>4, <3>5
  <2>18. CASE Delete(t)
    BY <2>18 DEF Delete
  <2>19. CASE Destroy(t)
    BY <2>19 DEF Destroy, Dropped
  <2>20. CASE Return(t)
    BY <2>20 DEF Return, Dropped
  <2> QED
    BY <1>1, <2>1, <2>2, <2>3, <2>4, <2>5, <2>6, <2>7, <2>8, <2>9, <2>10,
       <2>11, <2>12, <2>13, <2>14, <2>15, <2>16, <2>17, <2>18, <2>19, <2>20 DEF Start, Step
<1> QED
  BY <1>0, <1>1 DEF Next

\* A counted channel exists.
LEMMA LifeStep ==
  ASSUME TypeOK, CountIsOwners, Frames, Locks, Fresh, Life, Deleting, [Next]_vars
  PROVE  Life'
<1> USE DEF TypeOK, Life, Deleting, Go
<1>0. CASE UNCHANGED vars
  BY <1>0 DEF vars
<1>1. ASSUME NEW t \in Thread, Start(t) \/ Step(t) PROVE Life'
  <2>1. CASE VoE_CreateChannel(t)
    BY <2>1 DEF VoE_CreateChannel, TakeApi, Enter
  <2>2. CASE VoE_DeleteChannel(t)
    BY <2>2 DEF VoE_DeleteChannel, TakeApi, Enter
  <2>3. CASE VoE_Terminate(t)
    BY <2>3 DEF VoE_Terminate, TakeApi, Enter
  <2>4. CASE ReceivedRTPPacket(t)
    BY <2>4 DEF ReceivedRTPPacket, Enter
  <2>5. CASE Iterate(t)
    BY <2>5 DEF Iterate, Enter
  <2>6. CASE Construct(t)
    <3>1. /\ lastId + 1 \in Ids /\ count[lastId + 1] = 0
          /\ lastId + 1 \notin exists /\ owns[t] = {}
      BY <2>6, NewId
    <3> QED
      BY <2>6, <3>1 DEF Construct
  <2>7. CASE Lock(t)
    BY <2>7 DEF Lock
  <2>8. CASE PushBack(t)
    <3>1. pc[t] = "body" /\ call[t] = "CreateChannel" /\ arg[t] \in owns[t]
      BY <2>8 DEF PushBack, InBody, Frames, Pushing
    <3>2. arg[t] \in Ids /\ count[arg[t]] > 0
      BY <3>1, HeldIsCounted
    <3> QED
      BY <2>8, <3>1, <3>2 DEF PushBack, InBody, Add
  <2>9. CASE GetChannel(t)
    <3>1. \A i \in channels : i \in Ids /\ count[i] > 0
      BY HeldIsCounted
    <3> QED
      BY <2>9, <3>1 DEF GetChannel, InBody, Copy, Add
  <2>10. CASE GetAllChannels(t)
    <3>1. \A i \in channels : i \in Ids /\ count[i] > 0
      BY HeldIsCounted
    <3> QED
      BY <2>10, <3>1 DEF GetAllChannels, InBody, Copy, Add
  <2>11. CASE DestroyChannel(t)
    BY <2>11 DEF DestroyChannel, InBody, Take
  <2>12. CASE DestroyAllChannels(t)
    BY <2>12 DEF DestroyAllChannels, InBody, Take
  <2>13. CASE Unlock(t)
    BY <2>13 DEF Unlock
  <2>14. CASE Use(t)
    BY <2>14 DEF Use
  <2>15. CASE SetUpFails(t)
    BY <2>15 DEF SetUpFails
  <2>16. CASE DropReference(t)
    <3>1. PICK i \in reference[t] : Release(t, i) /\ reference' = [reference EXCEPT ![t] = @ \ {i}]
      BY <2>16 DEF DropReference
    <3>2. /\ i \in Ids /\ count[i] \in Nat /\ count[i] > 0 /\ i \in exists
          /\ exists' = exists
      BY <2>16, HeldIsCounted DEF DropReference
    <3>3. CASE count[i] = 1
      BY <2>16, <3>1, <3>2, <3>3 DEF DropReference, Release
    <3>4. CASE count[i] # 1
      BY <2>16, <3>1, <3>2, <3>4 DEF DropReference, Release
    <3> QED
      BY <3>3, <3>4
  <2>17. CASE DropOwner(t)
    <3>1. PICK i \in owns[t] : Release(t, i) /\ owns' = [owns EXCEPT ![t] = @ \ {i}]
      BY <2>17 DEF DropOwner
    <3>2. /\ i \in Ids /\ count[i] \in Nat /\ count[i] > 0 /\ i \in exists
          /\ exists' = exists
      BY <2>17, HeldIsCounted DEF DropOwner
    <3>3. CASE count[i] = 1
      BY <2>17, <3>1, <3>2, <3>3 DEF DropOwner, Release
    <3>4. CASE count[i] # 1
      BY <2>17, <3>1, <3>2, <3>4 DEF DropOwner, Release
    <3> QED
      BY <3>3, <3>4
  <2>18. CASE Delete(t)
    BY <2>18 DEF Delete
  <2>19. CASE Destroy(t)
    BY <2>19 DEF Destroy, Dropped
  <2>20. CASE Return(t)
    BY <2>20 DEF Return, Dropped
  <2> QED
    BY <1>1, <2>1, <2>2, <2>3, <2>4, <2>5, <2>6, <2>7, <2>8, <2>9, <2>10,
       <2>11, <2>12, <2>13, <2>14, <2>15, <2>16, <2>17, <2>18, <2>19, <2>20 DEF Start, Step
<1> QED
  BY <1>0, <1>1 DEF Next

\* Who reaches zero is the only deleter.
LEMMA DeletingStep ==
  ASSUME TypeOK, CountIsOwners, Frames, Locks, Fresh, Life, Deleting, [Next]_vars
  PROVE  Deleting'
<1> USE DEF TypeOK, Fresh, Life, Deleting, Go
<1>0. CASE UNCHANGED vars
  BY <1>0 DEF vars
<1>1. ASSUME NEW t \in Thread, Start(t) \/ Step(t) PROVE Deleting'
  <2>1. CASE VoE_CreateChannel(t)
    BY <2>1 DEF VoE_CreateChannel, TakeApi, Enter
  <2>2. CASE VoE_DeleteChannel(t)
    BY <2>2 DEF VoE_DeleteChannel, TakeApi, Enter
  <2>3. CASE VoE_Terminate(t)
    BY <2>3 DEF VoE_Terminate, TakeApi, Enter
  <2>4. CASE ReceivedRTPPacket(t)
    BY <2>4 DEF ReceivedRTPPacket, Enter
  <2>5. CASE Iterate(t)
    BY <2>5 DEF Iterate, Enter
  <2>6. CASE Construct(t)
    <3>1. /\ lastId + 1 \in Ids /\ count[lastId + 1] = 0
          /\ lastId + 1 \notin exists /\ owns[t] = {}
      BY <2>6, NewId
    <3> QED
      BY <2>6, <3>1 DEF Construct
  <2>7. CASE Lock(t)
    BY <2>7 DEF Lock
  <2>8. CASE PushBack(t)
    <3>1. pc[t] = "body" /\ call[t] = "CreateChannel" /\ arg[t] \in owns[t]
      BY <2>8 DEF PushBack, InBody, Frames, Pushing
    <3>2. arg[t] \in Ids /\ count[arg[t]] > 0
      BY <3>1, HeldIsCounted
    <3> QED
      BY <2>8, <3>1, <3>2 DEF PushBack, InBody, Add
  <2>9. CASE GetChannel(t)
    <3>1. \A i \in channels : i \in Ids /\ count[i] > 0
      BY HeldIsCounted
    <3> QED
      BY <2>9, <3>1 DEF GetChannel, InBody, Copy, Add
  <2>10. CASE GetAllChannels(t)
    <3>1. \A i \in channels : i \in Ids /\ count[i] > 0
      BY HeldIsCounted
    <3> QED
      BY <2>10, <3>1 DEF GetAllChannels, InBody, Copy, Add
  <2>11. CASE DestroyChannel(t)
    BY <2>11 DEF DestroyChannel, InBody, Take
  <2>12. CASE DestroyAllChannels(t)
    BY <2>12 DEF DestroyAllChannels, InBody, Take
  <2>13. CASE Unlock(t)
    BY <2>13 DEF Unlock
  <2>14. CASE Use(t)
    BY <2>14 DEF Use
  <2>15. CASE SetUpFails(t)
    BY <2>15 DEF SetUpFails
  <2>16. CASE DropReference(t)
    <3>1. PICK i \in reference[t] : Release(t, i) /\ reference' = [reference EXCEPT ![t] = @ \ {i}]
      BY <2>16 DEF DropReference
    <3>2. /\ i \in Ids /\ count[i] \in Nat /\ count[i] > 0 /\ i \in exists
          /\ exists' = exists
      BY <2>16, HeldIsCounted DEF DropReference
    <3>3. CASE count[i] = 1
      BY <2>16, <3>1, <3>2, <3>3 DEF DropReference, Release
    <3>4. CASE count[i] # 1
      BY <2>16, <3>1, <3>2, <3>4 DEF DropReference, Release
    <3> QED
      BY <3>3, <3>4
  <2>17. CASE DropOwner(t)
    <3>1. PICK i \in owns[t] : Release(t, i) /\ owns' = [owns EXCEPT ![t] = @ \ {i}]
      BY <2>17 DEF DropOwner
    <3>2. /\ i \in Ids /\ count[i] \in Nat /\ count[i] > 0 /\ i \in exists
          /\ exists' = exists
      BY <2>17, HeldIsCounted DEF DropOwner
    <3>3. CASE count[i] = 1
      BY <2>17, <3>1, <3>2, <3>3 DEF DropOwner, Release
    <3>4. CASE count[i] # 1
      BY <2>17, <3>1, <3>2, <3>4 DEF DropOwner, Release
    <3> QED
      BY <3>3, <3>4
  <2>18. CASE Delete(t)
    BY <2>18 DEF Delete
  <2>19. CASE Destroy(t)
    BY <2>19 DEF Destroy, Dropped
  <2>20. CASE Return(t)
    BY <2>20 DEF Return, Dropped
  <2> QED
    BY <1>1, <2>1, <2>2, <2>3, <2>4, <2>5, <2>6, <2>7, <2>8, <2>9, <2>10,
       <2>11, <2>12, <2>13, <2>14, <2>15, <2>16, <2>17, <2>18, <2>19, <2>20 DEF Start, Step
<1> QED
  BY <1>0, <1>1 DEF Next

-----------------------------------------------------------------------------
(* The theorems                                                            *)

\* A new engine has no channels, and no thread is in it.
LEMMA InitInv == Init => IInv
<1> SUFFICES ASSUME Init PROVE IInv
  OBVIOUS
<1>1. TypeOK
  BY ThreadAssumption DEF Init, TypeOK, Ids, Calls, Places
<1>2. CountIsOwners
  <2> SUFFICES ASSUME NEW i \in Ids PROVE count[i] = NumOwners(i)
    BY DEF CountIsOwners
  <2>1. Holders(owns, i) = {} /\ Holders(reference, i) = {} /\ Listed(i) = 0
    BY DEF Init, Holders, Listed
  <2>2. NumOwners(i) = 0
    BY <2>1, FS_EmptySet DEF NumOwners
  <2> QED
    BY <2>2 DEF Init
<1>3. Frames /\ Locks /\ Fresh /\ Life /\ Deleting
  BY ThreadAssumption DEF Init, Frames, Locks, Fresh, Life, Deleting, Pushing
<1> QED
  BY <1>1, <1>2, <1>3 DEF IInv

\* The invariant holds in every interleaving of any number of threads.
THEOREM Invariance == Spec => []IInv
<1>1. IInv /\ [Next]_vars => IInv'
  BY TypeStep, CountStep, FramesStep, LocksStep, FreshStep, LifeStep, DeletingStep
     DEF IInv
<1> QED
  BY <1>1, InitInv, PTL DEF Spec

\* The values stay in their types.
THEOREM TypeCorrect == Spec => []TypeOK
<1>1. IInv => TypeOK
  BY DEF IInv
<1> QED
  BY <1>1, Invariance, PTL

\* ref_count is the number of owners.
THEOREM CountCorrect == Spec => []CountIsOwners
<1>1. IInv => CountIsOwners
  BY DEF IInv
<1> QED
  BY <1>1, Invariance, PTL

\* No owner outlives its channel.
THEOREM OwnersSafe == Spec => []OwnersAlive
<1>1. IInv => OwnersAlive
  <2> SUFFICES ASSUME IInv PROVE OwnersAlive
    OBVIOUS
  <2>1. ASSUME NEW i \in channels PROVE i \in exists
    BY HeldIsCounted DEF IInv, Life, TypeOK
  <2>2. ASSUME NEW t \in Thread, NEW i \in owns[t] \cup reference[t]
        PROVE  i \in exists
    <3>1. i \in Ids
      BY DEF IInv, TypeOK
    <3> QED
      BY <3>1, HeldIsCounted DEF IInv, Life
  <2> QED
    BY <2>1, <2>2 DEF OwnersAlive
<1> QED
  BY <1>1, Invariance, PTL

\* A channel is deleted by one thread, outside the lock, when nobody owns it.
THEOREM DeletesAlone == Spec => []DeleteAlone
<1>1. IInv => DeleteAlone
  <2> SUFFICES ASSUME IInv, NEW t \in Thread, pc[t] = "delete"
               PROVE  /\ lock # t
                      /\ arg[t] \in exists
                      /\ NumOwners(arg[t]) = 0
                      /\ \A u \in Thread \ {t} : pc[u] = "delete" => arg[u] # arg[t]
    BY DEF DeleteAlone
  <2>1. arg[t] \in Ids
    BY DEF IInv, TypeOK
  <2> QED
    BY <2>1, HeldIsCounted DEF IInv, Locks, Deleting
<1> QED
  BY <1>1, Invariance, PTL

-----------------------------------------------------------------------------
(* Nothing is leaked, and nobody is stuck                                  *)

\* A channel exists as long as it is counted or the thread that reached zero
\* has not deleted it yet.
Kept == \A i \in exists : count[i] > 0 \/ \E t \in Thread : pc[t] = "delete" /\ arg[t] = i

\* Which calls are in the manager, and who has the engine's critical section.
Calling ==
    \A t \in Thread :
        /\ pc[t] \in {"construct", "lock", "body", "unlock"} => call[t] # "none"
        /\ apiLock = t => pc[t] # "idle"

\* A channel that is not in the list is in the hands of a call that is under
\* way: DeleteChannel, Terminate and the failing CreateChannel leak none, and
\* when no call is under way the channels that exist are those in the list.
NothingLeaked ==
    \A i \in exists \ channels : \E t \in Thread :
        /\ pc[t] # "idle"
        /\ i \in owns[t] \cup reference[t] \/ (pc[t] = "delete" /\ arg[t] = i)

\* The places where a thread has a next step.
CanGoOn(t) ==
    \/ pc[t] \in {"construct", "unlock", "use", "drop", "delete"}
    \/ pc[t] = "lock" /\ lock = NoThread
    \/ pc[t] = "body" /\ call[t] # "none"

\* Whoever is in lock_ goes on; whoever is in the engine's critical section goes
\* on or waits for lock_; a lock is never left behind by a call that returned.
LocksComeFree ==
    /\ lock # NoThread => CanGoOn(lock)
    /\ apiLock # NoThread =>
          \/ CanGoOn(apiLock)
          \/ pc[apiLock] = "lock" /\ lock \notin {NoThread, apiLock}

\* Every step keeps it.
LEMMA KeptStep ==
  ASSUME IInv, Kept, [Next]_vars
  PROVE  Kept'
<1> USE DEF IInv, TypeOK, Kept, Go
<1>0. CASE UNCHANGED vars
  BY <1>0 DEF vars
<1>1. ASSUME NEW t \in Thread, Start(t) \/ Step(t) PROVE Kept'
  <2>1. CASE VoE_CreateChannel(t)
    BY <2>1 DEF VoE_CreateChannel, TakeApi, Enter
  <2>2. CASE VoE_DeleteChannel(t)
    BY <2>2 DEF VoE_DeleteChannel, TakeApi, Enter
  <2>3. CASE VoE_Terminate(t)
    BY <2>3 DEF VoE_Terminate, TakeApi, Enter
  <2>4. CASE ReceivedRTPPacket(t)
    BY <2>4 DEF ReceivedRTPPacket, Enter
  <2>5. CASE Iterate(t)
    BY <2>5 DEF Iterate, Enter
  <2>6. CASE Construct(t)
    <3>1. lastId + 1 \in Ids /\ count[lastId + 1] = 0
      BY <2>6, NewId
    <3> QED
      BY <2>6, <3>1 DEF Construct
  <2>7. CASE Lock(t)
    BY <2>7 DEF Lock
  <2>8. CASE PushBack(t)
    BY <2>8 DEF PushBack, InBody, Add
  <2>9. CASE GetChannel(t)
    BY <2>9 DEF GetChannel, InBody, Copy, Add
  <2>10. CASE GetAllChannels(t)
    BY <2>10 DEF GetAllChannels, InBody, Copy, Add
  <2>11. CASE DestroyChannel(t)
    BY <2>11 DEF DestroyChannel, InBody, Take
  <2>12. CASE DestroyAllChannels(t)
    BY <2>12 DEF DestroyAllChannels, InBody, Take
  <2>13. CASE Unlock(t)
    BY <2>13 DEF Unlock
  <2>14. CASE Use(t)
    BY <2>14 DEF Use
  <2>15. CASE SetUpFails(t)
    BY <2>15 DEF SetUpFails
  <2>16. CASE DropReference(t) \/ DropOwner(t)
    <3>1. PICK i \in owns[t] \cup reference[t] : Release(t, i)
      BY <2>16 DEF DropReference, DropOwner
    <3>2. /\ i \in Ids /\ count[i] \in Nat /\ count[i] > 0
          /\ exists' = exists /\ pc[t] = "drop"
      BY <2>16, HeldIsCounted DEF DropReference, DropOwner
    <3>3. CASE count[i] = 1
      <4>1. /\ pc' = [pc EXCEPT ![t] = "delete"] /\ arg' = [arg EXCEPT ![t] = i]
            /\ count' = [count EXCEPT ![i] = 0]
        BY <3>1, <3>2, <3>3 DEF Release
      <4> QED
        BY <3>2, <4>1
    <3>4. CASE count[i] # 1
      <4>1. UNCHANGED <<pc, arg>> /\ count' = [count EXCEPT ![i] = @ - 1] /\ count[i] - 1 > 0
        BY <3>1, <3>2, <3>4 DEF Release
      <4> QED
        BY <3>2, <4>1
    <3> QED
      BY <3>3, <3>4
  <2>17. CASE Delete(t)
    BY <2>17 DEF Delete
  <2>18. CASE Destroy(t)
    BY <2>18 DEF Destroy, Dropped
  <2>19. CASE Return(t)
    BY <2>19 DEF Return, Dropped
  <2> QED
    BY <1>1, <2>1, <2>2, <2>3, <2>4, <2>5, <2>6, <2>7, <2>8, <2>9, <2>10,
       <2>11, <2>12, <2>13, <2>14, <2>15, <2>16, <2>17, <2>18, <2>19 DEF Start, Step
<1> QED
  BY <1>0, <1>1 DEF Next

\* Every step keeps these, too.
LEMMA CallingStep ==
  ASSUME TypeOK, Calling, [Next]_vars
  PROVE  Calling'
<1> USE ThreadAssumption DEF TypeOK, Calling, Go
<1>0. CASE UNCHANGED vars
  BY <1>0 DEF vars
<1>1. ASSUME NEW t \in Thread, Start(t) \/ Step(t) PROVE Calling'
  <2>1. CASE VoE_CreateChannel(t)
    BY <2>1 DEF VoE_CreateChannel, TakeApi, Enter
  <2>2. CASE VoE_DeleteChannel(t)
    BY <2>2 DEF VoE_DeleteChannel, TakeApi, Enter
  <2>3. CASE VoE_Terminate(t)
    BY <2>3 DEF VoE_Terminate, TakeApi, Enter
  <2>4. CASE ReceivedRTPPacket(t)
    BY <2>4 DEF ReceivedRTPPacket, Enter
  <2>5. CASE Iterate(t)
    BY <2>5 DEF Iterate, Enter
  <2>6. CASE Construct(t)
    BY <2>6 DEF Construct
  <2>7. CASE Lock(t)
    BY <2>7 DEF Lock
  <2>8. CASE PushBack(t)
    BY <2>8 DEF PushBack, InBody
  <2>9. CASE GetChannel(t) \/ GetAllChannels(t)
    BY <2>9 DEF GetChannel, GetAllChannels, InBody, Copy
  <2>10. CASE DestroyChannel(t) \/ DestroyAllChannels(t)
    BY <2>10 DEF DestroyChannel, DestroyAllChannels, InBody, Take
  <2>11. CASE Unlock(t)
    BY <2>11 DEF Unlock
  <2>12. CASE Use(t)
    BY <2>12 DEF Use
  <2>13. CASE SetUpFails(t)
    BY <2>13 DEF SetUpFails
  <2>14. CASE DropReference(t) \/ DropOwner(t)
    BY <2>14 DEF DropReference, DropOwner, Release
  <2>15. CASE Delete(t)
    BY <2>15 DEF Delete
  <2>16. CASE Destroy(t)
    BY <2>16 DEF Destroy, Dropped
  <2>17. CASE Return(t)
    BY <2>17 DEF Return, Dropped
  <2> QED
    BY <1>1, <2>1, <2>2, <2>3, <2>4, <2>5, <2>6, <2>7, <2>8, <2>9, <2>10,
       <2>11, <2>12, <2>13, <2>14, <2>15, <2>16, <2>17 DEF Start, Step
<1> QED
  BY <1>0, <1>1 DEF Next

\* So they hold in every reachable state.
LEMMA KeptInvariance == Spec => [](IInv /\ Kept /\ Calling)
<1>1. Init => Kept /\ Calling
  BY ThreadAssumption DEF Init, Kept, Calling
<1>2. IInv /\ Kept /\ Calling /\ [Next]_vars => Kept' /\ Calling'
  BY KeptStep, CallingStep DEF IInv
<1> QED
  BY <1>1, <1>2, Invariance, PTL DEF Spec

\* A counted channel that is not listed is in somebody's frame.
LEMMA CountedIsHeld ==
  ASSUME IInv, NEW i \in Ids, i \notin channels, count[i] > 0
  PROVE  \E t \in Thread : i \in owns[t] \cup reference[t]
<1> SUFFICES ASSUME \A t \in Thread : i \notin owns[t] /\ i \notin reference[t]
             PROVE  FALSE
  OBVIOUS
<1>1. Holders(owns, i) = {} /\ Holders(reference, i) = {} /\ Listed(i) = 0
  BY DEF Holders, Listed
<1>2. NumOwners(i) = 0
  BY <1>1, FS_EmptySet DEF NumOwners
<1> QED
  BY <1>2 DEF IInv, CountIsOwners

\* What DeleteChannel takes out of the list is deleted or still held by a call.
THEOREM NoLeak == Spec => []NothingLeaked
<1>1. IInv /\ Kept => NothingLeaked
  <2> SUFFICES ASSUME IInv, Kept, NEW i \in exists \ channels
               PROVE  \E t \in Thread :
                        /\ pc[t] # "idle"
                        /\ i \in owns[t] \cup reference[t] \/ (pc[t] = "delete" /\ arg[t] = i)
    BY DEF NothingLeaked
  <2>1. i \in Ids
    BY DEF IInv, TypeOK
  <2>2. CASE count[i] > 0
    <3>1. PICK t \in Thread : i \in owns[t] \cup reference[t]
      BY <2>1, <2>2, CountedIsHeld
    <3>2. pc[t] # "idle"
      BY <3>1 DEF IInv, Frames
    <3> QED
      BY <3>1, <3>2
  <2>3. CASE ~(count[i] > 0)
    <3>1. PICK t \in Thread : pc[t] = "delete" /\ arg[t] = i
      BY <2>3 DEF Kept
    <3> QED
      BY <3>1
  <2> QED
    BY <2>2, <2>3
<1> QED
  BY <1>1, KeptInvariance, PTL

\* The two locks of the engine are always taken in one order and given back.
THEOREM NeverStuck == Spec => []LocksComeFree
<1>1. IInv /\ Calling => LocksComeFree
  <2> SUFFICES ASSUME IInv, Calling PROVE LocksComeFree
    OBVIOUS
  <2>1. lock # NoThread => CanGoOn(lock)
    BY DEF IInv, TypeOK, Locks, Calling, CanGoOn
  <2>2. ASSUME apiLock # NoThread
        PROVE  CanGoOn(apiLock) \/ (pc[apiLock] = "lock" /\ lock \notin {NoThread, apiLock})
    <3>1. apiLock \in Thread /\ pc[apiLock] \in Places /\ pc[apiLock] # "idle"
      BY <2>2, ThreadAssumption DEF IInv, TypeOK, Calling
    <3> QED
      BY <3>1 DEF IInv, Locks, Calling, CanGoOn, Places
  <2> QED
    BY <2>1, <2>2 DEF LocksComeFree
<1> QED
  BY <1>1, KeptInvariance, PTL

-----------------------------------------------------------------------------
(* The counter implements ownership                                        *)

Owners == ListOwners \cup FrameOwners
Held(i) == i \in channels \/ \E t \in Thread : i \in owns[t] \cup reference[t]

\* The owners of the abstract specification are those of the list and the frames.
LEMMA OwnersAre ==
  /\ \A p, i : <<p, i>> \in Owners <=>
        \/ p = <<"channels_", NoThread>> /\ i \in channels
        \/ \E t \in Thread : \/ p = <<"owns", t>> /\ i \in owns[t]
                             \/ p = <<"reference", t>> /\ i \in reference[t]
  /\ \A o \in Owners : \E p, i : o = <<p, i>>
BY DEF Owners, ListOwners, FrameOwners

\* Owners are pairs of a place and a channel.
LEMMA OwnersTyped == TypeOK => Owners \subseteq OwnerPlaces \X Ids
<1> SUFFICES ASSUME TypeOK, NEW p, NEW i, <<p, i>> \in Owners
             PROVE  p \in OwnerPlaces /\ i \in Ids
  BY OwnersAre
<1>1. CASE p = <<"channels_", NoThread>> /\ i \in channels
  BY <1>1 DEF TypeOK, OwnerPlaces
<1>2. CASE \E t \in Thread : \/ p = <<"owns", t>> /\ i \in owns[t]
                             \/ p = <<"reference", t>> /\ i \in reference[t]
  BY <1>2 DEF TypeOK, OwnerPlaces
<1> QED
  BY <1>1, <1>2, OwnersAre

\* Owned, as the abstract specification has it, is held.
LEMMA OwnedIsHeld == TypeOK => Lifetime!Owned(Owners) = {i \in Ids : Held(i)}
<1> SUFFICES ASSUME TypeOK, NEW i \in Ids
             PROVE  (\E p \in OwnerPlaces : <<p, i>> \in Owners) <=> Held(i)
  BY DEF Lifetime!Owned
<1>1. ASSUME NEW p \in OwnerPlaces, <<p, i>> \in Owners PROVE Held(i)
  BY <1>1, OwnersAre DEF Held
<1>2. ASSUME Held(i) PROVE \E p \in OwnerPlaces : <<p, i>> \in Owners
  <2>1. \E p : <<p, i>> \in Owners
    BY <1>2, OwnersAre DEF Held
  <2> QED
    BY <2>1, OwnersTyped
<1> QED
  BY <1>1, <1>2

\* The same in the next state.
LEMMA OwnersNext ==
  TypeOK' => /\ (Owners \subseteq OwnerPlaces \X Ids)'
             /\ (Lifetime!Owned(Owners) = {i \in Ids : Held(i)})'
BY OwnersTyped, OwnedIsHeld, PTL

\* Whatever makes and deletes no channel shares owners: who copies one has
\* found it in the list.
LEMMA Shares ==
  ASSUME IInv, TypeOK', UNCHANGED <<lastId, exists>>,
         channels' \subseteq {i \in Ids : Held(i)},
         \A t \in Thread : owns'[t] \cup reference'[t] \subseteq {i \in Ids : Held(i)}
  PROVE  Lifetime!Share
<1>1. (Owners \subseteq OwnerPlaces \X Ids)'
  BY OwnersNext
<1>2. (Lifetime!Owned(Owners) = {i \in Ids : Held(i)})'
  BY OwnersNext
<1>3. {i \in Ids : Held(i)}' \subseteq {i \in Ids : Held(i)}
  BY DEF Held, Ids
<1>4. Lifetime!Owned(Owners) = {i \in Ids : Held(i)}
  BY OwnedIsHeld DEF IInv
<1> QED
  BY <1>1, <1>2, <1>3, <1>4 DEF Lifetime!Share, Lifetime!Owned, Owners

\* The constructor makes a channel, and its caller owns it.
LEMMA ConstructMakes ==
  ASSUME IInv, NEW t \in Thread, Construct(t)
  PROVE  Lifetime!Make(<<"owns", t>>, lastId + 1)
<1>1. /\ lastId + 1 \in Ids /\ owns[t] = {}
      /\ lastId \in -1 .. MaxId
  BY NewId DEF IInv, TypeOK
<1>2. /\ lastId' = lastId + 1 /\ exists' = exists \cup {lastId + 1}
      /\ UNCHANGED <<channels, reference>>
      /\ owns' = [owns EXCEPT ![t] = {lastId + 1}]
  BY DEF Construct
<1>3. \A u \in Thread : owns'[u] = IF u = t THEN {lastId + 1} ELSE owns[u]
  BY <1>2 DEF IInv, TypeOK
<1>4. 0 .. lastId' = (0 .. lastId) \cup {lastId + 1} /\ lastId + 1 \notin 0 .. lastId
  BY <1>1, <1>2, ThreadAssumption
<1>5. Owners' = Owners \cup {<<<<"owns", t>>, lastId + 1>>}
  <2>1. FrameOwners' = FrameOwners \cup {<<<<"owns", t>>, lastId + 1>>}
    BY <1>1, <1>2, <1>3 DEF FrameOwners
  <2> QED
    BY <1>2, <2>1 DEF Owners, ListOwners
<1> QED
  BY <1>2, <1>4, <1>5 DEF Lifetime!Make, Owners

\* The destructor deletes a channel that has no owner left.
LEMMA DeleteDeletes ==
  ASSUME IInv, NEW t \in Thread, Delete(t)
  PROVE  Lifetime!Delete(arg[t])
<1>1. arg[t] \in exists /\ arg[t] \in Ids /\ count[arg[t]] = 0
  BY DEF Delete, IInv, Deleting, TypeOK
<1>2. ~Held(arg[t])
  BY <1>1, HeldIsCounted DEF IInv, Held
<1>3. arg[t] \notin Lifetime!Owned(Owners)
  BY <1>2, OwnedIsHeld DEF IInv
<1>4. UNCHANGED <<lastId, channels, owns, reference>> /\ exists' = exists \ {arg[t]}
  BY DEF Delete
<1>5. UNCHANGED Owners
  BY <1>4 DEF Owners, ListOwners, FrameOwners
<1> QED
  BY <1>1, <1>3, <1>4, <1>5 DEF Lifetime!Delete, Owners

\* Each step makes a channel, deletes one or shares owners.
LEMMA StepImplements ==
  ASSUME IInv, TypeOK', [Next]_vars
  PROVE  Lifetime!Next \/ UNCHANGED Lifetime!lifetimeVars
<1>1. /\ channels \subseteq {i \in Ids : Held(i)}
      /\ \A u \in Thread : owns[u] \cup reference[u] \subseteq {i \in Ids : Held(i)}
  BY DEF IInv, TypeOK, Held
<1>2. CASE UNCHANGED vars
  BY <1>1, <1>2, Shares DEF vars, Lifetime!Next
<1>3. ASSUME NEW t \in Thread, Start(t) \/ Step(t)
      PROVE  Lifetime!Next \/ UNCHANGED Lifetime!lifetimeVars
  <2>1. CASE Construct(t)
    <3>1. <<"owns", t>> \in OwnerPlaces /\ lastId + 1 \in Ids
      BY <2>1, NewId DEF OwnerPlaces, IInv
    <3> QED
      BY <2>1, <3>1, ConstructMakes DEF Lifetime!Next
  <2>2. CASE Delete(t)
    <3>1. arg[t] \in Ids
      BY DEF IInv, TypeOK
    <3> QED
      BY <2>2, <3>1, DeleteDeletes DEF Lifetime!Next
  <2>3. CASE GetChannel(t) \/ GetAllChannels(t)
    <3>1. PICK S \in SUBSET channels : Copy(t, S)
      BY <2>3 DEF GetChannel, GetAllChannels
    <3>2. UNCHANGED <<lastId, exists, channels, reference>> /\ owns' = [owns EXCEPT ![t] = S]
      BY <3>1 DEF Copy
    <3> QED
      BY <1>1, <3>2, Shares DEF Lifetime!Next, IInv, TypeOK
  <2>4. CASE DestroyChannel(t) \/ DestroyAllChannels(t)
    <3>1. PICK S \in SUBSET channels : Take(t, S)
      BY <2>4 DEF DestroyChannel, DestroyAllChannels
    <3>2. /\ UNCHANGED <<lastId, exists, owns>> /\ channels' = channels \ S
          /\ reference' = [reference EXCEPT ![t] = S]
      BY <3>1 DEF Take
    <3> QED
      BY <1>1, <3>2, Shares DEF Lifetime!Next, IInv, TypeOK
  <2>5. CASE PushBack(t)
    <3>1. arg[t] \in owns[t]
      BY <2>5 DEF PushBack, InBody, IInv, Frames, Pushing
    <3>2. UNCHANGED <<lastId, exists, owns, reference>> /\ channels' = channels \cup {arg[t]}
      BY <2>5 DEF PushBack
    <3> QED
      BY <1>1, <3>1, <3>2, Shares DEF Lifetime!Next
  <2>6. CASE DropReference(t)
    <3>1. PICK i \in reference[t] : reference' = [reference EXCEPT ![t] = @ \ {i}]
      BY <2>6 DEF DropReference
    <3>2. UNCHANGED <<lastId, exists, channels, owns>>
      BY <2>6 DEF DropReference
    <3> QED
      BY <1>1, <3>1, <3>2, Shares DEF Lifetime!Next, IInv, TypeOK
  <2>7. CASE DropOwner(t)
    <3>1. PICK i \in owns[t] : owns' = [owns EXCEPT ![t] = @ \ {i}]
      BY <2>7 DEF DropOwner
    <3>2. UNCHANGED <<lastId, exists, channels, reference>>
      BY <2>7 DEF DropOwner
    <3> QED
      BY <1>1, <3>1, <3>2, Shares DEF Lifetime!Next, IInv, TypeOK
  <2>8. CASE Start(t) \/ Lock(t) \/ Unlock(t) \/ Use(t) \/ SetUpFails(t) \/ Destroy(t) \/ Return(t)
    <3>1. UNCHANGED <<lastId, exists, channels, owns, reference>>
      BY <2>8 DEF Start, VoE_CreateChannel, VoE_DeleteChannel, VoE_Terminate,
                  ReceivedRTPPacket, Iterate, Lock, Unlock, Use, SetUpFails, Destroy, Return
    <3> QED
      BY <1>1, <3>1, Shares DEF Lifetime!Next
  <2> QED
    BY <1>3, <2>1, <2>2, <2>3, <2>4, <2>5, <2>6, <2>7, <2>8 DEF Step
<1> QED
  BY <1>2, <1>3 DEF Next

\* ChannelManager and its counter implement the ownership that channel_manager.h
\* promises; that a channel without owners is deleted in the end is left to TLC.
THEOREM Refinement == Spec => Lifetime!Init /\ [][Lifetime!Next]_(Lifetime!lifetimeVars)
<1>1. Init => Lifetime!Init
  BY DEF Init, Lifetime!Init, ListOwners, FrameOwners
<1>2. IInv /\ TypeOK' /\ [Next]_vars => Lifetime!Next \/ UNCHANGED Lifetime!lifetimeVars
  BY StepImplements
<1>3. IInv => TypeOK
  BY DEF IInv
<1> QED
  BY <1>1, <1>2, <1>3, Invariance, PTL DEF Spec

=============================================================================
