-------------------------- MODULE CameraInfoListProofs --------------------------
(***************************************************************************)
(* Proofs about CameraInfoList, for any number of cameras and requests.    *)
(***************************************************************************)
EXTENDS CameraInfoList, FiniteSetTheorems, TLAPS

\* A lister and a getter go different ways.
Ways ==
    /\ \A t \in Lister : pc[t] \in {"idle", "enum", "fill", "read", "listed"}
    /\ \A t \in Getter : pc[t] \in {"idle", "find", "found", "missed", "opened"}

\* The list is being rewritten exactly while somebody holds the mutex.
Filling == \A t \in Lister : pc[t] = "fill" <=> lock = t

\* The list is complete when nobody rewrites it, if the last enumeration succeeded.
Whole == lock = NoThread => Complete(list) \/ failed

\* Nobody rewrites the list under an undisturbed reader, whose copy is its start.
Copying ==
    \A t \in Lister :
        /\ pc[t] \in {"idle", "enum", "fill"} => metas[t] = <<>>
        /\ pc[t] = "read" /\ t \notin disturbed =>
               /\ lock = NoThread
               /\ Complete(list)
               /\ Len(metas[t]) <= Len(list)
               /\ \A i \in 1..Len(metas[t]) : metas[t][i] = list[i]

Pointing ==
    \A t \in Getter :
        pc[t] = "found" /\ t \notin disturbed =>
            lock = NoThread /\ info[t] \in 1..Len(list) /\ list[info[t]] = sn[t]

IInv ==
    /\ TypeOK
    /\ Ways
    /\ Filling
    /\ Whole
    /\ Copying
    /\ Pointing
    /\ MetasComplete
    /\ RightDescriptor

-----------------------------------------------------------------------------
(* Lists *)

\* A list that gets a new entry stays without repetition.
LEMMA AppendNew ==
    ASSUME NEW s \in Seq(Camera), IsInjective(s), NEW c \in Camera \ ToSet(s)
    PROVE  Append(s, c) \in Seq(Camera) /\ IsInjective(Append(s, c))
BY DEF IsInjective, ToSet

\* A copy of all entries of a complete list is complete.
LEMMA CopyComplete ==
    ASSUME NEW s \in Seq(Camera), NEW r \in Seq(Camera), Complete(s),
           Len(r) <= Len(s), ~(Len(r) < Len(s)),
           \A i \in 1..Len(r) : r[i] = s[i]
    PROVE  Complete(r)
<1>1. Len(r) = Len(s) /\ DOMAIN r = 1..Len(r) /\ DOMAIN s = 1..Len(s)
  OBVIOUS
<1>2. r = s
  BY <1>1
<1>3. QED
  BY <1>2

\* What the search returns describes the camera it searched.
LEMMA BlockFound ==
    ASSUME NEW c \in Listed, list \in Seq(Camera)
    PROVE  BlockOf(c) \in 1..Len(list) /\ list[BlockOf(c)] = c
<1>1. \E i \in 1..Len(list) : list[i] = c
  BY DEF Listed, ToSet
<1>2. QED
  BY <1>1 DEF BlockOf

-----------------------------------------------------------------------------
LEMMA InitIInv == Init => IInv
<1> SUFFICES ASSUME Init PROVE IInv
  OBVIOUS
<1> USE ListAssumption DEF Init
<1>1. list \in Seq(Camera) /\ IsInjective(list)
  <2>1. PICK n \in 0..Cardinality(Camera) :
            list \in {s \in [1..n -> Camera] : IsInjective(s)}
    OBVIOUS
  <2>2. n \in Nat
    BY FS_CardinalityType
  <2>3. QED
    BY <2>1, <2>2
<1>2. TypeOK
  BY <1>1 DEF TypeOK, Thread
<1>3. Ways /\ Filling /\ Whole /\ Copying /\ Pointing
  BY <1>1 DEF Ways, Filling, Whole, Copying, Pointing, Thread
<1>4. MetasComplete /\ RightDescriptor
  BY DEF MetasComplete, RightDescriptor, Thread
<1>5. QED
  BY <1>2, <1>3, <1>4 DEF IInv

LEMMA EnumDevicesKeeps ==
    ASSUME IInv, NEW t \in Lister, EnumDevices(t)
    PROVE  IInv'
<1> USE ListAssumption DEF IInv, TypeOK, EnumDevices, Goto, Thread
<1>1. TypeOK'
  BY DEF IsInjective
<1>2. Ways' /\ Filling' /\ Whole'
  BY DEF Ways, Filling, Whole
<1>3. Copying' /\ Pointing'
  BY DEF Copying, Pointing, Ways
<1>4. MetasComplete' /\ RightDescriptor'
  BY DEF MetasComplete, RightDescriptor, Complete
<1>5. QED
  BY <1>1, <1>2, <1>3, <1>4

LEMMA FillEntryKeeps ==
    ASSUME IInv, NEW t \in Lister, FillEntry(t)
    PROVE  IInv'
<1> USE ListAssumption DEF IInv, FillEntry, Thread
<1>1. TypeOK'
  BY AppendNew DEF TypeOK, Listed
<1>2. Ways' /\ Filling' /\ Whole'
  BY DEF Ways, Filling, Whole
<1>3. Copying' /\ Pointing'
  <2>1. lock = t /\ t # NoThread
    BY DEF Filling
  <2>2. QED
    BY <2>1 DEF Copying, Pointing
<1>4. MetasComplete' /\ RightDescriptor'
  BY DEF MetasComplete, RightDescriptor, Complete
<1>5. QED
  BY <1>1, <1>2, <1>3, <1>4

LEMMA EnumReturnsKeeps ==
    ASSUME IInv, NEW t \in Lister, EnumReturns(t)
    PROVE  IInv'
<1> USE ListAssumption DEF IInv, TypeOK, EnumReturns, Goto, Thread
<1>1. TypeOK'
  OBVIOUS
<1>2. Ways' /\ Filling' /\ Whole'
  BY DEF Ways, Filling, Whole, Complete, Listed
<1>3. Copying' /\ Pointing'
  BY DEF Copying, Pointing, Ways, Complete, Listed
<1>4. MetasComplete' /\ RightDescriptor'
  BY DEF MetasComplete, RightDescriptor, Complete
<1>5. QED
  BY <1>1, <1>2, <1>3, <1>4

LEMMA ReadEntryKeeps ==
    ASSUME IInv, NEW t \in Lister, ReadEntry(t)
    PROVE  IInv'
<1> USE ListAssumption DEF IInv, ReadEntry, Goto, Thread
<1>1. CASE Len(metas[t]) < Len(list)
  <2> USE <1>1
  <2>1. /\ metas' = [metas EXCEPT ![t] = Append(metas[t], list[Len(metas[t]) + 1])]
        /\ pc' = pc
    BY DEF TypeOK
  <2>2. list[Len(metas[t]) + 1] \in Camera
    BY DEF TypeOK
  <2>3. TypeOK'
    BY <2>1, <2>2 DEF TypeOK
  <2>4. Ways' /\ Filling' /\ Whole'
    BY <2>1 DEF Ways, Filling, Whole
  <2>5. Copying' /\ Pointing'
    BY <2>1, <2>2 DEF Copying, Pointing, TypeOK
  <2>6. MetasComplete' /\ RightDescriptor'
    BY <2>1 DEF MetasComplete, RightDescriptor, Complete, TypeOK
  <2>7. QED
    BY <2>3, <2>4, <2>5, <2>6
<1>2. CASE ~(Len(metas[t]) < Len(list))
  <2> USE <1>2
  <2>1. TypeOK'
    BY DEF TypeOK
  <2>2. Ways' /\ Filling' /\ Whole'
    BY DEF Ways, Filling, Whole, TypeOK
  <2>3. Copying' /\ Pointing'
    BY DEF Copying, Pointing, TypeOK, Ways
  <2>4. t \notin disturbed => Complete(metas[t])
    BY CopyComplete DEF Copying, Whole, TypeOK
  <2>5. MetasComplete' /\ RightDescriptor'
    BY <2>4 DEF MetasComplete, RightDescriptor, Complete, TypeOK
  <2>6. QED
    BY <2>1, <2>2, <2>3, <2>5
<1>3. QED
  BY <1>1, <1>2

LEMMA EnumFailsKeeps ==
    ASSUME IInv, NEW t \in Lister, EnumFails(t)
    PROVE  IInv'
<1> USE ListAssumption DEF IInv, TypeOK, EnumFails, Goto, Thread
<1>1. TypeOK'
  OBVIOUS
<1>2. Ways' /\ Filling' /\ Whole'
  BY DEF Ways, Filling, Whole
<1>3. Copying' /\ Pointing'
  BY DEF Copying, Pointing, Ways
<1>4. MetasComplete' /\ RightDescriptor'
  BY DEF MetasComplete, RightDescriptor, Complete
<1>5. QED
  BY <1>1, <1>2, <1>3, <1>4

\* The lister's steps that do not touch the list.
LEMMA ListerElseKeeps ==
    ASSUME IInv, NEW t \in Lister, GetCameraMetas(t) \/ ReplyMetas(t)
    PROVE  IInv'
<1> USE ListAssumption DEF IInv, TypeOK, GetCameraMetas, ReplyMetas, Goto, Thread
<1>1. TypeOK'
  <2>1. pc' \in [Thread -> {"idle", "enum", "fill", "read", "listed", "find", "found",
                           "missed", "opened"}]
    OBVIOUS
  <2>2. metas' \in [Lister -> Seq(Camera)]
    <3>1. <<>> \in Seq(Camera)
      OBVIOUS
    <3>2. QED
      BY <3>1
  <2>3. UNCHANGED <<lock, list, sn, info, opened, disturbed, failed>>
    OBVIOUS
  <2>4. QED
    BY <2>1, <2>2, <2>3 DEF IsInjective
<1>2. Ways' /\ Filling' /\ Whole'
  BY DEF Ways, Filling, Whole
<1>3. Copying' /\ Pointing'
  BY DEF Copying, Pointing, Ways
<1>4. MetasComplete' /\ RightDescriptor'
  BY DEF MetasComplete, RightDescriptor, Complete
<1>5. QED
  BY <1>1, <1>2, <1>3, <1>4

LEMMA GetterKeeps ==
    ASSUME IInv, NEW t \in Getter, GetterStep(t)
    PROVE  IInv'
<1> USE ListAssumption DEF IInv, TypeOK, Goto, Thread
<1>1. ASSUME NEW c \in Camera, GetImage(t, c)
      PROVE  IInv'
  <2> USE <1>1 DEF GetImage
  <2>1. TypeOK' /\ Ways' /\ Filling' /\ Whole'
    BY DEF Ways, Filling, Whole
  <2>2. Copying' /\ Pointing'
    BY DEF Copying, Pointing, Ways
  <2>3. MetasComplete' /\ RightDescriptor'
    BY DEF MetasComplete, RightDescriptor, Complete
  <2>4. QED
    BY <2>1, <2>2, <2>3
<1>2. CASE FindInfo(t)
  <2> USE <1>2 DEF FindInfo
  <2>0. CASE sn[t] \notin Listed
    <3> USE <2>0
    <3>1. TypeOK' /\ Ways' /\ Filling' /\ Whole'
      BY DEF Ways, Filling, Whole
    <3>2. Copying' /\ Pointing'
      BY DEF Copying, Pointing, Ways
    <3>3. MetasComplete' /\ RightDescriptor'
      BY DEF MetasComplete, RightDescriptor, Complete
    <3>4. QED
      BY <3>1, <3>2, <3>3
  <2> SUFFICES ASSUME sn[t] \in Listed PROVE IInv'
    BY <2>0
  <2>1. sn[t] \in Listed /\ lock = NoThread
    OBVIOUS
  <2>2. BlockOf(sn[t]) \in 1..Len(list) /\ list[BlockOf(sn[t])] = sn[t]
    BY <2>1, BlockFound
  <2>3. /\ info' = [info EXCEPT ![t] = BlockOf(sn[t])]
        /\ pc' = [pc EXCEPT ![t] = "found"]
        /\ disturbed' = disturbed \ {t}
    BY <2>1
  <2> HIDE DEF FindInfo
  <2>4. UNCHANGED <<lock, list, metas, sn, opened, failed>>
    BY DEF FindInfo
  <2>5. TypeOK' /\ Ways' /\ Filling' /\ Whole'
    BY <2>2, <2>3, <2>4 DEF Ways, Filling, Whole
  <2>6. Copying' /\ Pointing'
    BY <2>1, <2>2, <2>3, <2>4 DEF Copying, Pointing, Ways
  <2>7. MetasComplete' /\ RightDescriptor'
    BY <2>3, <2>4 DEF MetasComplete, RightDescriptor, Complete
  <2>8. QED
    BY <2>5, <2>6, <2>7
<1>3. CASE OpenInfo(t)
  <2> USE <1>3 DEF OpenInfo
  <2>1. TypeOK' /\ Ways' /\ Filling' /\ Whole'
    BY DEF Ways, Filling, Whole
  <2>2. Copying' /\ Pointing'
    BY DEF Copying, Pointing, Ways
  <2>3. MetasComplete' /\ RightDescriptor'
    BY DEF MetasComplete, RightDescriptor, Complete, Pointing
  <2>4. QED
    BY <2>1, <2>2, <2>3
<1>4. CASE ReplyImage(t)
  <2> USE <1>4 DEF ReplyImage
  <2>1. TypeOK' /\ Ways' /\ Filling' /\ Whole'
    BY DEF Ways, Filling, Whole
  <2>2. Copying' /\ Pointing'
    BY DEF Copying, Pointing, Ways
  <2>3. MetasComplete' /\ RightDescriptor'
    BY DEF MetasComplete, RightDescriptor, Complete
  <2>4. QED
    BY <2>1, <2>2, <2>3
<1>5. QED
  BY <1>1, <1>2, <1>3, <1>4 DEF GetterStep

LEMMA NextIInv == IInv /\ [Next]_vars => IInv'
<1> SUFFICES ASSUME IInv, [Next]_vars PROVE IInv'
  OBVIOUS
<1>1. ASSUME NEW t \in Lister, ListerStep(t)
      PROVE  IInv'
  BY <1>1, EnumDevicesKeeps, FillEntryKeeps, EnumReturnsKeeps, ReadEntryKeeps,
     EnumFailsKeeps, ListerElseKeeps
  DEF ListerStep
<1>2. ASSUME NEW t \in Getter, GetterStep(t)
      PROVE  IInv'
  BY <1>2, GetterKeeps
<1>3. CASE UNCHANGED vars
  BY <1>3
  DEF vars, IInv, TypeOK, Ways, Filling, Whole, Copying, Pointing, MetasComplete, RightDescriptor, Complete
<1>4. QED
  BY <1>1, <1>2, <1>3 DEF Next

\* The types of the variables; the list never describes a camera twice.
THEOREM ListTypeCorrect == Spec => []TypeOK
<1>1. IInv => TypeOK
  BY DEF IInv
<1>2. QED
  BY <1>1, InitIInv, NextIInv, PTL DEF Spec

\* However many clients list the cameras, a lookup misses none of them unless the last
\* enumeration that ended returned an error.
THEOREM NoCameraMissed == Spec => NothingMissed
<1>1. ASSUME IInv, [Next]_vars
      PROVE  [\A t \in Getter : pc[t] # "missed" /\ pc'[t] = "missed" => failed]_vars
  <2> SUFFICES ASSUME Next, NEW u \in Getter, pc[u] # "missed", pc'[u] = "missed"
               PROVE  failed
    BY <1>1
  <2> USE ListAssumption DEF IInv, TypeOK, Goto, Thread
  <2>1. FindInfo(u)
    BY <1>1
    DEF Next, ListerStep, GetterStep, GetCameraMetas, EnumDevices, FillEntry, EnumReturns,
        EnumFails, ReadEntry, ReplyMetas, GetImage, FindInfo, OpenInfo, ReplyImage
  <2>2. sn[u] \notin Listed /\ lock = NoThread
    BY <1>1, <2>1 DEF FindInfo
  <2>3. QED
    BY <1>1, <2>2 DEF Whole, Complete, Listed
<1>2. QED
  BY <1>1, InitIInv, NextIInv, PTL DEF Spec, NothingMissed

\* A list that no other enumeration disturbed is answered completely.
THEOREM MetasCompleteUnlessDisturbed == Spec => []MetasComplete
<1>1. IInv => MetasComplete
  BY DEF IInv
<1>2. QED
  BY <1>1, InitIInv, NextIInv, PTL DEF Spec

\* The descriptor that is opened is that of the camera asked for, unless an
\* enumeration started after the lookup.
THEOREM DescriptorRightUnlessDisturbed == Spec => []RightDescriptor
<1>1. IInv => RightDescriptor
  BY DEF IInv
<1>2. QED
  BY <1>1, InitIInv, NextIInv, PTL DEF Spec
=============================================================================
