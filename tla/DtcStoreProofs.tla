--------------------------- MODULE DtcStoreProofs ---------------------------
(***************************************************************************)
(* Theorems about DtcStore, for every set of codes and number of slots.    *)
(***************************************************************************)
EXTENDS DtcStore, FiniteSetTheorems, WellFoundedInduction, TLAPS

\* A nonempty set of natural numbers has a least element.
LEMMA LeastSlot ==
  ASSUME NEW T, T \subseteq Nat, T # {}
  PROVE  \E x \in T : \A y \in T : x <= y
  <1> DEFINE R == {ss \in Nat \X Nat : ss[1] < ss[2]}
  <1>1. IsWellFoundedOn(R, Nat)
    BY NatLessThanWellFounded DEF OpToRel
  <1>2. PICK x \in T : \A y \in T : <<y, x>> \notin R
    <2> HIDE DEF R
    <2> QED
      BY <1>1, WFMin
  <1>3. \A y \in T : x <= y
    <2>1. SUFFICES ASSUME NEW y \in T PROVE x <= y
      OBVIOUS
    <2>2. x \in Nat /\ y \in Nat
      BY <1>2
    <2>3. ~(y < x)
      BY <1>2, <2>2
    <2>4. QED
      BY <2>2, <2>3
  <1>4. QED
    BY <1>2, <1>3

\* So the search for the first slot of a kind ends in one.
LEMMA FirstIn ==
  ASSUME NEW S, S \subseteq DtcSlots, S # {}
  PROVE  First(S) \in S
  <1>1. S \subseteq Nat
    BY SlotAssumption DEF DtcSlots
  <1>2. \E i \in S : \A j \in S : i <= j
    BY <1>1, LeastSlot
  <1>3. QED
    BY <1>2 DEF First

LEMMA FirstSlot == 1 \in DtcSlots
  BY SlotAssumption DEF DtcSlots

\* A record holds a code, an empty slot none.
LEMMA RecordFacts ==
  /\ \A r \in DtcRecord : r # EmptySlot
  /\ EmptySlot.code \notin Codes
  BY NamesAssumption DEF DtcRecord, EmptySlot

\* set_dtc changes one slot: the one that has the code, or else one that gets
\* it, and then no slot has it before.
LEMMA WithFaultShape ==
  ASSUME StoreTypeOK, NEW code \in Codes, NEW bits \in SUBSET Bits
  PROVE  \E slot \in DtcSlots, status \in SUBSET Bits :
           /\ WithFault(DTCS, code, bits)
                = [DTCS EXCEPT ![slot] = [code |-> code, status |-> status]]
           /\ DTCS[slot].code = code => DTCS[slot].status \subseteq status
           /\ DTCS[slot].code # code => \A i \in DtcSlots : DTCS[i].code # code
  <1>1. CASE Holding(DTCS, code) # {}
    <2> DEFINE slot == First(Holding(DTCS, code))
    <2>1. slot \in DtcSlots /\ DTCS[slot].code = code
      <3>1. Holding(DTCS, code) \subseteq DtcSlots
        BY DEF Holding
      <3>2. slot \in Holding(DTCS, code)
        BY <1>1, <3>1, FirstIn
      <3>3. QED
        BY <3>2 DEF Holding
    <2>2. WithFault(DTCS, code, bits) = [DTCS EXCEPT ![slot].status = @ \cup bits]
      BY <1>1 DEF WithFault
    <2> HIDE DEF slot
    <2>3. DTCS[slot] \in DtcRecord
      BY <2>1, RecordFacts DEF StoreTypeOK
    <2>4. [DTCS[slot] EXCEPT !.status = @ \cup bits]
            = [code |-> code, status |-> DTCS[slot].status \cup bits]
      BY <2>1, <2>3 DEF DtcRecord
    <2>5. WithFault(DTCS, code, bits)
            = [DTCS EXCEPT ![slot] = [code |-> code, status |-> DTCS[slot].status \cup bits]]
      BY <2>1, <2>2, <2>4 DEF StoreTypeOK
    <2>6. DTCS[slot].status \cup bits \in SUBSET Bits
      BY <2>3 DEF DtcRecord
    <2>7. QED
      BY <2>1, <2>5, <2>6
  <1>2. CASE Holding(DTCS, code) = {}
    <2> DEFINE slot == IF Free(DTCS) # {} THEN First(Free(DTCS)) ELSE 1
    <2>1. slot \in DtcSlots
      <3>1. Free(DTCS) \subseteq DtcSlots
        BY DEF Free
      <3>2. Free(DTCS) # {} => First(Free(DTCS)) \in DtcSlots
        BY <3>1, FirstIn
      <3>3. QED
        BY <3>2, FirstSlot
    <2>2. WithFault(DTCS, code, bits) = [DTCS EXCEPT ![slot] = [code |-> code, status |-> bits]]
      BY <1>2 DEF WithFault, PutAt
    <2>3. \A i \in DtcSlots : DTCS[i].code # code
      BY <1>2 DEF Holding
    <2>4. QED
      BY <2>1, <2>2, <2>3
  <1>3. QED
    BY <1>1, <1>2

\* Clearing, of one code or of a group, only empties slots.
Emptied(store) ==
  store \in [DtcSlots -> DtcRecord \cup {EmptySlot}]
    /\ \A i \in DtcSlots : store[i] = DTCS[i] \/ store[i] = EmptySlot

LEMMA WithoutShape ==
  ASSUME StoreTypeOK, NEW code \in Codes
  PROVE  Emptied(Without(DTCS, code))
  <1>1. Holding(DTCS, code) \subseteq DtcSlots
    BY DEF Holding
  <1>2. Holding(DTCS, code) # {} => First(Holding(DTCS, code)) \in DtcSlots
    BY <1>1, FirstIn
  <1>3. QED
    BY <1>2 DEF Without, Emptied, StoreTypeOK

LEMMA WithoutGroupShape ==
  ASSUME StoreTypeOK, NEW group
  PROVE  Emptied(WithoutGroup(DTCS, group))
  BY DEF WithoutGroup, Emptied, StoreTypeOK

-----------------------------------------------------------------------------
RecordsInv == StoreTypeOK /\ OneRecordPerCode

\* Each step either sets one slot or empties some.
LEMMA StoreStep ==
  ASSUME StoreTypeOK, StoreNext
  PROVE  \/ Emptied(DTCS')
         \/ \E code \in Codes, bits \in SUBSET Bits : DTCS' = WithFault(DTCS, code, bits)
  BY WithoutShape, WithoutGroupShape DEF StoreNext, set_dtc, clear_dtc, clear_group

\* Emptying slots keeps one record per code.
LEMMA EmptiedInv ==
  ASSUME RecordsInv, Emptied(DTCS')
  PROVE  RecordsInv'
  BY DEF RecordsInv, Emptied, StoreTypeOK, OneRecordPerCode, Free

LEMMA StoreStepInv == RecordsInv /\ [StoreNext]_DTCS => RecordsInv'
  <1> SUFFICES ASSUME RecordsInv, StoreNext PROVE RecordsInv'
    BY DEF RecordsInv, StoreTypeOK, OneRecordPerCode, Free
  <1> USE DEF RecordsInv
  <1>1. CASE Emptied(DTCS')
    BY <1>1, EmptiedInv
  <1>2. ASSUME NEW code \in Codes, NEW bits \in SUBSET Bits,
               DTCS' = WithFault(DTCS, code, bits)
        PROVE  RecordsInv'
    <2>1. PICK slot \in DtcSlots, status \in SUBSET Bits :
           /\ DTCS' = [DTCS EXCEPT ![slot] = [code |-> code, status |-> status]]
           /\ DTCS[slot].code # code => \A i \in DtcSlots : DTCS[i].code # code
      BY <1>2, WithFaultShape
    <2>2. [code |-> code, status |-> status] \in DtcRecord
      BY DEF DtcRecord
    <2>3. StoreTypeOK'
      BY <2>1, <2>2 DEF StoreTypeOK
    <2>4. \A i \in DtcSlots : DTCS'[i] = IF i = slot THEN [code |-> code, status |-> status]
                                     ELSE DTCS[i]
      BY <2>1 DEF StoreTypeOK
    <2>5. \A i \in DtcSlots : i # slot /\ DTCS[i].code = code => DTCS[i] = EmptySlot
      <3> SUFFICES ASSUME NEW i \in DtcSlots, i # slot, DTCS[i].code = code PROVE FALSE
        OBVIOUS
      <3>1. DTCS[slot].code = code
        BY <2>1
      <3>2. DTCS[i] # EmptySlot /\ DTCS[slot] # EmptySlot
        BY <3>1, RecordFacts
      <3>3. QED
        BY <3>1, <3>2 DEF OneRecordPerCode, Free
    <2>6. OneRecordPerCode'
      <3> SUFFICES ASSUME NEW i \in DtcSlots, NEW j \in DtcSlots,
                          DTCS'[i] # EmptySlot, DTCS'[j] # EmptySlot,
                          DTCS'[i].code = DTCS'[j].code
                   PROVE  i = j
        BY DEF OneRecordPerCode, Free
      <3>1. CASE i # slot /\ j # slot
        BY <2>4, <3>1 DEF OneRecordPerCode, Free
      <3>2. CASE i = slot \/ j = slot
        BY <2>4, <2>5, <3>2
      <3>3. QED
        BY <3>1, <3>2
    <2>7. QED
      BY <2>3, <2>6
  <1>3. QED
    BY <1>1, <1>2, StoreStep

LEMMA StoreAlways == StoreSpec => []RecordsInv
  <1>1. StoreInit => RecordsInv
    BY DEF StoreInit, RecordsInv, StoreTypeOK, OneRecordPerCode, Free
  <1>2. QED
    BY <1>1, StoreStepInv, PTL DEF StoreSpec

-----------------------------------------------------------------------------
(***************************************************************************)
(* What the operations do to the set of recorded codes, for the tasks that *)
(* use them.                                                               *)
(***************************************************************************)

\* A group can be cleared in the same step as a code.
LEMMA EmptiedTwice ==
  ASSUME StoreTypeOK, NEW store, Emptied(store), NEW group
  PROVE  Emptied(WithoutGroup(store, group))
  BY DEF WithoutGroup, Emptied

LEMMA NothingEmptied ==
  ASSUME StoreTypeOK
  PROVE  Emptied(DTCS)
  BY DEF Emptied, StoreTypeOK

LEMMA GroupForgets ==
  ASSUME NEW store, NEW group
  PROVE  Recorded(WithoutGroup(store, group)) \subseteq Recorded(store)
  BY DEF WithoutGroup, Recorded, Free

\* With one record per code, clearing the first one clears the code.
LEMMA ClearedIsGone ==
  ASSUME RecordsInv, NEW code \in Codes
  PROVE  code \notin Recorded(Without(DTCS, code))
  <1>1. CASE Holding(DTCS, code) = {}
    BY <1>1 DEF Without, Recorded, Holding
  <1>2. CASE Holding(DTCS, code) # {}
    <2> DEFINE first == First(Holding(DTCS, code))
    <2>1. first \in Holding(DTCS, code)
      <3>1. Holding(DTCS, code) \subseteq DtcSlots
        BY DEF Holding
      <3>2. QED
        BY <1>2, <3>1, FirstIn
    <2>2. Without(DTCS, code) = [DTCS EXCEPT ![first] = EmptySlot]
      BY <1>2 DEF Without
    <2> HIDE DEF first
    <2>3. \A i \in DtcSlots : DTCS[i].code = code => i = first
      <3>1. \A i \in DtcSlots : DTCS[i].code = code => DTCS[i] # EmptySlot
        BY RecordFacts
      <3>2. QED
        BY <2>1, <3>1 DEF Holding, RecordsInv, OneRecordPerCode, Free
    <2>4. \A i \in DtcSlots : Without(DTCS, code)[i] = IF i = first THEN EmptySlot ELSE DTCS[i]
      BY <2>1, <2>2 DEF RecordsInv, StoreTypeOK, Holding
    <2>5. QED
      BY <2>3, <2>4 DEF Recorded, Free
  <1>3. QED
    BY <1>1, <1>2

\* A fault that is set is recorded, also when the memory was full.
LEMMA SetIsRecorded ==
  ASSUME StoreTypeOK, NEW code \in Codes, NEW bits \in SUBSET Bits
  PROVE  code \in Recorded(WithFault(DTCS, code, bits))
  <1>1. PICK slot \in DtcSlots, status \in SUBSET Bits :
          WithFault(DTCS, code, bits) = [DTCS EXCEPT ![slot] = [code |-> code, status |-> status]]
    BY WithFaultShape
  <1>2. WithFault(DTCS, code, bits)[slot] = [code |-> code, status |-> status]
    BY <1>1 DEF StoreTypeOK
  <1>3. [code |-> code, status |-> status] \in DtcRecord
    BY DEF DtcRecord
  <1>4. slot \notin Free(WithFault(DTCS, code, bits))
    BY <1>2, <1>3, RecordFacts DEF Free
  <1>5. QED
    BY <1>2, <1>4 DEF Recorded

\* A report lists recorded codes only: an empty slot matches no mask.
LEMMA ReportedIsRecorded ==
  ASSUME NEW store, NEW mask
  PROVE  Reported(store, mask) \subseteq Recorded(store)
  BY DEF Reported, Matching, Recorded, Free, EmptySlot

LEMMA ReportType ==
  ASSUME NEW store, store \in [DtcSlots -> DtcRecord \cup {EmptySlot}], NEW mask
  PROVE  ReportLen(store, mask) \in Nat /\ Reported(store, mask) \subseteq Codes \cup {NoCode}
  <1>1. IsFiniteSet(DtcSlots)
    BY SlotAssumption, FS_Interval DEF DtcSlots
  <1>2. Cardinality(Matching(store, mask)) \in Nat
    BY <1>1, FS_Subset, FS_CardinalityType DEF Matching
  <1>3. QED
    BY <1>2 DEF ReportLen, Reported, Matching, DtcRecord, EmptySlot

-----------------------------------------------------------------------------
\* Every slot is empty or holds a record.
THEOREM StoreTypeCorrect == StoreSpec => []StoreTypeOK
  BY StoreAlways, PTL DEF RecordsInv

\* No code is ever recorded twice.
THEOREM OneRecordCorrect == StoreSpec => []OneRecordPerCode
  BY StoreAlways, PTL DEF RecordsInv

\* Setting a fault and emptying slots keep the status bits of the codes that
\* stay recorded.
BitsKept ==
  \A i \in DtcSlots \ Free(DTCS), j \in DtcSlots :
    DTCS[i].code = DTCS'[j].code => DTCS[i].status \subseteq DTCS'[j].status

LEMMA MoveKeepsBits ==
  ASSUME RecordsInv,
         \/ Emptied(DTCS')
         \/ \E code \in Codes, bits \in SUBSET Bits : DTCS' = WithFault(DTCS, code, bits)
  PROVE  BitsKept
  <1> SUFFICES ASSUME NEW i \in DtcSlots, DTCS[i] # EmptySlot, NEW j \in DtcSlots,
                      DTCS[i].code = DTCS'[j].code
               PROVE  DTCS[i].status \subseteq DTCS'[j].status
    BY DEF BitsKept, Free
  <1>1. DTCS[i] \in DtcRecord /\ DTCS[i].code \in Codes
    BY DEF RecordsInv, StoreTypeOK, DtcRecord
  <1>2. ASSUME DTCS'[j] = DTCS[j] PROVE DTCS[i].status \subseteq DTCS'[j].status
    <2>1. DTCS[j] # EmptySlot
      BY <1>1, <1>2, RecordFacts
    <2>2. i = j
      BY <1>2, <2>1 DEF RecordsInv, OneRecordPerCode, Free
    <2>3. QED
      BY <1>2, <2>2
  <1>3. CASE Emptied(DTCS')
    BY <1>1, <1>2, <1>3, RecordFacts DEF Emptied
  <1>4. ASSUME NEW code \in Codes, NEW bits \in SUBSET Bits,
               DTCS' = WithFault(DTCS, code, bits)
        PROVE  DTCS[i].status \subseteq DTCS'[j].status
    <2>1. PICK slot \in DtcSlots, status \in SUBSET Bits :
           /\ DTCS' = [DTCS EXCEPT ![slot] = [code |-> code, status |-> status]]
           /\ DTCS[slot].code = code => DTCS[slot].status \subseteq status
           /\ DTCS[slot].code # code => \A k \in DtcSlots : DTCS[k].code # code
      BY <1>4, WithFaultShape DEF RecordsInv
    <2>2. CASE j # slot
      BY <1>2, <2>1, <2>2 DEF RecordsInv, StoreTypeOK
    <2>3. CASE j = slot
      <3>1. DTCS'[j] = [code |-> code, status |-> status]
        BY <2>1, <2>3 DEF RecordsInv, StoreTypeOK
      <3>2. DTCS[i].code = code
        BY <3>1
      <3>3. DTCS[slot].code = code
        BY <2>1, <3>2
      <3>4. i = slot
        BY <3>2, <3>3, RecordFacts DEF RecordsInv, OneRecordPerCode, Free
      <3>5. QED
        BY <2>1, <2>3, <3>1, <3>3, <3>4
    <2>4. QED
      BY <2>2, <2>3
  <1>5. QED
    BY <1>3, <1>4

\* A recorded code loses none of its status bits.
THEOREM StatusCorrect == StoreSpec => StatusAccumulates
  <1>1. RecordsInv /\ [StoreNext]_DTCS => [BitsKept]_DTCS
    BY StoreStep, MoveKeepsBits DEF RecordsInv
  <1>2. QED
    BY <1>1, StoreAlways, PTL DEF StoreSpec, StatusAccumulates, BitsKept

=============================================================================
