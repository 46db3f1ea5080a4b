------------------------------ MODULE DtcStore ------------------------------
(***************************************************************************)
(* The fault memory of uds-core/src/dtc.rs: MAX_DTCS slots, each empty or  *)
(* holding a trouble code with its status bits.  Fault detection anywhere  *)
(* in the firmware calls set_dtc and clear_dtc; the UDS services 0x14 and  *)
(* 0x19 end in clear_group and report_by_status_mask.  Every operation is  *)
(* one critical section, so each is one step here.                         *)
(*                                                                         *)
(* A status byte is the set of its bits, and the group of a code stands    *)
(* for the high nibble of its most significant byte.                       *)
(***************************************************************************)
EXTENDS Integers, FiniteSets

CONSTANTS
  Codes,         \* the trouble codes of the firmware
  Groups,        \* the groups of codes
  GroupOf,       \* the group of each code
  Bits,          \* the status bits in use
  MAX_DTCS       \* the number of slots

ASSUME GroupAssumption == GroupOf \in [Codes -> Groups]
ASSUME SlotAssumption == MAX_DTCS \in Nat \ {0}

\* The group value 0xFFFFFF of a clear request.
AllGroups == "0xFFFFFF"
\* An empty slot: None in the code.
NoCode == "None"
ASSUME NamesAssumption == AllGroups \notin Groups /\ NoCode \notin Codes

VARIABLE DTCS

DtcSlots == 1..MAX_DTCS
DtcRecord == [code : Codes, status : SUBSET Bits]
EmptySlot == [code |-> NoCode, status |-> {}]

StoreTypeOK == DTCS \in [DtcSlots -> DtcRecord \cup {EmptySlot}]

StoreInit == DTCS = [i \in DtcSlots |-> EmptySlot]

Holding(store, code) == {i \in DtcSlots : store[i].code = code}
Free(store) == {i \in DtcSlots : store[i] = EmptySlot}
First(S) == CHOOSE i \in S : \A j \in S : i <= j

Recorded(store) == {store[i].code : i \in DtcSlots \ Free(store)}

-----------------------------------------------------------------------------
(***************************************************************************)
(* The operations, as functions of the whole array.                        *)
(***************************************************************************)
PutAt(store, slot, code, bits) ==
  [store EXCEPT ![slot] = [code |-> code, status |-> bits]]

\* Fault: a free slot is looked for before the code itself.
WithFaultFreeFirst(store, code, bits) ==
  IF Free(store) # {} THEN PutAt(store, First(Free(store)), code, bits)
  ELSE PutAt(store, 1, code, bits)

\* Fault: the new status replaces the old one.
WithFaultReplaced(store, code, bits) ==
  IF Holding(store, code) # {}
  THEN PutAt(store, First(Holding(store, code)), code, bits)
  ELSE PutAt(store, IF Free(store) # {} THEN First(Free(store)) ELSE 1, code, bits)

\* set_dtc: add the bits to the record of the code; without one take the
\* first free slot; without that overwrite the first slot.
WithFault(store, code, bits) ==
  IF Holding(store, code) # {}
  THEN [store EXCEPT ![First(Holding(store, code))].status = @ \cup bits]
  ELSE PutAt(store, IF Free(store) # {} THEN First(Free(store)) ELSE 1, code, bits)

\* clear_dtc: the search ends at the first record of the code.
Without(store, code) ==
  IF Holding(store, code) = {} THEN store
  ELSE [store EXCEPT ![First(Holding(store, code))] = EmptySlot]

\* clear_group.
WithoutGroup(store, group) ==
  [i \in DtcSlots |->
     IF \/ group = AllGroups
        \/ i \notin Free(store) /\ GroupOf[store[i].code] = group
     THEN EmptySlot ELSE store[i]]

\* report_by_status_mask: the slots it lists, the codes in them, and the
\* length of the response, four bytes for each slot behind a header of five.
Matching(store, mask) == {i \in DtcSlots : store[i].status \cap mask # {}}
Reported(store, mask) == {store[i].code : i \in Matching(store, mask)}
ReportLen(store, mask) == 5 + 4 * Cardinality(Matching(store, mask))

-----------------------------------------------------------------------------
set_dtc(code, bits) == DTCS' = WithFault(DTCS, code, bits)
clear_dtc(code) == DTCS' = Without(DTCS, code)
clear_group(group) == DTCS' = WithoutGroup(DTCS, group)

StoreNext ==
  \/ \E code \in Codes, bits \in SUBSET Bits : set_dtc(code, bits)
  \/ \E code \in Codes : clear_dtc(code)
  \/ \E group \in Groups \cup {AllGroups} : clear_group(group)

StoreSpec == StoreInit /\ [][StoreNext]_DTCS

-----------------------------------------------------------------------------
\* No code is held by two slots.  clear_dtc relies on it: it stops at the
\* first record, and a second one would outlive the clearing of its fault.
OneRecordPerCode ==
  \A i, j \in DtcSlots \ Free(DTCS) : DTCS[i].code = DTCS[j].code => i = j

\* As long as a code is recorded it keeps every status bit it was given, in
\* whatever order the faults are reported: bits go only with the record.
StatusAccumulates ==
  [][\A i \in DtcSlots \ Free(DTCS), j \in DtcSlots :
       DTCS[i].code = DTCS'[j].code
         => DTCS[i].status \subseteq DTCS'[j].status]_DTCS

=============================================================================
