--------------------------- MODULE AllocationLedger ---------------------------
(***************************************************************************)
(* What the allocation tracker of the MACA runtime promises, with neither  *)
(* a running counter nor a lock: a ledger of the synchronous blocks that   *)
(* are charged to a device, and for each device the most that was ever     *)
(* charged to it at once since the last reset.                             *)
(***************************************************************************)
EXTENDS Integers, FiniteSets

CONSTANTS
    Ptrs,           \* device addresses
    Sizes,          \* sizes in bytes that are asked for
    DeviceCount     \* number of MACA devices

VARIABLES
    ledger,         \* address -> the record it is charged under, or NoRecord
    high            \* device -> high watermark

lvars == <<ledger, high>>

Devices == 0 .. DeviceCount - 1

NoRecord == [device_index |-> -1, size |-> 0]

(* The bytes charged to a device, as pairs of an address and an offset: the *)
(* sum of the sizes is the number of such pairs.                            *)
Bytes(d) == UNION { {p} \X (1 .. ledger[p].size) :
                        p \in {q \in Ptrs : ledger[q].device_index = d} }

InUse(d) == Cardinality(Bytes(d))

Larger(a, b) == IF a >= b THEN a ELSE b

LInit == /\ ledger = [p \in Ptrs |-> NoRecord]
         /\ high = [d \in Devices |-> 0]

(* An address is charged once: it must not be in the ledger already.        *)
Charge(p, d, n) ==
    /\ ledger[p] = NoRecord
    /\ ledger' = [ledger EXCEPT ![p] = [device_index |-> d, size |-> n]]
    /\ high' = [high EXCEPT ![d] = Larger(@, InUse(d)')]

Discharge(p) ==
    /\ ledger[p] # NoRecord
    /\ ledger' = [ledger EXCEPT ![p] = NoRecord]
    /\ UNCHANGED high

Reset(d) ==
    /\ high' = [high EXCEPT ![d] = InUse(d)]
    /\ UNCHANGED ledger

LNext == \/ \E p \in Ptrs, d \in Devices, n \in Sizes : Charge(p, d, n)
         \/ \E p \in Ptrs : Discharge(p)
         \/ \E d \in Devices : Reset(d)

LSpec == LInit /\ [][LNext]_lvars
=============================================================================
