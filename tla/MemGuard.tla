----------------------------- MODULE MemGuard -----------------------------
(***************************************************************************)
(* The allocation guard preloaded into a backend that is being measured    *)
(* (native/memguard/memguard.c), on one device.                            *)
(*                                                                         *)
(* An allocation takes three steps: allocation_allowed compares the bytes  *)
(* charged so far with the limit, the real CUDA function allocates, and    *)
(* record_allocation enters the pointer in a table of fixed size and       *)
(* charges the bytes.  A free takes two: the real function frees, then     *)
(* record_free looks the pointer up and returns its charge.  The mutex     *)
(* covers the first, third and last of these steps one by one, never a     *)
(* whole call.  An asynchronous free returns no charge at all.             *)
(*                                                                         *)
(* CUDA itself is external: it hands out any address that is not resident, *)
(* may refuse, and reaches an asynchronous free whenever it likes.         *)
(***************************************************************************)
EXTENDS Integers, FiniteSets

CONSTANTS
  Threads,   \* the threads of the backend
  Ptrs,      \* the addresses CUDA hands out
  Sizes,     \* the sizes they ask for
  Limit,     \* device_limit
  Slots,     \* GGRUN_MAX_ALLOCS
  Async,     \* the backend frees asynchronously too
  Reuse,     \* CUDA may hand out an address whose free is not recorded yet
  NoPtr      \* no address; the entry of an unused record

ASSUME SizesAssumption == Sizes \subseteq Nat \ {0} /\ IsFiniteSet(Sizes) /\ Sizes # {}
ASSUME LimitAssumption == Limit \in Nat /\ Slots \in Nat /\ Async \in BOOLEAN /\ Reuse \in BOOLEAN
ASSUME PtrsAssumption == IsFiniteSet(Ptrs) /\ NoPtr \notin Ptrs
ASSUME ThreadsAssumption == IsFiniteSet(Threads) /\ Threads # {}

VARIABLES
  resident,  \* the bytes that are really allocated at each address (0: none)
  dying,     \* the addresses whose asynchronous free the stream has not reached
  held,      \* the addresses the backend holds
  records,   \* the table: address and size of each entry
  active,    \* device_active
  peak,      \* device_peak
  op         \* the call each thread is in

guardVars == <<resident, dying, held, records, active, peak, op>>

\* The bytes of each, and how many there are of all.
BytesOf(f) == UNION {{x} \X (1..f[x]) : x \in DOMAIN f}
Bytes(f) == Cardinality(BytesOf(f))

Idle == [pc |-> "idle", ptr |-> NoPtr, size |-> 0]
Unused == [ptr |-> NoPtr, size |-> 0]

GuardInit ==
  /\ resident = [p \in Ptrs |-> 0]
  /\ dying = {}
  /\ held = {}
  /\ records = [i \in 1..Slots |-> Unused]
  /\ active = 0
  /\ peak = 0
  /\ op = [t \in Threads |-> Idle]

IsLowest(i, S) == i \in S /\ \A j \in S : i <= j
FreeEntries == {i \in DOMAIN records : records[i] = Unused}
EntriesOf(p) == {i \in DOMAIN records : records[i].ptr = p}

-----------------------------------------------------------------------------

\* What is left of the limit, nothing once it is exceeded.
Left == Limit - (IF active > Limit THEN Limit ELSE active)

\* allocation_allowed lets the call pass.
Allowed(t, size) ==
  /\ op[t] = Idle
  /\ size <= Left
  /\ op' = [op EXCEPT ![t] = [pc |-> "allocating", ptr |-> NoPtr, size |-> size]]
  /\ UNCHANGED <<resident, dying, held, records, active, peak>>

\* A denied call returns at once.
Denied(t, size) ==
  /\ op[t] = Idle
  /\ size > Left
  /\ UNCHANGED guardVars

Unrecorded == {op[t].ptr : t \in {u \in Threads : op[u].pc = "unrecording"}}

\* The real allocation succeeds at any address that is not resident.
Allocate(t) ==
  /\ op[t].pc = "allocating"
  /\ \E p \in Ptrs :
       /\ resident[p] = 0
       /\ ~Reuse => p \notin Unrecorded
       /\ resident' = [resident EXCEPT ![p] = op[t].size]
       /\ op' = [op EXCEPT ![t].pc = "recording", ![t].ptr = p]
  /\ UNCHANGED <<dying, held, records, active, peak>>

\* It fails: record_allocation records nothing.
AllocateFails(t) ==
  /\ op[t].pc = "allocating"
  /\ op' = [op EXCEPT ![t] = Idle]
  /\ UNCHANGED <<resident, dying, held, records, active, peak>>

\* Mutant: an allocation the table has no room for is not charged.
MutRecordTabledOnly(t) ==
  /\ op[t].pc = "recording"
  /\ \/ FreeEntries = {} /\ UNCHANGED <<records, active>>
     \/ /\ \E i \in FreeEntries :
             IsLowest(i, FreeEntries) /\ records' = [records EXCEPT ![i] = [ptr |-> op[t].ptr, size |-> op[t].size]]
        /\ active' = active + op[t].size
  /\ peak' = IF active' > peak THEN active' ELSE peak
  /\ held' = held \union {op[t].ptr}
  /\ op' = [op EXCEPT ![t] = Idle]
  /\ UNCHANGED <<resident, dying>>

\* record_allocation takes the first unused entry, if there is one, and charges
\* the bytes in any case.
Record(t) ==
  /\ op[t].pc = "recording"
  /\ \/ FreeEntries = {} /\ UNCHANGED records
     \/ \E i \in FreeEntries :
          IsLowest(i, FreeEntries) /\ records' = [records EXCEPT ![i] = [ptr |-> op[t].ptr, size |-> op[t].size]]
  /\ active' = active + op[t].size
  /\ peak' = IF active' > peak THEN active' ELSE peak
  /\ held' = held \union {op[t].ptr}
  /\ op' = [op EXCEPT ![t] = Idle]
  /\ UNCHANGED <<resident, dying>>

\* The real free returns the memory.  A backend frees what it holds, once.
Free(t, p) ==
  /\ op[t] = Idle
  /\ p \in held
  /\ held' = held \ {p}
  /\ resident' = [resident EXCEPT ![p] = 0]
  /\ op' = [op EXCEPT ![t] = [pc |-> "unrecording", ptr |-> p, size |-> 0]]
  /\ UNCHANGED <<dying, records, active, peak>>

\* record_free returns the charge of the first entry with that address.
Unrecord(t) ==
  /\ op[t].pc = "unrecording"
  /\ \/ EntriesOf(op[t].ptr) = {} /\ UNCHANGED <<records, active>>
     \/ \E i \in EntriesOf(op[t].ptr) :
          /\ IsLowest(i, EntriesOf(op[t].ptr)) /\ records' = [records EXCEPT ![i] = Unused]
          /\ active' = IF active >= records[i].size THEN active - records[i].size ELSE 0
  /\ op' = [op EXCEPT ![t] = Idle]
  /\ UNCHANGED <<resident, dying, held, peak>>

\* Mutant: an asynchronous free returns the charge like a synchronous one.
MutFreeAsyncUncharged(t, p) ==
  /\ op[t] = Idle
  /\ Async
  /\ p \in held
  /\ held' = held \ {p}
  /\ dying' = dying \union {p}
  /\ op' = [op EXCEPT ![t] = [pc |-> "unrecording", ptr |-> p, size |-> 0]]
  /\ UNCHANGED <<resident, records, active, peak>>

\* An asynchronous free is queued on a stream and keeps its charge.
FreeAsync(t, p) ==
  /\ op[t] = Idle
  /\ Async
  /\ p \in held
  /\ held' = held \ {p}
  /\ dying' = dying \union {p}
  /\ UNCHANGED <<resident, records, active, peak, op>>

\* The stream reaches it.
StreamReaches(p) ==
  /\ p \in dying
  /\ dying' = dying \ {p}
  /\ resident' = [resident EXCEPT ![p] = 0]
  /\ UNCHANGED <<held, records, active, peak, op>>

GuardNext ==
  \/ \E t \in Threads :
       \/ \E size \in Sizes : Allowed(t, size) \/ Denied(t, size)
       \/ Allocate(t)
       \/ AllocateFails(t)
       \/ Record(t)
       \/ \E p \in Ptrs : Free(t, p) \/ FreeAsync(t, p)
       \/ Unrecord(t)
  \/ \E p \in Ptrs : StreamReaches(p)

-----------------------------------------------------------------------------
(* What the guard must do                                                  *)

NoCall == \A t \in Threads : op[t] = Idle

\* The limit is checked in one critical section and charged in another, so it can
\* be exceeded, but only by what the other threads are allocating meanwhile: by
\* nothing at all when one thread allocates.
OvershootBounded ==
  \E most \in Sizes :
    /\ \A size \in Sizes : size <= most
    /\ Bytes(resident) <= Limit + (Cardinality(Threads) - 1) * most

\* Between calls, what is charged covers what is resident: the total and the peak
\* read off the guard are no underestimates.
ChargeCoversResident == NoCall => Bytes(resident) <= active /\ active <= peak
=============================================================================
