---------------------------- MODULE MemoryManager ----------------------------
(***************************************************************************)
(* The memory manager of resource allocation (host/src/mm.cpp): it gives   *)
(* every buffer and event an address in the virtual address space of every *)
(* kernel that uses it, notes the address in the kernel's TLB object, from *)
(* which kernel arguments are made, and sets the entries of the hardware   *)
(* TLB of the kernel's unit accordingly.                                   *)
(*                                                                         *)
(* There is one kernel per unit, so a kernel stands for its unit.  The     *)
(* loops over the vectors of the task graph run in any order.  Bases and   *)
(* limits of the regions are parameters; mm.cpp has them as macros.        *)
(***************************************************************************)
EXTENDS Integers

CONSTANTS
  Kernel, Buffer, Event,
  KernelsIn, KernelsOut,   \* the kernels that write and read a buffer
  EventKernels,            \* the kernels tied to an event, or that own it
  Sizes,                   \* the sizes buffers may have
  EventPhys,               \* EventPhys[e]: offset of e's register (external)
  BufferPhys,              \* BufferPhys[b]: address of b in its memory (external)
  KernelBase, ImageArea,   \* per architecture: the kernel image's region, of size 0 on GN,
  SynchBase, SynchSize,    \*   the region of the registers,
  SharedBase, SharedEnd    \*   and the region of the buffers, end excluded

\* The architectures with a TLB, and the emulated one.
Mapped == {"PEAK", "NUP", "DCT"}
Arch == Mapped \cup {"GN"}

\* No two of the three regions of a unit overlap.
RegionsApart(a) ==
  LET apart(b1, s1, b2, s2) == b1 + s1 <= b2 \/ b2 + s2 <= b1
      shared == SharedEnd[a] - SharedBase[a] IN
  /\ apart(KernelBase[a], ImageArea[a], SynchBase[a], SynchSize)
  /\ apart(KernelBase[a], ImageArea[a], SharedBase[a], shared)
  /\ apart(SynchBase[a], SynchSize, SharedBase[a], shared)

ASSUME LayoutAssumption ==
  /\ KernelBase \in [Arch -> Nat] /\ ImageArea \in [Arch -> Nat]
  /\ SynchBase \in [Mapped -> Nat] /\ SynchSize \in Nat \ {0}
  /\ SharedBase \in [Mapped -> Nat] /\ SharedEnd \in [Mapped -> Nat]
  /\ \A a \in Mapped : SharedBase[a] < SharedEnd[a] /\ RegionsApart(a)

ASSUME GraphAssumption ==
  /\ KernelsIn \in [Buffer -> SUBSET Kernel]
  /\ KernelsOut \in [Buffer -> SUBSET Kernel]
  /\ EventKernels \in [Event -> SUBSET Kernel]
  /\ Sizes \subseteq Nat \ {0}
  /\ EventPhys \in [Event -> 0 .. SynchSize - 1]
  /\ BufferPhys \in [Buffer -> Nat]
  /\ "image" \notin Buffer /\ "events" \notin Buffer

VARIABLES
  arch,      \* the architecture of the unit each kernel was assigned to
  size,      \* the size of each buffer
  left,      \* what the loops have still to do
  pool,      \* virtual_address_pool: the next free virtual address
  entry,     \* entries: the next free entry of the unit's hardware TLB
  tlb,       \* the hardware TLB: a set of entries per unit
  vbuffer,   \* the kernels' TLB objects: the addresses of buffers,
  vevent     \*   and of events

vars == <<arch, size, left, pool, entry, tlb, vbuffer, vevent>>

\* An address that has not been given.
Unset == -1

ENTRY_KERNEL == 1
ENTRY_EVENTS == 2
ENTRY_START == 3

\* BBQContext::resource_allocation chooses MM_GN for simulated kernels.
Simulated == \A k \in Kernel : arch[k] = "GN"
-----------------------------------------------------------------------------
\* hn_set_tlb (external): entry n of k's unit maps size n addresses to object.
SetTlb(k, n, first, length, object) ==
  tlb' = [tlb EXCEPT ![k] =
            {r \in @ : r.entry # n} \cup
            {[entry |-> n, first |-> first, last |-> first + length - 1,
              of |-> object]}]

\* Mutant of PoolStart: the DCT falls into the default case.
PoolStartNoDct(k) == IF arch[k] \in {"PEAK", "NUP"} THEN SharedBase[arch[k]] ELSE Unset

PoolStart(k) == IF arch[k] \in Mapped THEN SharedBase[arch[k]] ELSE Unset

\* One iteration of set_vaddr_kernels, which an emulated unit is not exempt from:
\* its image has the size 0, so that the entry ends before it begins.
MapImage(k) ==
  /\ k \in left.images
  /\ left' = [left EXCEPT !.images = @ \ {k}]
  /\ pool' = [pool EXCEPT ![k] = PoolStart(k)]
  /\ entry' = [entry EXCEPT ![k] = ENTRY_START]
  /\ SetTlb(k, ENTRY_KERNEL, KernelBase[arch[k]], ImageArea[arch[k]], "image")
  /\ UNCHANGED <<arch, size, vbuffer, vevent>>
-----------------------------------------------------------------------------
\* Mutant of Aligned: it rounds down.
AlignedDown(a) == a - (a % 64)

\* The next multiple of 64.
Aligned(a) == IF (a % 64) # 0 THEN a + 64 - (a % 64) ELSE a

\* Mutant of EntryAfter: the entry is used again.
EntryAfterSame(n) == n

EntryAfter(n) == n + 1

\* MM::set_buff_tlb, for a buffer b that k reads or writes.  A buffer that k
\* both reads and writes is mapped twice.
SetBuffTlb(k, b) ==
  /\ SetTlb(k, entry[k], pool[k], size[b], b)
  /\ entry' = [entry EXCEPT ![k] = EntryAfter(@)]
  /\ pool' = [pool EXCEPT ![k] = Aligned(@ + size[b])]
  /\ vbuffer' = [vbuffer EXCEPT ![k][b] = pool[k]]

\* MM_GN::set_buff_tlb.
SetBuffTlbGN(k, b) ==
  /\ vbuffer' = [vbuffer EXCEPT ![k][b] = BufferPhys[b]]
  /\ UNCHANGED <<tlb, entry, pool>>

\* One iteration of the inner loops of set_vaddr_buffers.
MapBuffer(k, b, side) ==
  /\ left.images = {} /\ <<k, b, side>> \in left.buffers
  /\ left' = [left EXCEPT !.buffers = @ \ {<<k, b, side>>}]
  /\ IF Simulated THEN SetBuffTlbGN(k, b) ELSE SetBuffTlb(k, b)
  /\ UNCHANGED <<arch, size, vevent>>
-----------------------------------------------------------------------------
\* Mutant of EventAddress: the DCT falls into the default case.
EventAddressNoDct(k, e) ==
  CASE arch[k] = "GN"  -> EventPhys[e]
    [] arch[k] = "DCT" -> SynchBase["PEAK"] + EventPhys[e]
    [] OTHER -> SynchBase[arch[k]] + EventPhys[e]

\* MM::set_event_tlb and MM_GN::set_event_tlb.
EventAddress(k, e) ==
  IF arch[k] = "GN" THEN EventPhys[e] ELSE SynchBase[arch[k]] + EventPhys[e]

\* One iteration of the loops of set_vaddr_events over events.
MapEvent(k, e) ==
  /\ left.images = {} /\ left.buffers = {} /\ <<k, e>> \in left.events
  /\ left' = [left EXCEPT !.events = @ \ {<<k, e>>}]
  /\ vevent' = [vevent EXCEPT ![k][e] = EventAddress(k, e)]
  /\ UNCHANGED <<arch, size, pool, entry, tlb, vbuffer>>

\* One iteration of its loop over kernels.
MapWindow(k) ==
  /\ left.images = {} /\ left.buffers = {} /\ k \in left.windows
  /\ left' = [left EXCEPT !.windows = @ \ {k}]
  /\ IF arch[k] = "GN" THEN UNCHANGED tlb
     ELSE SetTlb(k, ENTRY_EVENTS, SynchBase[arch[k]], SynchSize, "events")
  /\ UNCHANGED <<arch, size, pool, entry, vbuffer, vevent>>
-----------------------------------------------------------------------------
BufferWork ==
  {w \in Kernel \X Buffer \X {"in", "out"} :
     w[1] \in IF w[3] = "in" THEN KernelsIn[w[2]] ELSE KernelsOut[w[2]]}

EventWork == {w \in Kernel \X Event : w[1] \in EventKernels[w[2]]}

Init ==
  /\ arch \in [Kernel -> Mapped] \cup [Kernel -> {"GN"}]
  /\ size \in [Buffer -> Sizes]
  /\ left = [images |-> Kernel, buffers |-> BufferWork, events |-> EventWork,
             windows |-> Kernel]
  /\ pool = [k \in Kernel |-> Unset]
  /\ entry = [k \in Kernel |-> ENTRY_START]
  /\ tlb = [k \in Kernel |-> {}]
  /\ vbuffer = [k \in Kernel |-> [b \in Buffer |-> Unset]]
  /\ vevent = [k \in Kernel |-> [e \in Event |-> Unset]]

KernelStep(k) ==
  \/ MapImage(k)
  \/ \E b \in Buffer, side \in {"in", "out"} : MapBuffer(k, b, side)
  \/ \E e \in Event : MapEvent(k, e)
  \/ MapWindow(k)

Allocated ==
  /\ left.images = {} /\ left.buffers = {}
  /\ left.events = {} /\ left.windows = {}

Done == Allocated /\ UNCHANGED vars

Next == (\E k \in Kernel : KernelStep(k)) \/ Done

Spec == Init /\ [][Next]_vars
-----------------------------------------------------------------------------
(***************************************************************************)
(* Properties.                                                             *)
(***************************************************************************)
TlbEntry ==
  [entry : Nat, first : Nat, last : Int, of : Buffer \cup {"image", "events"}]

TypeOK ==
  /\ arch \in [Kernel -> Mapped] \cup [Kernel -> {"GN"}]
  /\ size \in [Buffer -> Sizes]
  /\ left \in [images : SUBSET Kernel, buffers : SUBSET BufferWork,
               events : SUBSET EventWork, windows : SUBSET Kernel]
  /\ pool \in [Kernel -> Nat \cup {Unset}]
  /\ entry \in [Kernel -> Nat]
  /\ tlb \in [Kernel -> SUBSET TlbEntry]
  /\ vbuffer \in [Kernel -> [Buffer -> Nat \cup {Unset}]]
  /\ vevent \in [Kernel -> [Event -> Nat \cup {Unset}]]

\* Nothing in mm.cpp checks that the buffers of a kernel fit into the region
\* between SharedBase and the region behind it.
Fits(k) == arch[k] \in Mapped /\ pool[k] <= SharedEnd[arch[k]]

\* The hardware TLB of a unit never maps an address twice.
TlbDisjoint ==
  \A k \in Kernel : Fits(k) =>
    \A r, s \in tlb[k] : r # s => r.last < s.first \/ s.last < r.first

\* The address a kernel is given for a buffer is translated to that buffer,
\* from its first byte to its last, and once resource allocation has mapped
\* the buffers no kernel lacks the address of one it uses.
BuffersResolve ==
  \A k \in Kernel, b \in Buffer :
    /\ vbuffer[k][b] # Unset /\ arch[k] \in Mapped =>
         \E r \in tlb[k] : /\ r.of = b
                           /\ r.first = vbuffer[k][b]
                           /\ r.last = vbuffer[k][b] + size[b] - 1
    /\ left.buffers = {} /\ k \in KernelsIn[b] \cup KernelsOut[b] =>
         vbuffer[k][b] # Unset

\* When the allocation has ended, the address a kernel is given for an event
\* is that of the event's own register, in the region of the registers.
EventsResolve ==
  Allocated =>
    \A e \in Event : \A k \in EventKernels[e] :
      arch[k] \in Mapped =>
        \E r \in tlb[k] : /\ r.of = "events"
                          /\ vevent[k][e] \in r.first .. r.last
                          /\ vevent[k][e] - r.first = EventPhys[e]
=============================================================================
