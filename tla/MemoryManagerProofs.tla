------------------------- MODULE MemoryManagerProofs -------------------------
(***************************************************************************)
(* The mappings of the memory manager are disjoint and lead where they     *)
(* should, for any number of kernels, buffers and events, any sizes and    *)
(* any layout of the regions that keeps them apart.                        *)
(*                                                                         *)
(* The inductive invariant says what each entry of a hardware TLB is: the  *)
(* image in entry 1, the registers in entry 2, and from entry 3 on buffers *)
(* at rising addresses, all of them below the next free address.           *)
(***************************************************************************)
EXTENDS MemoryManager, TLAPS

IsImage(k, r) ==
  /\ r.entry = ENTRY_KERNEL /\ r.of = "image"
  /\ r.first = KernelBase[arch[k]]
  /\ r.last = KernelBase[arch[k]] + ImageArea[arch[k]] - 1

IsWindow(k, r) ==
  /\ r.entry = ENTRY_EVENTS /\ r.of = "events"
  /\ r.first = SynchBase[arch[k]]
  /\ r.last = SynchBase[arch[k]] + SynchSize - 1

IsBuffer(k, r) ==
  /\ ENTRY_START <= r.entry /\ r.entry < entry[k] /\ r.of \in Buffer
  /\ SharedBase[arch[k]] <= r.first /\ r.last < pool[k]
  /\ r.last = r.first + size[r.of] - 1

\* What the entries of k's unit are.
EntriesInv ==
  \A k \in Kernel :
    /\ arch[k] = "GN" => \A r \in tlb[k] : IsImage(k, r)
    /\ arch[k] # "GN" =>
         \A r \in tlb[k] : IsImage(k, r) \/ IsWindow(k, r) \/ IsBuffer(k, r)

\* Entries of buffers are at rising addresses.
RisingInv ==
  \A k \in Kernel : \A r, s \in tlb[k] :
    /\ r.entry = s.entry => r = s
    /\ ENTRY_START <= r.entry /\ r.entry < s.entry => r.last < s.first

\* The next free address and entry of a kernel whose image is mapped.
PoolInv ==
  \A k \in Kernel :
    /\ entry[k] >= ENTRY_START
    /\ k \notin left.images /\ arch[k] \in Mapped => pool[k] >= SharedBase[arch[k]]
    /\ k \in left.images => tlb[k] = {}

\* A buffer's address in a kernel's TLB object has an entry that maps it.
ResolveInv ==
  \A k \in Kernel, b \in Buffer :
    vbuffer[k][b] # Unset /\ arch[k] \in Mapped =>
      \E r \in tlb[k] : IsBuffer(k, r) /\ r.of = b /\ r.first = vbuffer[k][b]

\* The buffers the loops have passed have an address.
GivenInv ==
  \A w \in BufferWork \ left.buffers : vbuffer[w[1]][w[2]] # Unset

\* The same for the registers.
WindowInv ==
  \A k \in Kernel :
    /\ arch[k] \in Mapped /\ k \notin left.windows =>
         \E r \in tlb[k] : IsWindow(k, r)
    /\ \A e \in Event :
         <<k, e>> \in EventWork \ left.events => vevent[k][e] = EventAddress(k, e)

IInv ==
  /\ TypeOK /\ EntriesInv /\ RisingInv /\ PoolInv
  /\ ResolveInv /\ GivenInv /\ WindowInv
-----------------------------------------------------------------------------
USE DEF Mapped, Arch, Unset, ENTRY_KERNEL, ENTRY_EVENTS, ENTRY_START

\* Rounding up to a multiple of 64 never goes back.
LEMMA AlignedGrows ==
  ASSUME NEW a \in Nat
  PROVE  Aligned(a) \in Nat /\ Aligned(a) >= a
<1>1. a % 64 \in 0 .. 63
  OBVIOUS
<1>2. QED
  BY <1>1 DEF Aligned

\* Either all kernels are simulated or none is.
LEMMA AllOrNone ==
  ASSUME TypeOK, NEW k \in Kernel
  PROVE  /\ Simulated => arch[k] = "GN"
         /\ ~ Simulated => arch \in [Kernel -> Mapped]
BY DEF TypeOK, Simulated

-----------------------------------------------------------------------------
LEMMA InitInvariant == Init => IInv
<1> SUFFICES ASSUME Init PROVE IInv
  OBVIOUS
<1>1. TypeOK
  BY DEF Init, TypeOK
<1>2. EntriesInv /\ RisingInv
  BY DEF Init, EntriesInv, RisingInv
<1>3. PoolInv
  <2> SUFFICES ASSUME NEW k \in Kernel
               PROVE  /\ entry[k] >= ENTRY_START
                      /\ k \in left.images
                      /\ tlb[k] = {}
    BY Zenon DEF PoolInv
  <2>1. entry[k] >= ENTRY_START
    BY DEF Init
  <2>2. QED
    BY <2>1 DEF Init
<1>4. ResolveInv /\ GivenInv
  BY DEF Init, ResolveInv, GivenInv, BufferWork
<1>5. WindowInv
  BY DEF Init, WindowInv
<1>6. QED
  BY <1>1, <1>2, <1>3, <1>4, <1>5 DEF IInv
-----------------------------------------------------------------------------
\* Mapping the image of a kernel.
LEMMA MapImageInvariant ==
  ASSUME IInv, NEW k \in Kernel, MapImage(k)
  PROVE  IInv'
<1>1. TypeOK /\ EntriesInv /\ RisingInv /\ PoolInv /\ ResolveInv /\ GivenInv /\ WindowInv
  BY DEF IInv
<1>2. /\ arch' = arch /\ size' = size /\ vbuffer' = vbuffer /\ vevent' = vevent
      /\ k \in left.images
      /\ left' = [left EXCEPT !.images = @ \ {k}]
      /\ entry' = [entry EXCEPT ![k] = ENTRY_START]
      /\ pool' = [pool EXCEPT ![k] = PoolStart(k)]
  BY DEF MapImage
<1>3. /\ left'.images = left.images \ {k} /\ left'.buffers = left.buffers
      /\ left'.events = left.events /\ left'.windows = left.windows
      /\ entry'[k] = 3 /\ pool'[k] = PoolStart(k)
      /\ \A j \in Kernel \ {k} : entry'[j] = entry[j] /\ pool'[j] = pool[j]
  BY <1>1, <1>2 DEF TypeOK
<1>4. tlb[k] = {}
  BY <1>1, <1>2 DEF PoolInv
<1>g. GivenInv'
  <2>1. BufferWork' = BufferWork
    BY DEF BufferWork
  <2>2. QED
    BY <1>1, <1>2, <1>3, <2>1 DEF GivenInv
<1> DEFINE new == [entry |-> 1, first |-> KernelBase[arch[k]],
                   last |-> KernelBase[arch[k]] + ImageArea[arch[k]] - 1,
                   of |-> "image"]
<1>n. KernelBase[arch[k]] \in Nat /\ ImageArea[arch[k]] \in Nat
  BY <1>1, LayoutAssumption DEF TypeOK
<1>o. SetTlb(k, ENTRY_KERNEL, KernelBase[arch[k]], ImageArea[arch[k]], "image")
  BY DEF MapImage
<1>p. /\ new \in TlbEntry
      /\ new.entry = 1 /\ new.of = "image" /\ new.first = KernelBase[arch[k]]
      /\ new.last = KernelBase[arch[k]] + ImageArea[arch[k]] - 1
      /\ tlb' = [tlb EXCEPT ![k] = {r \in @ : r.entry # 1} \cup {new}]
  BY <1>2, <1>n, <1>o DEF SetTlb, TlbEntry
<1> HIDE DEF new
<1>q. /\ tlb'[k] = {new}
      /\ \A j \in Kernel \ {k} : tlb'[j] = tlb[j]
  BY <1>1, <1>4, <1>p DEF TypeOK
<1>5. CASE Simulated
  <2>2. \A j \in Kernel : arch[j] = "GN"
    BY <1>5, <1>1, AllOrNone
  <2>3. TypeOK'
    BY <1>1, <1>2, <1>p, <2>2 DEF TypeOK, PoolStart
  <2>4. EntriesInv'
    <3> SUFFICES ASSUME NEW j \in Kernel, NEW r \in tlb'[j] PROVE IsImage(j, r)'
      BY <1>2, <2>2 DEF EntriesInv
    <3>1. CASE j = k
      <4>1. r = new
        BY <1>q, <3>1
      <4> QED BY <1>2, <1>p, <3>1, <4>1 DEF IsImage
    <3>2. CASE j # k
      <4>1. r \in tlb[j]
        BY <1>q, <3>2
      <4>2. IsImage(j, r)
        BY <1>1, <2>2, <4>1 DEF EntriesInv
      <4> QED BY <1>2, <4>2 DEF IsImage
    <3> QED BY <3>1, <3>2
  <2>9. RisingInv'
    BY <1>1, <1>p, <1>q DEF RisingInv
  <2>5. PoolInv'
    <3> SUFFICES ASSUME NEW j \in Kernel
                 PROVE  entry'[j] >= ENTRY_START /\ (j \in left'.images => tlb'[j] = {})
      BY <1>2, <2>2, Zenon DEF PoolInv
    <3>1. CASE j = k
      BY <1>3, <3>1
    <3>2. CASE j # k
      BY <1>1, <1>3, <1>q, <3>2 DEF PoolInv
    <3> QED BY <3>1, <3>2
  <2>6. ResolveInv'
    BY <2>2 , <1>2 DEF ResolveInv
  <2>7. WindowInv'
    BY <1>1, <1>2, <1>3, <2>2 DEF WindowInv, EventAddress
  <2>8. QED
    BY <1>g, <2>3, <2>4, <2>9, <2>5, <2>6, <2>7 DEF IInv
<1>6. CASE ~ Simulated
  <2>1. arch \in [Kernel -> Mapped]
    BY <1>1, <1>6, AllOrNone
  <2>2. SharedBase[arch[k]] \in Nat
    BY <2>1, LayoutAssumption
  <2>5. PoolStart(k) = SharedBase[arch[k]]
    BY <2>1 DEF PoolStart
  <2>6. TypeOK'
    BY <1>1, <1>2, <2>2, <1>p, <2>5 DEF TypeOK
  <2>8. EntriesInv'
    <3> SUFFICES ASSUME NEW j \in Kernel, NEW r \in tlb'[j]
                 PROVE  (IsImage(j, r) \/ IsWindow(j, r) \/ IsBuffer(j, r))'
      BY <1>2, <2>1 DEF EntriesInv
    <3>1. CASE j = k
      <4>1. r = new
        BY <1>q, <3>1
      <4>2. QED
        BY <1>2, <1>p, <3>1, <4>1 DEF IsImage
    <3>2. CASE j # k
      <4>1. r \in tlb[j] /\ arch[j] # "GN"
        BY <2>1, <1>q, <3>2
      <4>2. IsImage(j, r) \/ IsWindow(j, r) \/ IsBuffer(j, r)
        BY <1>1, <4>1 DEF EntriesInv
      <4>3. QED
        BY <1>2, <1>3, <3>2, <4>2 DEF IsImage, IsWindow, IsBuffer
    <3>3. QED
      BY <3>1, <3>2
  <2>9. RisingInv'
    BY <1>1, <1>p, <1>q DEF RisingInv
  <2>10. PoolInv'
    <3> SUFFICES ASSUME NEW j \in Kernel
                 PROVE  /\ entry'[j] >= ENTRY_START
                        /\ j \notin left'.images => pool'[j] >= SharedBase[arch[j]]
                        /\ j \in left'.images => tlb'[j] = {}
      BY <1>2, Zenon DEF PoolInv
    <3>1. CASE j = k
      BY <1>3, <2>2, <2>5, <3>1
    <3>2. CASE j # k
      BY <1>1, <1>3, <2>1, <1>q, <3>2 DEF PoolInv
    <3>3. QED
      BY <3>1, <3>2
  <2>11. ResolveInv'
    <3> SUFFICES ASSUME NEW j \in Kernel, NEW b \in Buffer, vbuffer[j][b] # Unset
                 PROVE  (\E r \in tlb[j] : IsBuffer(j, r) /\ r.of = b
                                           /\ r.first = vbuffer[j][b])'
      BY <1>2 DEF ResolveInv
    <3>0. PICK r \in tlb[j] : IsBuffer(j, r) /\ r.of = b /\ r.first = vbuffer[j][b]
      BY <1>1, <2>1 DEF ResolveInv
    <3>1. CASE j = k
      BY <1>4, <3>0, <3>1
    <3>2. CASE j # k
      BY <1>2, <1>3, <1>q, <3>0, <3>2 DEF IsBuffer
    <3>3. QED
      BY <3>1, <3>2
  <2>12. WindowInv'
    <3> SUFFICES ASSUME NEW j \in Kernel
                 PROVE  j \notin left.windows => \E r \in tlb'[j] : IsWindow(j, r)'
      BY <1>1, <1>2, <1>3 DEF WindowInv, EventWork, EventAddress
    <3>1. CASE j = k
      BY <1>1, <1>4, <2>1, <3>1 DEF WindowInv
    <3>2. CASE j # k
      BY <1>1, <1>2, <2>1, <1>q, <3>2 DEF WindowInv, IsWindow
    <3>3. QED
      BY <3>1, <3>2
  <2>13. QED
    BY <1>g, <2>6, <2>8, <2>9, <2>10, <2>11, <2>12 DEF IInv
<1>7. QED
  BY <1>5, <1>6
-----------------------------------------------------------------------------
\* Mapping a buffer of a kernel that is not simulated: one entry is added.
LEMMA SetBuffTlbInvariant ==
  ASSUME IInv, ~ Simulated,
         NEW k \in Kernel, NEW b \in Buffer, NEW side \in {"in", "out"},
         MapBuffer(k, b, side)
  PROVE  IInv'
<1>1. TypeOK /\ EntriesInv /\ RisingInv /\ PoolInv /\ ResolveInv /\ GivenInv /\ WindowInv
  BY DEF IInv
<1>2. /\ arch' = arch /\ size' = size /\ vevent' = vevent /\ left.images = {}
      /\ left' = [left EXCEPT !.buffers = @ \ {<<k, b, side>>}]
      /\ entry' = [entry EXCEPT ![k] = EntryAfter(@)]
      /\ pool' = [pool EXCEPT ![k] = Aligned(@ + size[b])]
      /\ vbuffer' = [vbuffer EXCEPT ![k][b] = pool[k]]
      /\ SetTlb(k, entry[k], pool[k], size[b], b)
  BY DEF MapBuffer, SetBuffTlb
<1>3. arch \in [Kernel -> Mapped]
  BY <1>1, AllOrNone
<1>4. /\ SharedBase[arch[k]] \in Nat /\ size[b] \in Nat \ {0}
      /\ entry[k] \in Nat /\ entry[k] >= 3
      /\ pool[k] \in Nat /\ pool[k] >= SharedBase[arch[k]]
  <2>1. SharedBase[arch[k]] \in Nat
    BY <1>3, LayoutAssumption
  <2>2. size[b] \in Nat \ {0} /\ entry[k] \in Nat
    BY <1>1, GraphAssumption DEF TypeOK
  <2>3. entry[k] >= 3
    BY <1>1 DEF PoolInv
  <2>4. pool[k] >= SharedBase[arch[k]]
    BY <1>1, <1>2, <1>3 DEF PoolInv
  <2>5. pool[k] \in Nat \cup {-1}
    BY <1>1 DEF TypeOK
  <2>6. QED
    BY <2>1, <2>2, <2>3, <2>4, <2>5
<1>5. pool[k] + size[b] \in Nat
  BY <1>4
<1>6. Aligned(pool[k] + size[b]) \in Nat /\ Aligned(pool[k] + size[b]) >= pool[k] + size[b]
  BY <1>5, AlignedGrows
<1>7. /\ left'.images = {} /\ left'.buffers = left.buffers \ {<<k, b, side>>}
      /\ left'.events = left.events /\ left'.windows = left.windows
      /\ entry'[k] = entry[k] + 1
      /\ pool'[k] \in Nat /\ pool'[k] >= pool[k] + size[b]
      /\ \A j \in Kernel \ {k} : entry'[j] = entry[j] /\ pool'[j] = pool[j]
  BY <1>1, <1>2, <1>6 DEF TypeOK, EntryAfter
<1>8. /\ vbuffer'[k][b] = pool[k]
      /\ \A j \in Kernel, c \in Buffer :
           j # k \/ c # b => vbuffer'[j][c] = vbuffer[j][c]
  BY <1>1, <1>2 DEF TypeOK
<1> DEFINE new == [entry |-> entry[k], first |-> pool[k],
                   last |-> pool[k] + size[b] - 1, of |-> b]
<1>9. /\ new \in TlbEntry
      /\ new.entry = entry[k] /\ new.of = b /\ new.first = pool[k]
      /\ new.last = pool[k] + size[b] - 1
      /\ tlb' = [tlb EXCEPT ![k] = {r \in @ : r.entry # entry[k]} \cup {new}]
  BY <1>2, <1>4 DEF SetTlb, TlbEntry
<1> HIDE DEF new
<1>10. \A r \in tlb[k] : r \in TlbEntry /\ r.entry < entry[k]
  <2> SUFFICES ASSUME NEW r \in tlb[k] PROVE r \in TlbEntry /\ r.entry < entry[k]
    OBVIOUS
  <2>1. r \in TlbEntry
    BY <1>1 DEF TypeOK
  <2>2. IsImage(k, r) \/ IsWindow(k, r) \/ IsBuffer(k, r)
    BY <1>1, <1>3 DEF EntriesInv
  <2>3. QED
    BY <1>4, <2>1, <2>2 DEF IsImage, IsWindow, IsBuffer
<1>11. /\ tlb'[k] = tlb[k] \cup {new}
       /\ \A j \in Kernel \ {k} : tlb'[j] = tlb[j]
  <2>1. {r \in tlb[k] : r.entry # entry[k]} = tlb[k]
    <3>1. \A r \in tlb[k] : r.entry \in Nat /\ r.entry < entry[k]
      BY <1>10 DEF TlbEntry
    <3>2. QED
      BY <1>4, <3>1
  <2>2. QED
    BY <1>1, <1>9, <2>1 DEF TypeOK
<1>12. TypeOK'
  <2>1. arch' \in [Kernel -> Mapped] \cup [Kernel -> {"GN"}] /\ size' \in [Buffer -> Sizes]
    BY <1>1, <1>2 DEF TypeOK
  <2>2. left' \in [images : SUBSET Kernel, buffers : SUBSET BufferWork,
                   events : SUBSET EventWork, windows : SUBSET Kernel]
    BY <1>1, <1>2 DEF TypeOK
  <2>3. pool' \in [Kernel -> Nat \cup {Unset}] /\ entry' \in [Kernel -> Nat]
    BY <1>1, <1>2, <1>4, <1>6 DEF TypeOK, EntryAfter
  <2>4. tlb' \in [Kernel -> SUBSET TlbEntry]
    BY <1>1, <1>9 DEF TypeOK
  <2>5. vbuffer' \in [Kernel -> [Buffer -> Nat \cup {Unset}]]
    BY <1>1, <1>2, <1>4 DEF TypeOK
  <2>6. vevent' \in [Kernel -> [Event -> Nat \cup {Unset}]]
    BY <1>1, <1>2 DEF TypeOK
  <2>7. BufferWork' = BufferWork
    BY DEF BufferWork
  <2>8. EventWork' = EventWork /\ TlbEntry' = TlbEntry
    BY DEF EventWork, TlbEntry
  <2>9. QED
    BY <2>1, <2>2, <2>3, <2>4, <2>5, <2>6, <2>7, <2>8 DEF TypeOK
<1>13. \A j \in Kernel : \A r \in tlb[j] : IsBuffer(j, r) => IsBuffer(j, r)'
  <2> SUFFICES ASSUME NEW j \in Kernel, NEW r \in tlb[j], IsBuffer(j, r)
               PROVE  IsBuffer(j, r)'
    OBVIOUS
  <2>1. r \in TlbEntry
    BY <1>1 DEF TypeOK
  <2>2. CASE j = k
    BY <1>2, <1>4, <1>7, <2>1, <2>2 DEF IsBuffer, TlbEntry
  <2>3. CASE j # k
    BY <1>2, <1>7, <2>3 DEF IsBuffer
  <2>4. QED
    BY <2>2, <2>3
<1>14. ASSUME NEW r, r = new PROVE IsBuffer(k, r)'
  BY <1>2, <1>4, <1>7, <1>9, <1>14 DEF IsBuffer
<1>15. EntriesInv'
  <2> SUFFICES ASSUME NEW j \in Kernel, NEW r \in tlb'[j]
               PROVE  (IsImage(j, r) \/ IsWindow(j, r) \/ IsBuffer(j, r))'
    BY <1>2, <1>3 DEF EntriesInv
  <2>1. CASE j = k /\ r = new
    BY <1>14, <2>1
  <2>2. CASE r \in tlb[j]
    <3>1. IsImage(j, r) \/ IsWindow(j, r) \/ IsBuffer(j, r)
      BY <1>1, <1>3, <2>2 DEF EntriesInv
    <3>2. QED
      BY <1>2, <1>13, <2>2, <3>1 DEF IsImage, IsWindow
  <2>3. QED
    BY <1>11, <2>1, <2>2
<1>16. RisingInv'
  <2> SUFFICES ASSUME NEW j \in Kernel, NEW r \in tlb'[j], NEW s \in tlb'[j]
               PROVE  /\ r.entry = s.entry => r = s
                      /\ 3 <= r.entry /\ r.entry < s.entry => r.last < s.first
    BY DEF RisingInv
  <2>1. CASE r \in tlb[j] /\ s \in tlb[j]
    BY <1>1, <2>1 DEF RisingInv
  <2>2. CASE j = k /\ r = new /\ s = new
    BY <1>4, <1>9, <2>2
  <2>3. CASE j = k /\ r = new /\ s \in tlb[k]
    <3>1. s.entry \in Nat /\ s.entry < entry[k]
      BY <1>10, <2>3 DEF TlbEntry
    <3>2. QED
      BY <1>4, <1>9, <2>3, <3>1
  <2>4. CASE j = k /\ r \in tlb[k] /\ s = new
    <3>1. r \in TlbEntry /\ r.entry < entry[k]
      BY <1>10, <2>4
    <3>2. IsImage(k, r) \/ IsWindow(k, r) \/ IsBuffer(k, r)
      BY <1>1, <1>3, <2>4 DEF EntriesInv
    <3>3. 3 <= r.entry => r.last < pool[k]
      BY <3>2 DEF IsImage, IsWindow, IsBuffer
    <3>4. r.entry # s.entry
      BY <1>4, <1>9, <2>4, <3>1 DEF TlbEntry
    <3>5. QED
      BY <1>9, <2>4, <3>3, <3>4
  <2>5. QED
    BY <1>11, <2>1, <2>2, <2>3, <2>4
<1>17. PoolInv'
  <2> SUFFICES ASSUME NEW j \in Kernel
               PROVE  /\ entry'[j] >= ENTRY_START
                      /\ pool'[j] >= SharedBase[arch[j]]
    BY <1>2, <1>7, Zenon DEF PoolInv
  <2>1. CASE j = k
    BY <1>4, <1>7, <2>1
  <2>2. CASE j # k
    BY <1>1, <1>2, <1>3, <1>7, <2>2 DEF PoolInv
  <2>3. QED
    BY <2>1, <2>2
<1>18. ResolveInv'
  <2> SUFFICES ASSUME NEW j \in Kernel, NEW c \in Buffer, vbuffer'[j][c] # Unset
               PROVE  \E r \in tlb'[j] : /\ IsBuffer(j, r)' /\ r.of = c
                                        /\ r.first = vbuffer'[j][c]
    BY DEF ResolveInv
  <2>1. CASE j = k /\ c = b
    <3>1. PICK r \in tlb'[k] : r = new
      BY <1>11
    <3>2. IsBuffer(k, r)'
      BY <1>14, <3>1
    <3>3. QED
      BY <1>8, <1>9, <2>1, <3>1, <3>2
  <2>2. CASE j # k \/ c # b
    <3>1. vbuffer'[j][c] = vbuffer[j][c]
      BY <1>8, <2>2
    <3>2. PICK r \in tlb[j] : IsBuffer(j, r) /\ r.of = c /\ r.first = vbuffer[j][c]
      BY <1>1, <1>3, <3>1 DEF ResolveInv
    <3>3. r \in tlb'[j]
      BY <1>11
    <3>4. QED
      BY <1>13, <3>1, <3>2, <3>3
  <2>3. QED
    BY <2>1, <2>2
<1>19. GivenInv'
  <2>1. BufferWork' = BufferWork
    BY DEF BufferWork
  <2> SUFFICES ASSUME NEW w \in BufferWork, w \notin left'.buffers
               PROVE  vbuffer'[w[1]][w[2]] # Unset
    BY <2>1 DEF GivenInv
  <2>2. w[1] \in Kernel /\ w[2] \in Buffer
    BY DEF BufferWork
  <2>3. CASE w[1] = k /\ w[2] = b
    BY <1>4, <1>8, <2>3
  <2>4. CASE w[1] # k \/ w[2] # b
    <3>1. w \notin left.buffers
      BY <1>7, <2>4
    <3>2. QED
      BY <1>1, <1>8, <2>2, <2>4, <3>1 DEF GivenInv
  <2>5. QED
    BY <2>3, <2>4
<1>20. WindowInv'
  <2>1. ASSUME NEW j \in Kernel, j \notin left'.windows
        PROVE  \E r \in tlb'[j] : IsWindow(j, r)'
    <3>1. PICK r \in tlb[j] : IsWindow(j, r)
      BY <1>1, <1>3, <1>7, <2>1 DEF WindowInv
    <3>2. QED
      BY <1>2, <1>11, <3>1 DEF IsWindow
  <2>2. EventWork' = EventWork
    BY DEF EventWork
  <2>3. ASSUME NEW j \in Kernel, NEW e \in Event
        PROVE  EventAddress(j, e)' = EventAddress(j, e)
    BY <1>2 DEF EventAddress
  <2>4. QED
    BY <1>1, <1>2, <1>7, <2>1, <2>2, <2>3 DEF WindowInv
<1>21. QED
  BY <1>12, <1>15, <1>16, <1>17, <1>18, <1>19, <1>20 DEF IInv
-----------------------------------------------------------------------------
\* Simulated kernels are given the buffer's own address; no entry is made.
LEMMA SetBuffTlbGNInvariant ==
  ASSUME IInv, Simulated,
         NEW k \in Kernel, NEW b \in Buffer, NEW side \in {"in", "out"},
         MapBuffer(k, b, side)
  PROVE  IInv'
<1>1. TypeOK /\ EntriesInv /\ RisingInv /\ PoolInv /\ GivenInv /\ WindowInv
  BY DEF IInv
<1>2. /\ arch' = arch /\ size' = size /\ vevent' = vevent
      /\ tlb' = tlb /\ entry' = entry /\ pool' = pool
      /\ left' = [left EXCEPT !.buffers = @ \ {<<k, b, side>>}]
      /\ vbuffer' = [vbuffer EXCEPT ![k][b] = BufferPhys[b]]
  BY DEF MapBuffer, SetBuffTlbGN
<1>3. /\ left'.images = left.images /\ left'.buffers = left.buffers \ {<<k, b, side>>}
      /\ left'.events = left.events /\ left'.windows = left.windows
  BY <1>1, <1>2 DEF TypeOK
<1>4. \A j \in Kernel : arch[j] = "GN"
  BY <1>1, AllOrNone
<1>5. BufferPhys[b] \in Nat
  BY GraphAssumption
<1>6. TypeOK'
  <2>1. BufferWork' = BufferWork /\ EventWork' = EventWork /\ TlbEntry' = TlbEntry
    BY DEF BufferWork, EventWork, TlbEntry
  <2>2. vbuffer' \in [Kernel -> [Buffer -> Nat \cup {Unset}]]
    BY <1>1, <1>2, <1>5 DEF TypeOK
  <2>3. left' \in [images : SUBSET Kernel, buffers : SUBSET BufferWork,
                   events : SUBSET EventWork, windows : SUBSET Kernel]
    BY <1>1, <1>2 DEF TypeOK
  <2>4. QED
    BY <1>1, <1>2, <2>1, <2>2, <2>3 DEF TypeOK
<1>7. EntriesInv' /\ RisingInv'
  BY <1>1, <1>2, <1>4 DEF EntriesInv, RisingInv, IsImage
<1>8. PoolInv'
  BY <1>1, <1>2, <1>3, <1>4 DEF PoolInv
<1>9. ResolveInv'
  BY <1>2, <1>4 DEF ResolveInv
<1>10. GivenInv'
  <2>1. BufferWork' = BufferWork
    BY DEF BufferWork
  <2> SUFFICES ASSUME NEW w \in BufferWork, w \notin left'.buffers
               PROVE  vbuffer'[w[1]][w[2]] # Unset
    BY <2>1 DEF GivenInv
  <2>2. w[1] \in Kernel /\ w[2] \in Buffer
    BY DEF BufferWork
  <2>3. CASE w[1] = k /\ w[2] = b
    BY <1>1, <1>2, <1>5, <2>3 DEF TypeOK
  <2>4. CASE w[1] # k \/ w[2] # b
    <3>1. w \notin left.buffers
      BY <1>3, <2>4
    <3>2. vbuffer'[w[1]][w[2]] = vbuffer[w[1]][w[2]]
      BY <1>1, <1>2, <2>2, <2>4 DEF TypeOK
    <3>3. QED
      BY <1>1, <3>1, <3>2 DEF GivenInv
  <2>5. QED
    BY <2>3, <2>4
<1>11. WindowInv'
  <2>1. EventWork' = EventWork
    BY DEF EventWork
  <2>2. ASSUME NEW j \in Kernel, NEW e \in Event
        PROVE  EventAddress(j, e)' = EventAddress(j, e)
    BY <1>2 DEF EventAddress
  <2>3. QED
    BY <1>1, <1>2, <1>3, <1>4, <2>1, <2>2 DEF WindowInv
<1>12. QED
  BY <1>6, <1>7, <1>8, <1>9, <1>10, <1>11 DEF IInv
-----------------------------------------------------------------------------
\* Giving a kernel the address of an event.
LEMMA MapEventInvariant ==
  ASSUME IInv, NEW k \in Kernel, NEW e \in Event, MapEvent(k, e)
  PROVE  IInv'
<1>1. TypeOK /\ EntriesInv /\ RisingInv /\ PoolInv /\ ResolveInv /\ GivenInv /\ WindowInv
  BY DEF IInv
<1>2. /\ arch' = arch /\ size' = size /\ vbuffer' = vbuffer
      /\ tlb' = tlb /\ entry' = entry /\ pool' = pool
      /\ left' = [left EXCEPT !.events = @ \ {<<k, e>>}]
      /\ vevent' = [vevent EXCEPT ![k][e] = EventAddress(k, e)]
  BY DEF MapEvent
<1>3. /\ left'.images = left.images /\ left'.buffers = left.buffers
      /\ left'.events = left.events \ {<<k, e>>} /\ left'.windows = left.windows
  BY <1>1, <1>2 DEF TypeOK
<1>4. EventAddress(k, e) \in Nat
  <2>1. EventPhys[e] \in Nat
    BY GraphAssumption, LayoutAssumption
  <2>2. arch[k] # "GN" => SynchBase[arch[k]] \in Nat
    BY <1>1, AllOrNone, LayoutAssumption DEF TypeOK
  <2>3. QED
    BY <2>1, <2>2 DEF EventAddress
<1>5. TypeOK'
  <2>1. BufferWork' = BufferWork /\ EventWork' = EventWork /\ TlbEntry' = TlbEntry
    BY DEF BufferWork, EventWork, TlbEntry
  <2>2. vevent' \in [Kernel -> [Event -> Nat \cup {Unset}]]
    BY <1>1, <1>2, <1>4 DEF TypeOK
  <2>3. left' \in [images : SUBSET Kernel, buffers : SUBSET BufferWork,
                   events : SUBSET EventWork, windows : SUBSET Kernel]
    BY <1>1, <1>2 DEF TypeOK
  <2>4. QED
    BY <1>1, <1>2, <2>1, <2>2, <2>3 DEF TypeOK
<1>6. EntriesInv' /\ RisingInv'
  BY <1>1, <1>2 DEF EntriesInv, RisingInv, IsImage, IsWindow, IsBuffer
<1>7. PoolInv'
  BY <1>1, <1>2, <1>3 DEF PoolInv
<1>8. ResolveInv'
  BY <1>1, <1>2 DEF ResolveInv, IsBuffer
<1>9. GivenInv'
  <2>1. BufferWork' = BufferWork
    BY DEF BufferWork
  <2>2. QED
    BY <1>1, <1>2, <1>3, <2>1 DEF GivenInv
<1>10. WindowInv'
  <2> SUFFICES ASSUME NEW j \in Kernel
               PROVE  (/\ arch[j] \in Mapped /\ j \notin left.windows =>
                            \E r \in tlb[j] : IsWindow(j, r)
                       /\ \A d \in Event : <<j, d>> \in EventWork \ left.events =>
                            vevent[j][d] = EventAddress(j, d))'
    BY Zenon DEF WindowInv
  <2>1. (arch[j] \in Mapped /\ j \notin left.windows =>
            \E r \in tlb[j] : IsWindow(j, r))'
    BY <1>1, <1>2, <1>3 DEF WindowInv, IsWindow
  <2>2. ASSUME NEW d \in Event, <<j, d>> \in EventWork, <<j, d>> \notin left'.events
        PROVE  vevent'[j][d] = EventAddress(j, d)
    <3>1. CASE j = k /\ d = e
      BY <1>1, <1>2, <3>1 DEF TypeOK
    <3>2. CASE j # k \/ d # e
      <4>1. <<j, d>> \notin left.events
        BY <1>3, <2>2, <3>2
      <4>2. vevent'[j][d] = vevent[j][d]
        BY <1>1, <1>2, <3>2 DEF TypeOK
      <4>3. QED
        BY <1>1, <2>2, <4>1, <4>2 DEF WindowInv
    <3>3. QED
      BY <3>1, <3>2
  <2>3. EventWork' = EventWork
    BY DEF EventWork
  <2>4. \A d \in Event : EventAddress(j, d)' = EventAddress(j, d)
    BY <1>2 DEF EventAddress
  <2>5. QED
    BY <2>1, <2>2, <2>3, <2>4
<1>11. QED
  BY <1>5, <1>6, <1>7, <1>8, <1>9, <1>10 DEF IInv
-----------------------------------------------------------------------------
\* Mapping the registers of a kernel's unit: entry 2 is set, the others stay.
LEMMA MapWindowInvariant ==
  ASSUME IInv, NEW k \in Kernel, MapWindow(k)
  PROVE  IInv'
<1>1. TypeOK /\ EntriesInv /\ RisingInv /\ PoolInv /\ ResolveInv /\ GivenInv /\ WindowInv
  BY DEF IInv
<1>2. /\ arch' = arch /\ size' = size /\ vbuffer' = vbuffer /\ vevent' = vevent
      /\ entry' = entry /\ pool' = pool /\ left.images = {}
      /\ left' = [left EXCEPT !.windows = @ \ {k}]
  BY DEF MapWindow
<1>3. /\ left'.images = left.images /\ left'.buffers = left.buffers
      /\ left'.events = left.events /\ left'.windows = left.windows \ {k}
  BY <1>1, <1>2 DEF TypeOK
<1>4. BufferWork' = BufferWork /\ EventWork' = EventWork /\ TlbEntry' = TlbEntry
  BY DEF BufferWork, EventWork, TlbEntry
<1>5. \A j \in Kernel, e \in Event : EventAddress(j, e)' = EventAddress(j, e)
  BY <1>2 DEF EventAddress
<1>6. left' \in [images : SUBSET Kernel, buffers : SUBSET BufferWork,
                 events : SUBSET EventWork, windows : SUBSET Kernel]
  BY <1>1, <1>2 DEF TypeOK
<1>7. GivenInv'
  BY <1>1, <1>2, <1>3, <1>4 DEF GivenInv
<1>8. CASE arch[k] = "GN"
  <2>1. tlb' = tlb
    BY <1>8 DEF MapWindow
  <2>2. \A j \in Kernel : arch[j] = "GN"
    BY <1>1, <1>8 DEF TypeOK
  <2>3. TypeOK'
    BY <1>1, <1>2, <1>4, <1>6, <2>1 DEF TypeOK
  <2>4. EntriesInv' /\ RisingInv'
    BY <1>1, <1>2, <2>1, <2>2 DEF EntriesInv, RisingInv, IsImage
  <2>5. PoolInv'
    BY <1>1, <1>2, <1>3, <2>1 DEF PoolInv
  <2>6. ResolveInv'
    BY <1>2, <2>2 DEF ResolveInv
  <2>7. WindowInv'
    BY <1>1, <1>2, <1>3, <1>4, <1>5, <2>2 DEF WindowInv
  <2>8. QED
    BY <1>7, <2>3, <2>4, <2>5, <2>6, <2>7 DEF IInv
<1>9. CASE arch[k] # "GN"
  <2>1. arch \in [Kernel -> Mapped]
    BY <1>1, <1>9 DEF TypeOK
  <2>2. SynchBase[arch[k]] \in Nat /\ SynchSize \in Nat \ {0}
    BY <2>1, LayoutAssumption
  <2> DEFINE new == [entry |-> 2, first |-> SynchBase[arch[k]],
                     last |-> SynchBase[arch[k]] + SynchSize - 1,
                     of |-> "events"]
  <2>3. SetTlb(k, ENTRY_EVENTS, SynchBase[arch[k]], SynchSize, "events")
    BY <1>9 DEF MapWindow
  <2>4. /\ new \in TlbEntry
        /\ new.entry = 2 /\ new.of = "events" /\ new.first = SynchBase[arch[k]]
        /\ new.last = SynchBase[arch[k]] + SynchSize - 1
        /\ tlb' = [tlb EXCEPT ![k] = {r \in @ : r.entry # 2} \cup {new}]
    BY <2>2, <2>3 DEF SetTlb, TlbEntry
  <2> HIDE DEF new
  <2>5. /\ tlb'[k] = {r \in tlb[k] : r.entry # 2} \cup {new}
        /\ \A j \in Kernel \ {k} : tlb'[j] = tlb[j]
    BY <1>1, <2>4 DEF TypeOK
  <2>6. TypeOK'
    <3>1. tlb' \in [Kernel -> SUBSET TlbEntry]
      BY <1>1, <2>4 DEF TypeOK
    <3>2. QED
      BY <1>1, <1>2, <1>4, <1>6, <3>1 DEF TypeOK
  <2>7. ASSUME NEW r, r = new PROVE IsWindow(k, r)'
    BY <1>2, <2>4, <2>7 DEF IsWindow
  <2>8. \A j \in Kernel : \A r \in tlb[j] :
          /\ IsImage(j, r) => IsImage(j, r)'
          /\ IsWindow(j, r) => IsWindow(j, r)'
          /\ IsBuffer(j, r) => IsBuffer(j, r)'
    BY <1>2 DEF IsImage, IsWindow, IsBuffer
  <2>9. EntriesInv'
    <3> SUFFICES ASSUME NEW j \in Kernel, NEW r \in tlb'[j]
                 PROVE  (IsImage(j, r) \/ IsWindow(j, r) \/ IsBuffer(j, r))'
      BY <1>2, <2>1 DEF EntriesInv
    <3>1. CASE j = k /\ r = new
      BY <2>7, <3>1
    <3>2. CASE r \in tlb[j]
      <4>1. IsImage(j, r) \/ IsWindow(j, r) \/ IsBuffer(j, r)
        BY <1>1, <2>1, <3>2 DEF EntriesInv
      <4>2. QED
        BY <2>8, <3>2, <4>1
    <3>3. QED
      BY <2>5, <3>1, <3>2
  <2>10. RisingInv'
    <3> SUFFICES ASSUME NEW j \in Kernel, NEW r \in tlb'[j], NEW s \in tlb'[j]
                 PROVE  /\ r.entry = s.entry => r = s
                        /\ 3 <= r.entry /\ r.entry < s.entry => r.last < s.first
      BY DEF RisingInv
    <3>1. CASE r \in tlb[j] /\ s \in tlb[j]
      BY <1>1, <3>1 DEF RisingInv
    <3>2. CASE j = k /\ r = new
      BY <2>4, <2>5, <3>2
    <3>3. CASE j = k /\ r \in tlb[k] /\ r.entry # 2 /\ s = new
      <4>1. r.entry \in Nat
        BY <1>1, <3>3 DEF TypeOK, TlbEntry
      <4>2. QED
        BY <2>4, <3>3, <4>1
    <3>4. QED
      BY <2>5, <3>1, <3>2, <3>3
  <2>11. PoolInv'
    <3> SUFFICES ASSUME NEW j \in Kernel
                 PROVE  /\ entry'[j] >= ENTRY_START
                        /\ pool'[j] >= SharedBase[arch[j]]
      BY <1>2, <1>3, Zenon DEF PoolInv
    <3>1. QED
      BY <1>1, <1>2, <2>1 DEF PoolInv
  <2>12. ResolveInv'
    <3> SUFFICES ASSUME NEW j \in Kernel, NEW b \in Buffer, vbuffer[j][b] # Unset
                 PROVE  \E r \in tlb'[j] : /\ IsBuffer(j, r)' /\ r.of = b
                                          /\ r.first = vbuffer[j][b]
      BY <1>2 DEF ResolveInv
    <3>1. PICK r \in tlb[j] : IsBuffer(j, r) /\ r.of = b /\ r.first = vbuffer[j][b]
      BY <1>1, <2>1 DEF ResolveInv
    <3>2. r.entry # 2
      <4>1. r.entry \in Nat
        BY <1>1 DEF TypeOK, TlbEntry
      <4>2. QED
        BY <3>1, <4>1 DEF IsBuffer
    <3>3. r \in tlb'[j]
      BY <2>5, <3>2
    <3>4. QED
      BY <2>8, <3>1, <3>3
  <2>13. WindowInv'
    <3>1. ASSUME NEW j \in Kernel, j \notin left'.windows
          PROVE  \E r \in tlb'[j] : IsWindow(j, r)'
      <4>1. CASE j = k
        BY <2>5, <2>7, <4>1
      <4>2. CASE j # k
        <5>1. PICK r \in tlb[j] : IsWindow(j, r)
          BY <1>1, <1>3, <2>1, <3>1, <4>2 DEF WindowInv
        <5>2. QED
          BY <2>5, <2>8, <4>2, <5>1
      <4>3. QED
        BY <4>1, <4>2
    <3>2. QED
      BY <1>1, <1>2, <1>3, <1>4, <1>5, <3>1 DEF WindowInv
  <2>14. QED
    BY <1>7, <2>6, <2>9, <2>10, <2>11, <2>12, <2>13 DEF IInv
<1>10. QED
  BY <1>8, <1>9
-----------------------------------------------------------------------------
\* A step that changes nothing.
LEMMA StutterInvariant ==
  ASSUME IInv, UNCHANGED vars
  PROVE  IInv'
BY DEF vars, IInv, TypeOK, TlbEntry, BufferWork, EventWork, EntriesInv, RisingInv,
       PoolInv, ResolveInv, GivenInv, WindowInv, IsImage, IsWindow, IsBuffer,
       EventAddress

\* Every step preserves the invariant.
LEMMA NextInvariant == IInv /\ [Next]_vars => IInv'
<1> SUFFICES ASSUME IInv, [Next]_vars PROVE IInv'
  OBVIOUS
<1>1. ASSUME NEW k \in Kernel, MapImage(k) PROVE IInv'
  BY <1>1, MapImageInvariant
<1>2. ASSUME NEW k \in Kernel, NEW b \in Buffer, NEW side \in {"in", "out"},
             MapBuffer(k, b, side)
      PROVE  IInv'
  <2>1. CASE Simulated
    BY <1>2, <2>1, SetBuffTlbGNInvariant
  <2>2. CASE ~ Simulated
    BY <1>2, <2>2, SetBuffTlbInvariant
  <2>3. QED
    BY <2>1, <2>2
<1>3. ASSUME NEW k \in Kernel, NEW e \in Event, MapEvent(k, e) PROVE IInv'
  BY <1>3, MapEventInvariant
<1>4. ASSUME NEW k \in Kernel, MapWindow(k) PROVE IInv'
  BY <1>4, MapWindowInvariant
<1>5. CASE UNCHANGED vars \/ Done
  BY <1>5, StutterInvariant DEF Done
<1>6. QED
  BY <1>1, <1>2, <1>3, <1>4, <1>5 DEF Next, KernelStep

\* The inductive invariant holds throughout resource allocation.
THEOREM Invariant == Spec => []IInv
BY InitInvariant, NextInvariant, PTL DEF Spec

\* The state of resource_allocation's memory manager is well typed: addresses
\* are natural numbers, whatever the sizes and the layout.
THEOREM TypeCorrect == Spec => []TypeOK
<1>1. IInv => TypeOK
  BY DEF IInv
<1>2. QED
  BY <1>1, Invariant, PTL

\* As long as the buffers of a kernel fit into their region, the hardware TLB
\* set up by mm.cpp never maps an address of the kernel's unit twice.
THEOREM TlbIsDisjoint == Spec => []TlbDisjoint
<1>1. ASSUME IInv PROVE TlbDisjoint
  <2>1. TypeOK /\ EntriesInv /\ RisingInv
    BY <1>1 DEF IInv
  <2> SUFFICES ASSUME NEW k \in Kernel, Fits(k), NEW r \in tlb[k], NEW s \in tlb[k],
                      r # s, r.entry <= s.entry
               PROVE  r.last < s.first \/ s.last < r.first
    <3>1. \A r \in UNION {tlb[k] : k \in Kernel} : r.entry \in Nat
      BY <2>1 DEF TypeOK, TlbEntry
    <3>2. QED
      BY <3>1 DEF TlbDisjoint
  <2>2. arch[k] \in Mapped /\ pool[k] <= SharedEnd[arch[k]]
    BY DEF Fits
  <2>3. /\ r.entry \in Nat /\ r.first \in Nat /\ r.last \in Int
        /\ s.entry \in Nat /\ s.first \in Nat /\ s.last \in Int
        /\ pool[k] \in Nat \cup {-1}
    BY <2>1 DEF TypeOK, TlbEntry
  <2>4. r.entry < s.entry
    BY <2>1, <2>3 DEF RisingInv
  <2>5. IsImage(k, r) \/ IsWindow(k, r) \/ IsBuffer(k, r)
    BY <2>1, <2>2 DEF EntriesInv
  <2>6. IsImage(k, s) \/ IsWindow(k, s) \/ IsBuffer(k, s)
    BY <2>1, <2>2 DEF EntriesInv
  <2>7. /\ KernelBase[arch[k]] \in Nat /\ ImageArea[arch[k]] \in Nat
        /\ SynchBase[arch[k]] \in Nat /\ SynchSize \in Nat
        /\ SharedBase[arch[k]] \in Nat /\ SharedEnd[arch[k]] \in Nat
    BY <2>2, LayoutAssumption
  <2>8. RegionsApart(arch[k])
    BY <2>2, LayoutAssumption
  <2>9. CASE IsBuffer(k, r)
    BY <2>1, <2>4, <2>9 DEF RisingInv, IsBuffer
  <2>10. CASE IsImage(k, r) /\ IsWindow(k, s)
    BY <2>7, <2>8, <2>10 DEF RegionsApart, IsImage, IsWindow
  <2>11. CASE IsImage(k, r) /\ IsBuffer(k, s)
    BY <2>2, <2>3, <2>7, <2>8, <2>11 DEF RegionsApart, IsImage, IsBuffer
  <2>12. CASE IsWindow(k, r) /\ IsBuffer(k, s)
    BY <2>2, <2>3, <2>7, <2>8, <2>12 DEF RegionsApart, IsWindow, IsBuffer
  <2>13. QED
    BY <2>3, <2>4, <2>5, <2>6, <2>9, <2>10, <2>11, <2>12 DEF IsImage, IsWindow
<1>2. QED
  BY <1>1, Invariant, PTL

\* The address passed to a kernel for a buffer is translated to that buffer
\* by the hardware TLB, and no kernel lacks the address of a buffer it uses
\* when set_vaddr_buffers has run.
THEOREM BuffersAreResolved == Spec => []BuffersResolve
<1>1. ASSUME IInv PROVE BuffersResolve
  <2>1. ResolveInv /\ GivenInv
    BY <1>1 DEF IInv
  <2> SUFFICES ASSUME NEW k \in Kernel, NEW b \in Buffer
               PROVE  /\ vbuffer[k][b] # Unset /\ arch[k] \in Mapped =>
                           \E r \in tlb[k] : /\ r.of = b
                                             /\ r.first = vbuffer[k][b]
                                             /\ r.last = vbuffer[k][b] + size[b] - 1
                      /\ left.buffers = {} /\ k \in KernelsIn[b] \cup KernelsOut[b] =>
                           vbuffer[k][b] # Unset
    BY Zenon DEF BuffersResolve
  <2>2. vbuffer[k][b] # Unset /\ arch[k] \in Mapped =>
          \E r \in tlb[k] : /\ r.of = b
                            /\ r.first = vbuffer[k][b]
                            /\ r.last = vbuffer[k][b] + size[b] - 1
    BY <2>1 DEF ResolveInv, IsBuffer
  <2>3. ASSUME left.buffers = {}, k \in KernelsIn[b] \cup KernelsOut[b]
        PROVE  vbuffer[k][b] # Unset
    <3>1. <<k, b, "in">> \in BufferWork \/ <<k, b, "out">> \in BufferWork
      BY <2>3 DEF BufferWork
    <3>2. \A w \in BufferWork : vbuffer[w[1]][w[2]] # Unset
      BY <2>1, <2>3 DEF GivenInv
    <3>3. QED
      BY <3>1, <3>2
  <2>4. QED
    BY <2>2, <2>3
<1>2. QED
  BY <1>1, Invariant, PTL

\* When the allocation has ended, the address a kernel is given for an event
\* is translated to that event's register.
THEOREM EventsAreResolved == Spec => []EventsResolve
<1>1. ASSUME IInv PROVE EventsResolve
  <2>1. TypeOK /\ WindowInv
    BY <1>1 DEF IInv
  <2> SUFFICES ASSUME Allocated, NEW e \in Event, NEW k \in EventKernels[e],
                      arch[k] \in Mapped
               PROVE  \E r \in tlb[k] : /\ r.of = "events"
                                        /\ vevent[k][e] \in r.first .. r.last
                                        /\ vevent[k][e] - r.first = EventPhys[e]
    BY DEF EventsResolve
  <2>2. k \in Kernel
    BY GraphAssumption
  <2>3. PICK r \in tlb[k] : IsWindow(k, r)
    BY <2>1, <2>2 DEF WindowInv, Allocated
  <2>4. vevent[k][e] = EventAddress(k, e)
    BY <2>1, <2>2 DEF WindowInv, Allocated, EventWork
  <2>5. EventAddress(k, e) = SynchBase[arch[k]] + EventPhys[e]
    BY DEF EventAddress
  <2>6. /\ EventPhys[e] \in 0 .. SynchSize - 1 /\ SynchSize \in Nat
        /\ SynchBase[arch[k]] \in Nat
    BY LayoutAssumption, GraphAssumption
  <2>7. QED
    BY <2>3, <2>4, <2>5, <2>6 DEF IsWindow
<1>2. QED
  BY <1>1, Invariant, PTL
=============================================================================
