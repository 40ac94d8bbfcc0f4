----------------------------- MODULE AddrSpace -----------------------------
(***************************************************************************)
(* The kernel's address space: init_memmap (memmap.cpp), the page tables   *)
(* of addrspace_t (addrspace.cpp) from VMM::init on, and the pages the     *)
(* heap adds (create_new_pages).  Addresses are page and frame numbers; an *)
(* entry of a table is the number it points to.  What the frame allocator  *)
(* computes of the memory map is FrameAlloc's.                             *)
(***************************************************************************)
EXTENDS Integers, Sequences, FiniteSets

CONSTANTS
  Entries,     \* Limine's memory map: [type, base, len], in frames
  KernelPhys,  \* kernel_physical_addr_base
  KernelVirt,  \* kernel_virtual_addr_base
  Fan,         \* entries of a table, 512
  FrameBytes,  \* bytes of bitmap in a frame
  HighFrame,   \* the frame of address 0x100000
  PagesAsked,  \* the num_pages of create_new_pages
  Absent,      \* an entry that is not present
  Limine       \* the tables of the bootloader

NumPages == Fan * Fan * Fan * Fan
Pages == 0 .. NumPages - 1
hhdm_offset == NumPages \div 2

\* The sum of a sequence's lengths.
Total[i \in 0 .. Len(Entries)] == IF i = 0 THEN 0 ELSE Total[i - 1] + Entries[i].len

(***************************************************************************)
(* init_memmap.                                                            *)
(***************************************************************************)
OfType(type) == {i \in DOMAIN Entries : Entries[i].type = type}

usable_memory_regions == SelectSeq(Entries, LAMBDA e : e.type = "USABLE")

\* A region there is one variable for: the last entry of its type.
Region(type) ==
  IF OfType(type) = {} THEN [type |-> type, base |-> 0, len |-> 0]
  ELSE Entries[CHOOSE i \in OfType(type) : \A j \in OfType(type) : j <= i]

kernel_region == Region("KERNEL_AND_MODULES")
bootloader_reclaimable_region == Region("BOOTLOADER_RECLAIMABLE")
framebuffer_region == Region("FRAMEBUFFER")

Types == {"USABLE", "KERNEL_AND_MODULES", "BOOTLOADER_RECLAIMABLE", "FRAMEBUFFER", "RESERVED"}

\* Limine's map is sorted and has no overlaps; types the kernel does not ask for count
\* as reserved.  There is one frame buffer.  The module lies below the kernel, as
\* the bootloader fills the memory from the top: the last entry is the kernel's.
ASSUME MemmapAssumption ==
  /\ Entries \in Seq([type : Types, base : Nat, len : Nat])
  /\ \A i, j \in DOMAIN Entries : i < j => Entries[i].base + Entries[i].len <= Entries[j].base
  /\ \A i, j \in OfType("FRAMEBUFFER") : i = j
  /\ KernelPhys \in kernel_region.base .. kernel_region.base + kernel_region.len - 1
  /\ Len(usable_memory_regions) \in 1 .. 7

VARIABLES
  used,    \* the PMM's bitmap
  dir,     \* the tables: frame -> index -> entry
  pml4,
  next,    \* the next of bootstrap's calls of map_page
  cr3,     \* the tables in force: the bootloader's, or a frame
  heap,    \* the frames create_new_pages has taken
  halted

vars == <<used, dir, pml4, next, cr3, heap, halted>>

PMM == INSTANCE FrameAlloc WITH
         Regions <- usable_memory_regions, NumFrames <- Total[Len(Entries)],
         StrayBits <- 0, Sizes <- PagesAsked, live <- {}, oom <- FALSE

Frames(region) == region.base .. region.base + region.len - 1

Init ==
  /\ used = (PMM!Bits \ PMM!Usable) \cup PMM!BitmapFrames
  /\ dir = <<>>
  /\ pml4 = Absent
  /\ next = 0
  /\ cr3 = Limine
  /\ heap = {}
  /\ halted = FALSE

(***************************************************************************)
(* map_page.                                                               *)
(***************************************************************************)
\* Mutant of Offset: the directory's index is taken from the bits of the table's.
ShiftedOffset(virt, level) ==
  CASE level = 3 -> virt \div (Fan * Fan * Fan)
    [] level = 2 -> (virt \div (Fan * Fan)) % Fan
    [] OTHER -> virt % Fan

Offset(virt, level) ==
  CASE level = 3 -> virt \div (Fan * Fan * Fan)
    [] level = 2 -> (virt \div (Fan * Fan)) % Fan
    [] level = 1 -> (virt \div Fan) % Fan
    [] level = 0 -> virt % Fan

NoEntries == [i \in 0 .. Fan - 1 |-> Absent]

FirstFree(bits) ==
  CHOOSE f \in PMM!Bits \ bits : \A g \in PMM!Bits \ bits : f <= g

\* One level down from the table of walk: through the entry, or a new table.
Descend(walk, index) ==
  LET entry == walk.dir[walk.table][index]
      new == FirstFree(walk.used)
  IN  IF walk.oom \/ entry # Absent
      THEN [walk EXCEPT !.table = IF walk.oom THEN walk.table ELSE entry]
      ELSE IF PMM!Bits \subseteq walk.used
           THEN [walk EXCEPT !.oom = TRUE]
           ELSE [table |-> new, oom |-> FALSE, used |-> walk.used \cup {new},
                 dir |-> [t \in DOMAIN walk.dir \cup {new} |->
                            IF t = new THEN NoEntries
                            ELSE [walk.dir EXCEPT ![walk.table][index] = new][t]]]

\* map_page(virt, phys) with the bits taken so far; find_free_frame's panic ends it.
map_page(virt, phys, bits) ==
  LET start == [table |-> pml4, oom |-> FALSE, used |-> bits, dir |-> dir]
      walk == Descend(Descend(Descend(start, Offset(virt, 3)), Offset(virt, 2)),
                      Offset(virt, 1))
  IN  IF walk.oom
      THEN halted' = TRUE /\ used' = walk.used /\ dir' = walk.dir
      ELSE /\ dir' = [walk.dir EXCEPT ![walk.table][Offset(virt, 0)] = phys]
           /\ used' = walk.used
           /\ UNCHANGED halted

(***************************************************************************)
(* bootstrap and activate.                                                 *)
(***************************************************************************)
RegionEnd(region) == region.base + region.len

\* Mutant of last_usable_address: the kernel and the bootloader's memory are left out.
last_usable_region_address ==
  LET ends == {RegionEnd(Entries[i]) : i \in OfType("USABLE")}
  IN  CHOOSE a \in ends : \A b \in ends : a >= b

last_usable_address ==
  LET ends == {RegionEnd(Entries[i]) : i \in OfType("USABLE")}
                \cup {RegionEnd(kernel_region), RegionEnd(bootloader_reclaimable_region)}
  IN  CHOOSE a \in ends : \A b \in ends : a >= b

\* map_accessible_space, map_kernel_region and map_region: pairs of page and frame.
map_accessible_space ==
  [i \in 1 .. last_usable_address + 1 |-> <<hhdm_offset + i - 1, i - 1>>]

region_start_virt == KernelVirt + kernel_region.base - KernelPhys
region_end_virt == KernelVirt + RegionEnd(kernel_region) - KernelPhys

map_kernel_region ==
  LET r == kernel_region
  IN  [i \in 1 .. r.len |-> <<KernelVirt + r.base + i - 1 - KernelPhys, r.base + i - 1>>]

map_region(base, len) ==
  [i \in 1 .. len |-> <<(base + i - 1 + hhdm_offset) % NumPages, base + i - 1>>]

\* The bitmap's location is a virtual address already: offset once more it is a low one,
\* and what it is mapped to is no frame.
bitmap_location == PMM!BitmapBase + hhdm_offset
num_frames_used == (PMM!BitmapSize + FrameBytes - 1) \div FrameBytes

Bootstrap ==
  map_accessible_space \o map_kernel_region
    \o map_region(framebuffer_region.base, framebuffer_region.len)
    \o map_region(bitmap_location, num_frames_used)

\* Where the map and the addresses are.  The kernel is linked to the top of the addresses,
\* above all of the memory as it is seen from hhdm_offset; that is in the middle.
ASSUME AddressAssumption ==
  /\ Fan \in Nat \ {0} /\ Fan % 2 = 0
  /\ {Absent, Limine} \cap Int = {} /\ Absent # Limine
  /\ {KernelPhys, KernelVirt, num_frames_used} \subseteq Nat
  /\ PMM!Bits \subseteq 0 .. hhdm_offset - 1
  /\ PMM!BitmapBase \in 0 .. hhdm_offset - num_frames_used
  /\ {last_usable_address, RegionEnd(framebuffer_region)} \subseteq
       0 .. region_start_virt - hhdm_offset - 1
  /\ region_end_virt <= NumPages

NewPml4 ==
  /\ next = 0
  /\ ~halted
  /\ IF PMM!Bits \subseteq used
     THEN halted' = TRUE /\ UNCHANGED <<used, dir, pml4, next>>
     ELSE /\ pml4' = FirstFree(used)
          /\ used' = used \cup {pml4'}
          /\ dir' = [t \in {pml4'} |-> NoEntries]
          /\ next' = 1
          /\ UNCHANGED halted
  /\ UNCHANGED <<cr3, heap>>

MapNext ==
  /\ next \in 1 .. Len(Bootstrap)
  /\ ~halted
  /\ map_page(Bootstrap[next][1], Bootstrap[next][2], used)
  /\ next' = next + 1
  /\ UNCHANGED <<pml4, cr3, heap>>

activate ==
  /\ next = Len(Bootstrap) + 1 /\ cr3 = Limine
  /\ ~halted
  /\ cr3' = pml4
  /\ UNCHANGED <<used, dir, pml4, next, heap, halted>>

(***************************************************************************)
(* create_new_pages, as far as the tables are concerned: the first page is *)
(* mapped, with physical and virtual address in swapped positions.         *)
(***************************************************************************)
create_new_pages(num_pages) ==
  /\ cr3 = pml4
  /\ ~halted
  /\ \E f \in PMM!Bits :    \* which of the free runs is up to FrameAlloc
       /\ PMM!Run(f, num_pages) \subseteq PMM!Bits \ used
       /\ map_page(f, hhdm_offset + f, used \cup PMM!Run(f, num_pages))
       /\ heap' = heap \cup PMM!Run(f, num_pages)
  /\ UNCHANGED <<pml4, next, cr3>>

Next ==
  \/ NewPml4 \/ MapNext \/ activate
  \/ \E num_pages \in PagesAsked : create_new_pages(num_pages)

Spec == Init /\ [][Next]_vars

(***************************************************************************)
(* Properties.                                                             *)
(***************************************************************************)
\* What the processor finds when it walks the tables.
Entry(table, index) == IF table = Absent THEN Absent ELSE dir[table][index]

Translate(virt) ==
  Entry(Entry(Entry(Entry(pml4, Offset(virt, 3)), Offset(virt, 2)), Offset(virt, 1)),
        Offset(virt, 0))

\* From the moment the new tables are in force all the kernel touches is where it
\* expects it: what the bootloader has loaded and reported, memory that is handed out
\* (and with it the tables, the bitmap and the heap), and its own image.
KernelReachable ==
  cr3 # Limine =>
    /\ \A i \in DOMAIN Entries :
         Entries[i].type # "RESERVED" =>
           \A f \in Frames(Entries[i]) : Translate(hhdm_offset + f) = f
    /\ \A f \in KernelPhys .. RegionEnd(kernel_region) - 1 :
         Translate(KernelVirt + f - KernelPhys) = f

\* The four levels of tables are a map from pages to frames: mapping a page leaves the
\* others as they are, and no page is mapped to something else later - not even by the
\* heap's entries with the addresses in swapped positions.
Map == INSTANCE PageMap WITH
         Unmapped <- Absent,
         map <- [v \in Pages |-> Translate(v)]

ImplementsPageMap == Map!Spec
=============================================================================
