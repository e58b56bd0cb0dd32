------------------------------- MODULE Memory -------------------------------
(***************************************************************************)
(* Physical pages, taken from the memory map of the boot loader, and the   *)
(* page tables.  Addresses are unsigned words of a small width: Limit is   *)
(* what the word cannot hold any more, 4 GiB in the code.                  *)
(***************************************************************************)
EXTENDS Integers, SequencesExt, FiniteSetsExt

CONSTANTS
    PageSize,
    Pages,          \* MAX_PAGES
    LowEnd,         \* LOW_MEMORY_RESERVE_END
    BootEnd,        \* IDENTITY_BOOT_END
    TableEntries,   \* pages that one page table maps
    PoolSize,       \* BOOTSTRAP_PT_COUNT
    Machines,       \* memory maps, with the places of what was loaded
    Registers,      \* where network cards have theirs, in pages
    RegisterPages,
    RegisterBase,   \* E1000_MMIO_VIRTUAL_BASE, as a page
    Requests        \* numbers of pages asked for

ASSUME MemoryAssumption ==
    /\ PageSize \in Nat \ {0} /\ Pages \in Nat \ {0} /\ TableEntries \in Nat \ {0}
    /\ PoolSize \in Nat /\ LowEnd \in Nat /\ BootEnd \in Nat
    /\ LowEnd <= BootEnd /\ BootEnd <= (Pages - 1) * PageSize
    /\ RegisterBase \in Nat /\ RegisterPages \in Nat \ {0}
    /\ RegisterBase + RegisterPages <= Pages
    /\ Registers \subseteq Nat /\ Requests \subseteq Nat \ {0}

ASSUME MachinesAssumption ==
    \A m \in Machines :
        /\ m.map \in Seq([start : Nat, length : Nat, available : BOOLEAN])
        /\ m.info \in Nat \X Nat /\ m.kernel \in Nat \X Nat /\ m.framebuffer \in Nat \X Nat

VARIABLE mem

Limit == Pages * PageSize

Word(n) == n % Limit

AlignDown(n) == n - (n % PageSize)

AlignUp(n) == AlignDown(Word(n + PageSize - 1))

Page == 0 .. Pages - 1

Unmapped == -1

NoMachine ==
    [map |-> <<>>, info |-> <<0, 0>>, kernel |-> <<0, 0>>, framebuffer |-> <<0, 0>>]

(* History variables: "machine", and "held", the pages handed out.         *)
MemoryInit ==
    mem = [at |-> "boot", machine |-> NoMachine, free |-> {}, count |-> 0, total |-> Pages,
               hint |-> 1, held |-> {}, tables |-> {}, map |-> [p \in Page |-> Unmapped]]

PagesIn(first, end) == {p \in Page : p >= first \div PageSize /\ p < end \div PageSize}

(* A page of which a part is in the range is touched by it.                *)
Touched(first, end) == PagesIn(AlignDown(first), AlignUp(end))

-----------------------------------------------------------------------------
(* pmm_init                                                                *)

\* Mutant: a page of which a part is reserved is not.
ReserveInner(s, first, end) ==
    LET pages == PagesIn(AlignUp(first), AlignDown(end)) \cap s.free
    IN  [s EXCEPT !.free = @ \ pages, !.count = @ - Cardinality(pages)]

Reserve(s, first, end) ==
    LET pages == Touched(first, end) \cap s.free
    IN  [s EXCEPT !.free = @ \ pages, !.count = @ - Cardinality(pages)]

(* Memory of machines is far beyond the width of the region's own words.   *)
End(region) == region.start + region.length

(* The end is cast to a word: a range up to the limit frees nothing.       *)
UsablePages(region) ==
    IF region.available /\ End(region) > region.start /\ region.start < Limit
    THEN PagesIn(AlignUp(region.start), AlignDown(Word(Min({End(region), Limit}))))
    ELSE {}

FreeUsable(s, map) ==
    LET pages == (UNION {UsablePages(map[i]) : i \in DOMAIN map}) \ (s.free \cup {0})
    IN  [s EXCEPT !.free = @ \cup pages, !.count = @ + Cardinality(pages)]

ReserveFramebuffer(s, framebuffer) ==
    IF framebuffer[1] >= Limit THEN s
    ELSE Reserve(s, framebuffer[1], Word(Min({framebuffer[2], Limit})))

Highest(map) == Max({0} \cup {Min({Limit, End(map[i])}) : i \in DOMAIN map})

PmmInit ==
    /\ mem.at = "boot"
    /\ \E machine \in Machines :
         LET usable == FreeUsable(mem, machine.map)
             low == Reserve(usable, 0, LowEnd)
             info == Reserve(low, machine.info[1], machine.info[2])
             kernel == Reserve(info, machine.kernel[1], machine.kernel[2])
         IN  mem' = [ReserveFramebuffer(kernel, machine.framebuffer) EXCEPT
                        !.at = "memory", !.machine = machine, !.hint = 1,
                        !.total = Word(Highest(machine.map)) \div PageSize]

-----------------------------------------------------------------------------
(* The page tables.                                                        *)

Table(page) == page \div TableEntries

TablesOf(pages) == {Table(p) : p \in pages}

(* The tables that pages get, the lowest first: when the pool is used up   *)
(* the others are not mapped.                                              *)
Granted(s, pages) ==
    LET missing == TablesOf(pages) \ s.tables
        room == PoolSize - Cardinality(s.tables)
    IN  {t \in missing : Cardinality({u \in missing : u < t}) < room}

(* Page p is found at p + distance.                                        *)
MapPages(s, pages, distance) ==
    LET tables == s.tables \cup Granted(s, pages)
    IN  [s EXCEPT !.tables = tables,
                  !.map = [p \in Page |-> IF p \in pages /\ Table(p) \in tables
                                          THEN p + distance ELSE @[p]]]

MapIdentity(s, first, end) == MapPages(s, Touched(first, end), 0)

MapFramebuffer(s, framebuffer) ==
    IF framebuffer[1] >= Limit THEN s
    ELSE MapIdentity(s, framebuffer[1], Word(Min({framebuffer[2], Limit})))

PagingInit ==
    /\ mem.at = "memory"
    /\ LET boot == MapIdentity(mem, 0, BootEnd)
           kernel == MapIdentity(boot, mem.machine.kernel[1], mem.machine.kernel[2])
       IN  mem' = [MapFramebuffer(kernel, mem.machine.framebuffer) EXCEPT !.at = "running"]

(* e1000_map_registers                                                     *)
RegisterPlaces == RegisterBase .. RegisterBase + RegisterPages - 1

MapRegisters ==
    /\ mem.at = "running" /\ mem.map[RegisterBase] = Unmapped
    /\ \E base \in Registers :
         /\ base # 0 /\ base + RegisterPages <= Pages
         /\ mem' = MapPages(mem, RegisterPlaces, base - RegisterBase)

-----------------------------------------------------------------------------
(* pmm_alloc_pages and pmm_free_page                                       *)

(* The first pass goes from the hint to the last page, the second from the *)
(* first page to the hint.                                                 *)
Candidates(s, begin, end, n) ==
    IF end <= begin \/ n > end - begin + 1 THEN {}
    ELSE {p \in begin .. end - n + 1 : p .. p + n - 1 \subseteq s.free}

Start(s) == Max({s.hint, 1})

Found(s, n) ==
    LET ahead == Candidates(s, Start(s), Max({s.total - 1, 0}), n)
    IN  IF ahead # {} THEN ahead ELSE Candidates(s, 1, Start(s), n)

AllocPages ==
    /\ mem.at = "running"
    /\ \E n \in Requests :
         /\ n <= mem.count /\ Found(mem, n) # {}
         /\ LET first == Min(Found(mem, n))
                pages == first .. first + n - 1
            IN  mem' = [mem EXCEPT !.free = @ \ pages, !.count = @ - n, !.hint = first + n,
                                   !.held = @ \cup pages]

(* Callers give back, one by one, pages they were given.                   *)
FreePage ==
    /\ mem.at = "running"
    /\ \E p \in mem.held :
         /\ p < mem.total
         /\ mem' = [mem EXCEPT !.free = @ \cup {p}, !.count = @ + 1, !.hint = Min({p, @}),
                               !.held = @ \ {p}]

MemoryNext == PmmInit \/ PagingInit \/ MapRegisters \/ AllocPages \/ FreePage

MemorySpec == MemoryInit /\ [][MemoryNext]_mem

-----------------------------------------------------------------------------
MemoryTypes ==
    /\ mem.at \in {"boot", "memory", "running"}
    /\ mem.free \subseteq Page /\ mem.held \subseteq Page /\ mem.hint \in 0 .. Pages
    /\ mem.map \in [Page -> Page \cup {Unmapped}] /\ Cardinality(mem.tables) <= PoolSize

Bytes(page) == page * PageSize .. (page + 1) * PageSize - 1

Covers(map) == UNION {IF map[i].available THEN map[i].start .. End(map[i]) - 1 ELSE {} :
                        i \in DOMAIN map}

Between(range) == range[1] .. range[2] - 1

Reserved(m) == 0 .. LowEnd - 1
               \cup Between(m.info) \cup Between(m.kernel) \cup Between(m.framebuffer)

LastPage == Limit - PageSize

(* No usable memory begins within the last page and nothing reserved ends   *)
(* there, where the code rounds up to zero; but a framebuffer may reach the *)
(* limit where there is no usable memory.                                  *)
Roomy(m) ==
    /\ \A i \in DOMAIN m.map :
          m.map[i].available => m.map[i].start <= LastPage \/ m.map[i].start >= Limit
    /\ m.info[2] <= LastPage /\ m.kernel[2] <= LastPage
    /\ m.framebuffer[2] <= LastPage
       \/ (m.framebuffer[1] .. Limit - 1) \cap Covers(m.map) = {}

(* The boot information is where memory is mapped from the start, the      *)
(* framebuffer ends before the last page, the tables suffice, and the      *)
(* registers of the network card are mapped elsewhere.                     *)
Mappable(m) ==
    LET identity == Touched(0, BootEnd) \cup Touched(m.kernel[1], m.kernel[2])
                    \cup Touched(m.framebuffer[1], m.framebuffer[2])
    IN  /\ m.info[2] <= BootEnd /\ m.kernel[2] <= LastPage /\ m.framebuffer[2] <= LastPage
        /\ Cardinality(TablesOf(identity)) <= PoolSize
        /\ \A p \in RegisterPlaces : Bytes(p) \cap Reserved(m) = {}

(* A page that is free or handed out is memory from its first byte to its   *)
(* last, and no byte of it belongs to the kernel, the boot information, the *)
(* framebuffer or the first MiB, unless a range ends where the words of the *)
(* code do; no page is both, and the count of the free ones is right.  Once *)
(* paging is on, the kernel runs and draws where it did before, as long as  *)
(* the tables suffice for what is mapped.                                   *)
PagesKept ==
    /\ Roomy(mem.machine) => \A p \in mem.free \cup mem.held :
          p # 0 /\ Bytes(p) \subseteq Covers(mem.machine.map) \ Reserved(mem.machine)
    /\ mem.free \cap mem.held = {} /\ mem.count = Cardinality(mem.free)
    /\ mem.at = "running" /\ Mappable(mem.machine) =>
          \A p \in Page : Bytes(p) \cap Reserved(mem.machine) # {} => mem.map[p] = p
=============================================================================
