-------------------------------- MODULE Pmap --------------------------------
(***************************************************************************)
(* The kernel's address space (src/src/kern/amd64/pmap.c, subr_vmm.c) and  *)
(* everything kmain() puts into it once pmm_bootstrap() is done: the low   *)
(* identity map, the kernel, the frame buffer, the test of vmm_map(), the  *)
(* heap, the stacks of the threads and the two pages of the user task.     *)
(*                                                                         *)
(* Addresses are page numbers: v for a virtual page, p for a physical one, *)
(* and an identity mapping maps v to v.  A table has Slots entries, and so *)
(* has the directory Dirs.  All of it runs with interrupts off.            *)
(***************************************************************************)
EXTENDS PmmBoot

CONSTANTS
  Slots, Dirs,          \* entries of a table (4 MB), of the directory
  PmapLowEnd,           \* PMAP_LOW_END
  KernBase, SmokeVA, HeapBase, HeapPages, ThreadVABase, UserCodeVA, UserStackVA,
  None

VPage == 0 .. Dirs * Slots - 1
Entry(p, flags) == [pa |-> p, flags |-> flags]
Entries == [pa : Nat, flags : SUBSET {"RW", "USER"}]

KernelPages == RoundDown(Kernel.addr) .. RoundUp(End(Kernel)) - 1
FbPages(fb) == IF fb = None THEN {} ELSE RoundDown(fb.addr) .. RoundUp(End(fb)) - 1

\* What lies where in the address space of machine m, by the phase of kmain() that
\* maps it; the guard pages of a stack belong to the stack.
Phases == {"low", "kernel", "fb", "smoke", "heap", "thread_a", "thread_b", "user", "thread_u"}
Area(phase, m) ==
  CASE phase = "low" -> 1 .. PmapLowEnd - 1
    [] phase = "kernel" -> {KernBase + p : p \in KernelPages}
    [] phase = "fb" -> FbPages(m.fb)
    [] phase = "smoke" -> {SmokeVA}
    [] phase = "heap" -> HeapBase .. HeapBase + HeapPages - 1
    [] phase = "thread_a" -> ThreadVABase .. ThreadVABase + 2
    [] phase = "thread_b" -> ThreadVABase + 3 .. ThreadVABase + 5
    [] phase = "thread_u" -> ThreadVABase + 6 .. ThreadVABase + 9
    [] phase = "user" -> {UserCodeVA, UserStackVA}

ASSUME PmapAssumption ==
  /\ Slots \in Nat \ {0} /\ Dirs \in Nat \ {0} /\ Top <= PageSize * (Dirs * Slots)
  /\ {PmapLowEnd, KernBase, SmokeVA, HeapBase, HeapPages, ThreadVABase, UserCodeVA,
      UserStackVA} \subseteq Nat
  /\ UserCodeVA # UserStackVA
  /\ None \notin Nat \union Entries

\* No two of them overlap, none has page 0, and video memory ends below 4 GB.
ASSUME LayoutAssumption ==
  \A m \in Machines :
    /\ m.fb # None => m.fb \in Regions /\ End(m.fb) < PageSize * (Dirs * Slots)
    /\ \A x \in Phases : Area(x, m) \subseteq VPage \ {0}
    /\ \A x, y \in Phases : x # y => Area(x, m) \intersect Area(y, m) = {}

VARIABLES
  cr3,              \* which tables the CPU walks: boot.S's or pgdir's
  pd, pgdir,        \* the page that holds the directory, and its contents
  tables,           \* the contents of every page that is a table
  tlb,              \* the translations the CPU has used and not dropped
  hand,             \* the pages in kmain()'s locals, taken and not yet mapped
  next_thread_va

mvars == <<cr3, pd, pgdir, tables, tlb, hand, next_thread_va>>
vars == <<bvars, mvars>>

Dir(v) == v \div Slots        \* PDE_INDEX
Slot(v) == v % Slots          \* PTE_INDEX

PmapBootInit ==
  /\ BootInit
  /\ cr3 = "boot" /\ pd = None /\ pgdir = [d \in 0 .. Dirs - 1 |-> None]
  /\ tables = [p \in {} |-> <<>>] /\ tlb = {} /\ hand = <<>>
  /\ next_thread_va = ThreadVABase

\* The table of boot.S, seen at 0 and at KERNBASE.
BootWalk(v) == IF Dir(v) \in {0, Dir(KernBase)} THEN Entry(Slot(v), {"RW"}) ELSE None

\* pmap_extract(): what the kernel's own tables say of v.
Lookup(v) ==
  IF pgdir[Dir(v)] = None THEN None ELSE tables[pgdir[Dir(v)]][Slot(v)]

\* What the CPU finds.
Walk(v) == IF cr3 = "boot" THEN BootWalk(v) ELSE Lookup(v)

\* An access to the pages of S leaves their translations in the TLB.
Uses(S) == {<<v, Walk(v)>> : v \in {u \in S : Walk(u) # None}}

\* Mutant: the stale translation stays.
Invlpg_Nothing(v, cached) == cached
Invlpg(v, cached) == {c \in cached : c[1] # v}

-----------------------------------------------------------------------------
\* Mutant: the page is used as pmm_alloc() gave it.
Cleared_AsFound == [s \in 0 .. Slots - 1 |-> Entry(s, {"RW"})]

\* memset() of a new table.
Cleared == [s \in 0 .. Slots - 1 |-> None]

\* pt_for(): the table of directory entry d, a new one if there is none.
PtFor(d) ==
  IF pgdir[d] # None
  THEN UNCHANGED <<pvars, pgdir>>
  ELSE /\ PmmAlloc
       /\ pgdir' = IF ret' = NoMem THEN pgdir ELSE [pgdir EXCEPT ![d] = ret']

TablePages == DOMAIN tables
Contents(d) == IF pgdir[d] = None THEN Cleared ELSE tables[pgdir[d]]

\* pmap_map(); `where' is where kmain() goes on.
PmapMap(v, p, flags, where) ==
  /\ PtFor(Dir(v))
  /\ LET pt == pgdir'[Dir(v)]
     IN IF pt = None
        THEN boot' = "panic" /\ UNCHANGED <<tables, tlb>>
        ELSE /\ tables' = [q \in TablePages \union {pt} |->
                            IF q = pt
                            THEN [Contents(Dir(v)) EXCEPT ![Slot(v)] = Entry(p, flags)]
                            ELSE tables[q]]
             /\ tlb' = Invlpg(v, tlb \union Uses({pd, pt}))
             /\ boot' = where

\* pmap_unmap()
PmapUnmap(v) ==
  IF pgdir[Dir(v)] = None
  THEN UNCHANGED <<tables, tlb>>
  ELSE /\ tables' = [tables EXCEPT ![pgdir[Dir(v)]][Slot(v)] = None]
       /\ tlb' = Invlpg(v, tlb \union Uses({v, pd, pgdir[Dir(v)]}))

\* Mutant: every page is open to ring 3.
PteFlags_AllUser(flags) == {CASE f = "WRITE" -> "RW" [] OTHER -> "USER" : f \in flags}

\* pte_flags(): present is not passed on, pmap_map() sets it.
PteFlags(flags) == {CASE f = "WRITE" -> "RW" [] f = "USER" -> "USER" :
                      f \in flags \ {"PRESENT"}}

-----------------------------------------------------------------------------
(***************************************************************************)
(* kmain().  A phase is a list of pages to map, each with the physical     *)
(* page it goes to, or None for one that pmm_alloc() gives.                *)
(***************************************************************************)
Job(v, p, flags) == [va |-> v, pa |-> p, flags |-> flags]

\* The low identity map; page 0 is left out.
LowJobs == [i \in 1 .. Smaller(npages_total, PmapLowEnd) - 1 |-> Job(i, i, {"RW"})]

\* Mutant: the alias starts one page late.
KernelJobs_Late ==
  [i \in 1 .. Cardinality(KernelPages) - 1 |->
     Job(KernBase + RoundDown(Kernel.addr) + i, RoundDown(Kernel.addr) + i, {"RW"})]

KernelJobs ==
  [i \in 1 .. Cardinality(KernelPages) |->
     Job(KernBase + RoundDown(Kernel.addr) + i - 1, RoundDown(Kernel.addr) + i - 1,
         {"RW"})]

\* base + len is a 32-bit sum.
FbJobs ==
  IF machine.fb = None THEN <<>>
  ELSE LET base == RoundDown(machine.fb.addr)
           end == RoundUp(End(machine.fb) % (PageSize * (Dirs * Slots)))
       IN [i \in 1 .. end - base |->
             Job(base + i - 1, base + i - 1, PteFlags({"PRESENT", "WRITE"}))]

SmokeJobs == <<Job(SmokeVA, None, PteFlags({"PRESENT", "WRITE"}))>>

HeapJobs == [i \in 1 .. HeapPages |->
               Job(HeapBase + i - 1, None, PteFlags({"PRESENT", "WRITE"}))]

\* Mutant: the stack takes the place of the guard page.
StackJobs_NoGuard == <<Job(next_thread_va, None, PteFlags({"PRESENT", "WRITE"}))>>

\* thread_stack_alloc(): the page at next_thread_va stays unmapped.
StackJobs == <<Job(next_thread_va + 1, None, PteFlags({"PRESENT", "WRITE"}))>>

UserJobs == <<Job(UserCodeVA, None, PteFlags({"PRESENT", "USER"})),
              Job(UserStackVA, None, PteFlags({"PRESENT", "WRITE", "USER"}))>>

\* The order of kmain().
After == [low |-> "kernel", kernel |-> "lcr3", fb |-> "smoke", heap |-> "thread_a",
          thread_a |-> "thread_b", thread_b |-> "user", user |-> "thread_u",
          thread_u |-> "up"]

Jobs(phase) ==
  CASE phase = "low" -> LowJobs
    [] phase = "kernel" -> KernelJobs
    [] phase = "fb" -> FbJobs
    [] phase = "smoke" -> SmokeJobs
    [] phase = "heap" -> HeapJobs
    [] phase \in {"thread_a", "thread_b", "thread_u"} -> StackJobs
    [] phase = "user" -> UserJobs
    [] OTHER -> <<>>

Enter(phase) == boot' = phase /\ todo' = Jobs(phase)

\* pmap_init(): the page directory.
PmapInit ==
  /\ boot = "run"
  /\ PmmAlloc
  /\ IF ret' = NoMem
     THEN boot' = "panic" /\ UNCHANGED <<pd, todo>>
     ELSE pd' = ret' /\ Enter("low")
  /\ UNCHANGED <<machine, bitmap, cr3, pgdir, tables, tlb, hand, next_thread_va>>

Mapping == boot \in DOMAIN After \union {"smoke"}
Fresh == Mapping /\ todo # <<>> /\ Head(todo).pa = None

\* The user task takes both its pages before it maps the first.
Ready == IF boot = "user" THEN Len(hand) = Len(todo) ELSE hand # <<>>

\* pmm_alloc() for a page to map.  What if there is none depends on who asks:
\* the test is skipped, and so is the user task: the block that holds code_pa and
\* stack_pa is left, with the page that one of them has.
TakePage ==
  /\ Fresh /\ ~Ready
  /\ PmmAlloc
  /\ CASE boot = "user" ->
            IF hand # <<>> /\ NoMem \in {hand[1], ret'}
            THEN hand' = <<>> /\ Enter("up")
            ELSE hand' = Append(hand, ret') /\ UNCHANGED <<boot, todo>>
       [] boot # "user" /\ ret' # NoMem ->
            hand' = <<ret'>> /\ UNCHANGED <<boot, todo>>
       [] OTHER ->
            /\ UNCHANGED hand
            /\ IF boot = "smoke" THEN Enter("heap")
               ELSE boot' = "panic" /\ UNCHANGED todo
  /\ UNCHANGED <<machine, bitmap, cr3, pd, pgdir, tables, tlb, next_thread_va>>

\* The next page of a loop over addresses that are known.
MapNext ==
  /\ Mapping /\ todo # <<>> /\ ~Fresh
  /\ PmapMap(Head(todo).va, Head(todo).pa, Head(todo).flags, boot)
  /\ todo' = Tail(todo)
  /\ UNCHANGED <<machine, bitmap, cr3, pd, hand, next_thread_va>>

\* vmm_map() of a page in hand.  The next thread's guard page comes after the
\* top of this one's stack.
MapFresh ==
  /\ Fresh /\ Ready
  /\ PmapMap(Head(todo).va, Head(hand), Head(todo).flags, boot)
  /\ todo' = Tail(todo) /\ hand' = Tail(hand)
  /\ next_thread_va' = IF boot \in {"thread_a", "thread_b", "thread_u"}
                       THEN next_thread_va + 3 ELSE next_thread_va
  /\ UNCHANGED <<machine, bitmap, cr3, pd>>

\* Mutant: the page is given back while it is still mapped.
SmokeTest_NoUnmap ==
  /\ boot = "smoke" /\ todo = <<>>
  /\ PmmFree(PageSize * Lookup(SmokeVA).pa)
  /\ Enter("heap")
  /\ UNCHANGED <<machine, bitmap, cr3, pd, pgdir, tables, tlb, hand, next_thread_va>>

\* The test of vmm_map(): the page is used, unmapped and given back.
SmokeTest ==
  /\ boot = "smoke" /\ todo = <<>>
  /\ PmapUnmap(SmokeVA)
  /\ PmmFree(PageSize * Lookup(SmokeVA).pa)
  /\ Enter("heap")
  /\ UNCHANGED <<machine, bitmap, cr3, pd, pgdir, hand, next_thread_va>>

PhaseDone ==
  /\ boot \in DOMAIN After /\ todo = <<>>
  /\ Enter(After[boot])
  /\ UNCHANGED <<pvars, machine, bitmap, mvars>>

\* lcr3(): from boot.S's table to our own.
Lcr3 ==
  /\ boot = "lcr3"
  /\ cr3' = "own" /\ tlb' = {}
  /\ Enter("fb")
  /\ UNCHANGED <<pvars, machine, bitmap, pd, pgdir, tables, hand, next_thread_va>>

KmainNext ==
  \/ Bootstrap /\ UNCHANGED mvars
  \/ PmapInit \/ TakePage \/ MapNext \/ MapFresh \/ SmokeTest \/ PhaseDone \/ Lcr3

KmainSpec == PmapBootInit /\ [][KmainNext]_vars

-----------------------------------------------------------------------------
Pages(r) == RoundDown(r.addr) .. RoundUp(End(r)) - 1
Seen(S) == \A p \in S : Walk(p) # None /\ Walk(p).pa = p

\* The kernel reaches the bitmap, its page directory, its tables and the boot
\* loader's data through their physical addresses, its own code through the
\* alias and the frame buffer where it lies: under whichever cr3, those pages
\* are mapped to themselves, or the write faults.
Reachable ==
  boot \notin {"size", "panic"} =>
    /\ Seen(Pages(bitmap) \union ({pd} \ {None}) \union TablePages \union
            Pages(machine.mbi))
    /\ \A p \in KernelPages : Walk(KernBase + p) # None /\ Walk(KernBase + p).pa = p
    /\ machine.fb # None /\ boot \in DOMAIN After \ {"low", "kernel", "fb"} =>
         Seen(Pages(machine.fb))

\* The TLB holds nothing the tables do not say: an unmapped page whose frame
\* has been given back is out of the CPU's reach.
TlbAgrees == \A c \in tlb : Walk(c[1]) = c[2]

\* Ring 3 can touch its code, read only, and its stack, and nothing else: the frames
\* behind them are no page table, no bitmap, and mapped nowhere but here and in the
\* identity map.
UserConfined ==
  LET mapped == {v \in VPage : Lookup(v) # None}
      user == {v \in mapped : "USER" \in Lookup(v).flags}
  IN /\ user \subseteq {UserCodeVA, UserStackVA}
     /\ "RW" \notin (IF UserCodeVA \in mapped THEN Lookup(UserCodeVA).flags ELSE {})
     /\ \A v \in user : \A u \in mapped \ {v} : Lookup(u).pa = Lookup(v).pa => u = Lookup(u).pa
     /\ \A v \in user : Lookup(v).pa \notin TablePages \union {pd} \union Pages(bitmap)

\* Running off a null pointer or off a stack faults: page 0 and the pages below and
\* above every stack stay unmapped (`fica sem mapear, de proposito').
GuardPages ==
  /\ Lookup(0) = None
  /\ \A v \in ThreadVABase .. next_thread_va - 1 :
       Lookup(v) # None => v > ThreadVABase /\ Lookup(v - 1) = None /\ Lookup(v + 1) = None

\* The addresses whose pages come from pmm_alloc().
Private == {SmokeVA, UserCodeVA, UserStackVA} \union
           (HeapBase .. HeapBase + HeapPages - 1) \union
           (ThreadVABase .. next_thread_va)

\* How often page p has an owner: the directory, a directory entry, a private
\* mapping, a local of kmain().
Owners(p) ==
  Cardinality({i \in {1} : pd = p}) +
  Cardinality({d \in DOMAIN pgdir : pgdir[d] = p}) +
  Cardinality({v \in Private : Lookup(v) # None /\ Lookup(v).pa = p}) +
  Cardinality({i \in DOMAIN hand : hand[i] = p})

\* Pages taken from pmm_alloc() that nobody has any more.
Lost == {p \in Usable \intersect busy : Owners(p) = 0}

\* Once pmm_bootstrap() is done a page that has been given out is usable and has
\* one owner: whatever the order and overlap of frees and reserves, and however a
\* later step fails, no page has two.  One page at most is lost, and only when
\* memory ends between the two pmm_alloc() of the user task: the task is skipped,
\* and with it the page that it had (main.c:238-243).
OwnedOnce ==
  boot \notin {"size", "free", "reserve", "panic"} =>
    /\ \A p \in Known : \/ Owners(p) = 0
                        \/ Owners(p) = 1 /\ p \in Usable /\ p \in busy
    /\ Lost # {} => boot = "up" /\ Lookup(UserCodeVA) = None /\ Known \subseteq busy
    /\ \A p, q \in Lost : p = q

Space == INSTANCE AddressSpace WITH space <- [v \in VPage |-> Lookup(v)]

\* A mapping installed is the mapping found until it is removed, and no call
\* disturbs another page: tables are private and start empty.
ImplementsSpace == Space!Spec
=============================================================================
