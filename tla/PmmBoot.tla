------------------------------ MODULE PmmBoot -------------------------------
(***************************************************************************)
(* pmm_bootstrap() (src/src/kern/amd64/pmm_boot.c): from what the boot     *)
(* loader says of the machine to a page allocator in use.  The bitmap is   *)
(* written while the boot data are still being read, so its place matters. *)
(*                                                                         *)
(* A region is a record of an address and a length, as in pmm_reserve().   *)
(* Without a memory map the code falls back on mem_lower and mem_upper,    *)
(* which is a map of two entries.  Addresses lie below 2^44, where a page  *)
(* number still fits the loops' unsigned long.                             *)
(***************************************************************************)
EXTENDS Pmm, Sequences

CONSTANTS
  Machines,     \* what the boot loader may hand over: ram, mbi, mods, fb
  Kernel,       \* kernel_start, kernel_end
  LowEnd,       \* 1 MB
  Top,          \* 4 GB
  BitsPerByte   \* 8

Region(a, n) == [addr |-> a, len |-> n]
End(r) == r.addr + r.len
Regions == [addr : Nat, len : Nat]

BootData(m) == {Kernel, m.mbi} \union {m.mods[i] : i \in DOMAIN m.mods}

\* The kernel is linked at 1 MB, and not empty; nothing the boot loader leaves
\* reaches into the last page below 4 GB.
ASSUME BootAssumption ==
  /\ BitsPerByte \in Nat \ {0} /\ LowEnd \in Nat /\ Top \in Nat \ {0}
  /\ Kernel \in Regions /\ LowEnd <= Kernel.addr /\ Kernel.len > 0
  /\ \A m \in Machines :
       /\ m.ram \in Seq(Regions) /\ m.mods \in Seq(Regions) /\ m.mbi \in Regions
       /\ \A r \in BootData(m) : PageSize * RoundUp(End(r)) < Top

VARIABLES
  machine,      \* the memory map, the multiboot blob and the modules
  boot,         \* where pmm_bootstrap() is
  todo,         \* the regions its current loop has still to visit
  bitmap        \* where it put the bitmap

bvars == <<pvars, machine, boot, todo, bitmap>>

BootInit ==
  /\ Init
  /\ machine \in Machines
  /\ boot = "size" /\ todo = <<>> /\ bitmap = Region(0, 0)

-----------------------------------------------------------------------------
Largest(S) == CHOOSE x \in S : \A y \in S : y <= x
Smaller(x, y) == IF x < y THEN x ELSE y

\* mmap_max_available(): where RAM ends, cut at 4 GB.
MaxAvailable ==
  Largest({0} \union {Smaller(End(machine.ram[i]), Top) : i \in DOMAIN machine.ram})

\* Mutant: only the kernel's end, as an older version had it.
BootDataEnd_KernelOnly == End(Kernel)

\* boot_data_end(): the end of everything the boot loader left.
BootDataEnd == Largest({End(r) : r \in BootData(machine)})

\* align_up() to a page: a 32-bit sum.
AlignUp(addr) == (PageSize * RoundUp(addr)) % Top

\* The region the bitmap of n pages takes, in whole pages.
BitmapFor(n) ==
  Region(AlignUp(BootDataEnd),
         PageSize * RoundUp((n + BitsPerByte - 1) \div BitsPerByte))

\* Up to pmm_init(); a panic if the bitmap does not fit.
Size ==
  LET n == RoundUp(MaxAvailable)
  IN /\ boot = "size"
     /\ IF End(BitmapFor(n)) > MaxAvailable
        THEN /\ boot' = "panic"
             /\ UNCHANGED <<pvars, todo, bitmap>>
        ELSE /\ PmmInit(n)
             /\ bitmap' = BitmapFor(n)
             /\ boot' = "free" /\ todo' = machine.ram
     /\ UNCHANGED machine

\* mmap_free_available(): one entry of the map.
FreeEntry ==
  /\ boot = "free" /\ todo # <<>>
  /\ PmmFreeRegion(Head(todo).addr, Head(todo).len)
  /\ todo' = Tail(todo)
  /\ UNCHANGED <<machine, boot, bitmap>>

\* What is taken back: below 1 MB, the kernel, the bitmap, the boot data.
Reserves == <<Region(0, LowEnd), Kernel, bitmap, machine.mbi>> \o machine.mods

FreeDone == /\ boot = "free" /\ todo = <<>>
            /\ boot' = "reserve" /\ todo' = Reserves
            /\ UNCHANGED <<pvars, machine, bitmap>>

ReserveEntry ==
  /\ boot = "reserve" /\ todo # <<>>
  /\ PmmReserve(Head(todo).addr, Head(todo).len)
  /\ todo' = Tail(todo)
  /\ UNCHANGED <<machine, boot, bitmap>>

ReserveDone == /\ boot = "reserve" /\ todo = <<>>
               /\ boot' = "run"
               /\ UNCHANGED <<pvars, machine, todo, bitmap>>

Bootstrap == \/ Size \/ FreeEntry \/ FreeDone \/ ReserveEntry \/ ReserveDone

-----------------------------------------------------------------------------
Meets(r, s) == r.len > 0 /\ s.len > 0 /\ r.addr < End(s) /\ s.addr < End(r)
PageRegion(p) == Region(PageSize * p, PageSize)
InRam(r) ==
  \E i \in DOMAIN machine.ram :
    machine.ram[i].addr <= r.addr /\ End(r) <= End(machine.ram[i])

\* What no page may be given out of.
Taken == {Region(0, LowEnd), Kernel, bitmap, machine.mbi} \union
         {machine.mods[i] : i \in DOMAIN machine.mods}

\* pmm_init() fills the bitmap before the memory map is read a second time:
\* the bitmap must lie on none of the boot data, nor on the kernel.
BitmapApart ==
  boot \notin {"size", "panic"} =>
    \A r \in Taken \ {bitmap} : ~Meets(bitmap, r)

\* The pages the kernel may give out: whole pages of RAM that meet nothing the
\* kernel or the boot loader uses.
Usable == {p \in Known : InRam(PageRegion(p)) /\
                        \A r \in Taken : ~Meets(PageRegion(p), r)}
=============================================================================
