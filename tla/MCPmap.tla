------------------------------- MODULE MCPmap -------------------------------
(***************************************************************************)
(* kmain() on machines with four-byte pages and four bits per byte of      *)
(* bitmap; 1 MB is the end of the second page.  A table has sixteen        *)
(* entries.  Small machines, whose RAM ends at or inside a page, is cut by *)
(* a hole, or ends beyond 4 GB, with boot data anywhere after the kernel,  *)
(* run out of pages at some point; the others have enough, or just not.    *)
(***************************************************************************)
EXTENDS Pmap

MCKernel == Region(8, 6)

MCRam ==
  {<<Region(0, 7), Region(8, n)>> : n \in {20, 22, 32, 43}} \union
  {<<Region(40, 7), Region(8, n)>> : n \in {24, 26}} \union
  {<<Region(8, 30)>>, <<Region(0, 8), Region(8, 24), Region(32, 9)>>, <<>>}

\* The boot loader puts its data in RAM, apart from the kernel and each other.
MCPlaces(ram, len) ==
  {r \in {Region(a, len) : a \in 14 .. 34} :
     \E i \in DOMAIN ram : ram[i].addr <= r.addr /\ End(r) <= End(ram[i])}

MCBlobs(ram) ==
  {[ram |-> ram, mbi |-> b, mods |-> <<>>, fb |-> None] : b \in MCPlaces(ram, 5)} \union
  {[ram |-> ram, mbi |-> x[1], mods |-> <<x[2]>>, fb |-> None] :
     x \in {y \in MCPlaces(ram, 5) \X MCPlaces(ram, 6) : ~Meets(y[1], y[2])}}

\* Machines of n pages; video memory lies above everything the kernel maps.
MCLarge(n, fb) ==
  [ram |-> <<Region(0, 8), Region(8, 4 * n - 8)>>, mbi |-> Region(14, 5), mods |-> <<>>,
   fb |-> fb]

MCMachines ==
  UNION {MCBlobs(ram) : ram \in MCRam} \union
  {MCLarge(n, None) : n \in 10 .. 34} \union
  {MCLarge(n, Region(514, 9)) : n \in {20, 28, 34}}

=============================================================================
