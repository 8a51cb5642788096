---------------------------- MODULE MCInterrupts ----------------------------
(***************************************************************************)
(* The timer and a device on the line of each chip that spurious requests  *)
(* appear on; one kernel thread and one user thread; faults of each kind.  *)
(***************************************************************************)
EXTENDS Interrupts
CONSTANTS a, u
MCThread == {a, u}
MCUsers == {u}
MCDrivers == {0, 15}
MCIrq == {0, 2, 7, 15}

MCPageFaults ==
  {[vector |-> 14, why |-> {p, w, m} \union x] :
     p \in {"absent", "protection"}, w \in {"read", "write"}, m \in {"kernel", "user"},
     x \in {{}, {"reserved"}, {"fetch"}}}
MCSelectors ==
  {[vector |-> v, why |-> w] : v \in {10, 13},
     w \in {{}} \union {{t} \union x : t \in {"gdt", "ldt", "idt"},
                                       x \in {{}, {"external"}}}}
MCCauses ==
  {[vector |-> v, why |-> {}] : v \in {0, 6, 8, 17}} \union MCPageFaults \union MCSelectors
=============================================================================
