------------------------------ MODULE MCMemory ------------------------------
(* A machine with 8 usable pages between reserved areas. *)
EXTENDS Memory

Reserved(base, limit) ==
  [bound |-> TRUE, base |-> base, limit |-> limit,
   page_table |-> KERNEL_PAGE_TABLE]

Usable(base, limit) ==
  [bound |-> FALSE, base |-> base, limit |-> limit,
   page_table |-> KERNEL_PAGE_TABLE]

MCMap == <<Reserved(0, 1), Usable(6, 8), Reserved(14, 2), Reserved(30, 4)>>

MCCodePages == {1, 2}

\* Bound: what follows a step that puts the list out of order is not explored.
UntilOutOfOrder == Tiled

=============================================================================
