-------------------------- MODULE MCVirtualMemory --------------------------
(* Three processes over two addresses, a TLB smaller than the memory and   *)
(* an inverted page table longer than it.                                  *)
EXTENDS VirtualMemory, TLC

=============================================================================
