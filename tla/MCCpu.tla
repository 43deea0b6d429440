------------------------------- MODULE MCCpu --------------------------------
(***************************************************************************)
(* Small instances of Cpu for TLC.  One program address, whose bytes       *)
(* differ; the vectors are others, so that a handler can be interrupted at *)
(* an address of its own.  The stack page has one cell more than the       *)
(* deepest nesting fills.                                                  *)
(***************************************************************************)
EXTENDS Cpu

MCPCs == {258}
MCStackSize == 3 * MaxDepth + 1
=============================================================================
