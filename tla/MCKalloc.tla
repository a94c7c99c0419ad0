------------------------------ MODULE MCKalloc ------------------------------
(***************************************************************************)
(* A heap of four minimal blocks.  As in the kernel a minimal block is two *)
(* pages and a header three words; the page is scaled down to eight words, *)
(* so that its classes are 1, 2 and 4 words: with five slots, with two and *)
(* a crossing one, and with one and a crossing one.                        *)
(***************************************************************************)
EXTENDS Kalloc
=============================================================================
