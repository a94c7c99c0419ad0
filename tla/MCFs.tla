-------------------------------- MODULE MCFs --------------------------------
(***************************************************************************)
(* Blocks of two words, one direct address: an empty image, whose root     *)
(* ends at a block's end, and one with a file "a" of three words, whose    *)
(* root has a free entry.                                                  *)
(***************************************************************************)
EXTENDS Fs

MCImages == {<<>>, <<[name |-> "a", words |-> <<<<1>>, <<2>>, <<3>>>>]>>}
=============================================================================
