------------------------------- MODULE MCFiles -------------------------------
(***************************************************************************)
(* A disk with the root directory 1, which mkfs leaves a free entry, an    *)
(* empty directory 2 ("d"), a file 3 ("f") and a free inode 4; tables that *)
(* can be filled.                                                          *)
(***************************************************************************)
EXTENDS Files, TLC

MCNames == {"", ".", "..", "d", "f", "n", "x"}

MCDisk ==
    [type |-> <<"dir", "dir", "file", "free">>,
     dents |-> <<<<[name |-> ".", inum |-> 1], [name |-> "..", inum |-> 1],
                   [name |-> "d", inum |-> 2], [name |-> "f", inum |-> 3],
                   [name |-> "", inum |-> 0]>>,
                 <<[name |-> ".", inum |-> 2], [name |-> "..", inum |-> 1]>>,
                 <<>>, <<>>>>]

MCPaths ==
    {[abs |-> TRUE, elems |-> e] : e \in {<<>>, <<"d">>, <<"f", "x">>, <<"d", "n">>, <<"n">>}}
    \union {[abs |-> b, elems |-> <<"f">>] : b \in BOOLEAN}

Symmetry == Permutations(Procs)
=============================================================================
