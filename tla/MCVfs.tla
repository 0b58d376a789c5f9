-------------------------------- MODULE MCVfs --------------------------------
(* Instance of Vfs for TLC: two levels of two names, files of up to 6 bytes. *)
EXTENDS Vfs, TLC

MCPaths == {<<>>, <<"a">>, <<"b">>, <<"a", "a">>, <<"", "a">>}

MCBlocks == {<<"x", "y", "y", "x", "z">>}

Symmetry == Permutations(Streams)
=============================================================================
