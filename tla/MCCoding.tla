------------------------------ MODULE MCCoding ------------------------------
(* Coding instantiated for TLC: the slices given to PutLengthPrefixedSlice  *)
(* are an empty one and a two-byte one holding the smallest and largest    *)
(* scaled byte.                                                            *)
EXTENDS Coding

MCPayloads == {<<>>, <<1, 15>>}
=============================================================================
