---------------------------- MODULE MCQueryLists ----------------------------
(* Two kinds of rows, pages of one and two rows, three ids over two instants: *)
(* a list of up to three pages whose rows change while it is read.                 *)
EXTENDS QueryLists

CONSTANTS k1, k2
MCKeys == {k1, k2}
MCPageSizes == {1, 2}
KeySymmetry == Permutations(MCKeys)
=============================================================================
