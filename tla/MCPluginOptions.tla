--------------------------- MODULE MCPluginOptions ---------------------------
(* Four-byte values are below 16 with two values of a byte: the wide size 17 *)
(* is 1 when it is cut to uint32_t.                                          *)
EXTENDS PluginOptions

MCScores == {-8, 7}
Symmetry == Permutations(Apps)
=============================================================================
