---------------------------- MODULE MCBlockFifo ----------------------------
(* Small instances of BlockFifo.                                           *)
EXTENDS BlockFifo, TLC

\* A depth limit of one block and a byte limit of two.
MCPaceLimits == {<<1, 100>>, <<100, 2>>}
\* Blocks of 1, 3, 0 and 2 bytes, and so on.
MCOffset == [b \in 0..NBlocks |-> <<0, 1, 4, 4, 6, 7>>[b + 1]]
=============================================================================
