----------------------------- MODULE BlockQueue -----------------------------
(* What a thread-safe block queue promises (include/vlc_block.h): blocks     *)
(* come out in the order they went in, each at most once, and leave it only  *)
(* through a Get or an Empty.  Nothing here waits, wakes or is cancelled.    *)
EXTENDS Naturals, Sequences

CONSTANTS NBlocks,   \* bound on the blocks ever produced
          MaxChain   \* bound on the blocks one Put appends

VARIABLES queue,     \* the queued blocks, oldest first
          produced,  \* how many blocks were created: they are 1..produced
          got        \* the last block a reader took, 0 before the first

qvars == <<queue, produced, got>>

QInit == queue = <<>> /\ produced = 0 /\ got = 0

\* The blocks first..first+n-1, in that order.
Chain(first, n) == [i \in 1..n |-> first + i - 1]

PutChain(n) ==
    /\ produced + n <= NBlocks
    /\ queue' = queue \o Chain(produced + 1, n)
    /\ produced' = produced + n
    /\ UNCHANGED got

Take ==
    /\ queue # <<>>
    /\ got' = Head(queue)
    /\ queue' = Tail(queue)
    /\ UNCHANGED produced

Clear ==
    /\ queue' = <<>>
    /\ UNCHANGED <<produced, got>>

QNext == (\E n \in 1..MaxChain : PutChain(n)) \/ Take \/ Clear

QSpec == QInit /\ [][QNext]_qvars
=============================================================================
