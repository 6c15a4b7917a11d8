------------------------------ MODULE MCIndexer ------------------------------
(* Instances of Indexer for TLC. *)
EXTENDS Indexer, TLC

CONSTANTS transfer, memo, burn, mint

\* A transfer in the first block, a block with two events of which one is a burn, and a
\* mint in the last block.
Chain == (transfer :> 1 @@ memo :> 3 @@ burn :> 3 @@ mint :> 5)
=============================================================================
