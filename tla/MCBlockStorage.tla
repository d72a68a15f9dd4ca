--------------------------- MODULE MCBlockStorage ---------------------------
EXTENDS BlockStorage, TLC

CONSTANTS g, b1, f1, b2, r1

\* A genesis block, a block 1 and a fork f1 of it, and a block 2.
MCBlocks == {g, b1, f1, b2}
MCNumber == (g :> 0) @@ (b1 :> 1) @@ (f1 :> 1) @@ (b2 :> 2)

\* One reader: readers only get, so what one reader sees is the same with
\* any number of them.
MCReaders == {r1}

\* Transaction ids of 0 to 3 two-byte hashes, one vector per block.
H1 == <<0, 1>>
H2 == <<1, 1>>
MCTxnIds == (g :> <<>>) @@ (b1 :> <<H1>>) @@ (f1 :> <<H1, H2>>) @@ (b2 :> <<H2, H1, H1>>)
=============================================================================
