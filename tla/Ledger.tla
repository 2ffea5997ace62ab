------------------------------- MODULE Ledger -------------------------------
(***************************************************************************)
(* What the block processing of a node promises to the readers of its      *)
(* store: one chain of blocks that only grows at its end, whose block ids  *)
(* are unique and whose block times increase, a durable prefix of it, and  *)
(* a crash that takes the node back to that durable prefix, never to half  *)
(* a block.                                                                *)
(***************************************************************************)
EXTENDS Naturals

VARIABLES
    height,  \* index of the last block
    chain,   \* index -> block, for 0..height
    saved    \* the chain and the height that are durable

vars == <<height, chain, saved>>

Init ==
    /\ height = 0
    /\ DOMAIN chain = {0}
    /\ saved = [height |-> height, chain |-> chain]

Extend ==
    /\ height' = height + 1
    /\ DOMAIN chain' = 0..height'
    /\ \A i \in 0..height : chain'[i] = chain[i]
    /\ chain'[height'].Time > chain[height].Time
    /\ \A i \in 0..height : chain'[height'].Atropos # chain[i].Atropos
    /\ UNCHANGED saved

Persist ==
    /\ saved' = [height |-> height, chain |-> chain]
    /\ UNCHANGED <<height, chain>>

Recover ==
    /\ height' = saved.height
    /\ chain' = saved.chain
    /\ UNCHANGED saved

Next == Extend \/ Persist \/ Recover

Spec == Init /\ [][Next]_vars
=============================================================================
