------------------------------ MODULE MCTxPool ------------------------------
(* Instances of TxPool for TLC. *)
EXTENDS TxPool

CONSTANTS a, b, c

T(from, nonce, price, cost) == [from |-> from, nonce |-> nonce, price |-> price, cost |-> cost]

MCTx == {T(a, 0, 1, 1), T(a, 0, 3, 2), T(a, 1, 2, 1), T(a, 2, 1, 2), T(b, 0, 2, 1)}
\* Two nonces, a replacement and another account, for local submissions.
LocalTx == {T(a, 0, 1, 1), T(a, 0, 3, 2), T(a, 1, 2, 1), T(b, 0, 2, 2)}
\* Three accounts with different numbers of transactions.
FairTx == {T(a, 0, 1, 1), T(a, 1, 1, 1), T(a, 2, 1, 1), T(b, 0, 2, 1), T(b, 1, 2, 1),
           T(c, 0, 3, 1)}
=============================================================================
