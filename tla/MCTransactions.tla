--------------------------- MODULE MCTransactions ---------------------------
(* Instances of Transactions for TLC: two workers, where ASYNC_THREADS is 1.*)
EXTENDS Transactions
=============================================================================
