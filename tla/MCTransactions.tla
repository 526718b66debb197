--------------------------- MODULE MCTransactions ---------------------------
(* Small instances of Transactions for TLC: two clients. *)
EXTENDS Transactions, TLC

CONSTANTS c1, c2, k1, k2, v1, none, idle

MCIds == c1 :> 1 @@ c2 :> 2        \* every connection has an id of its own
MCSharedIds == c1 :> 1 @@ c2 :> 1  \* one TCP and one WebSocket connection

KeyOps == {"set", "refuse", "del", "rename", "flushdb", "flushall"}
DbOps == {"set", "flushdb", "swapdb", "select", "unwatch", "reset"}
SwapOps == {"set", "swapdb", "flushdb"}
=============================================================================
