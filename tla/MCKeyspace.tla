---------------------------- MODULE MCKeyspace ----------------------------
(* Small instances of Keyspace for TLC: two keys, the second with a longer *)
(* name, so that RENAME both grows and shrinks the dataset.                *)
EXTENDS Keyspace, TLC

CONSTANTS k1, k2, e1, e2

MCKey == {k1, k2}
MCElem == {e1, e2}
MCKeyCost == k1 :> 1 @@ k2 :> 2
MCOneElem == {e1}
ElemSymmetry == Permutations(MCElem)

\* `last` only records what the latest operation did and no action reads it, so
\* states that differ in it alone are one; action properties are still checked
\* on every step generated.
StoreView == <<maxmemory, policy, data, keyMemories, usedMemory, timers, lru>>

\* The operations that keep their books exactly, and those that may evict.
Sound == {"set", "mset", "push", "rem", "hset", "sadd", "zadd", "del", "expire",
          "persist", "rename", "scan", "flushdb", "flushall", "swapdb", "sweep"}
Evicting == {"set", "incr", "push", "lset", "lrem", "rem", "zaddxx", "expire", "rename",
             "get", "del", "sweep"}
=============================================================================
