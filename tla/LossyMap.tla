------------------------------ MODULE LossyMap ------------------------------
(***************************************************************************)
(* What a caller of mmt/cache.py may rely on: a map that may lose an entry *)
(* at any time but never shows a value that was replaced, that was put     *)
(* under another key, or whose time to live has run out.                   *)
(***************************************************************************)
EXTENDS Naturals

CONSTANTS Key, Value, Ttl, None

VARIABLES store,  \* what a get of each key would return, and for how long
          got     \* what the last get returned

LossyInit == store = [k \in Key |-> None] /\ got = None

\* `after' is `before' with entries missing.
Loses(before, after) == \A k \in Key : after[k] \in {before[k], None}

LossyPut(k, v, ttl) ==
    /\ store' \in [Key -> {None, [val |-> v, left |-> ttl]} \cup {store[m] : m \in Key}]
    /\ Loses([store EXCEPT ![k] = [val |-> v, left |-> ttl]], store')
    /\ store'[k] # None
    /\ UNCHANGED got

LossyGet(k) ==
    /\ got' = IF store[k] = None THEN None ELSE store[k].val
    /\ UNCHANGED store

LossyClear == store' = [k \in Key |-> None] /\ UNCHANGED got

LossyTick ==
    /\ store' = [k \in Key |-> IF store[k] = None \/ store[k].left = 0 THEN None
                               ELSE [store[k] EXCEPT !.left = @ - 1]]
    /\ UNCHANGED got

LossyNext == \/ \E k \in Key : LossyGet(k) \/ \E v \in Value, t \in Ttl : LossyPut(k, v, t)
             \/ LossyClear
             \/ LossyTick

LossySpec == LossyInit /\ [][LossyNext]_<<store, got>>

=============================================================================
