----------------------------- MODULE LeaseLock -----------------------------
(***************************************************************************)
(* What pkg/server/persistence/lock.go promises to its callers, with the   *)
(* clock, the table and the transaction left out: every key has at most    *)
(* one holder, a key that is held is granted to nobody but its holder, and *)
(* it becomes free again when the holder frees it or when its lease runs   *)
(* out.  DistributedLock implements this specification; PermanentStore     *)
(* uses its actions as the lock its workers take.                          *)
(***************************************************************************)
CONSTANTS Keys,     \* lock keys
          Owners,   \* identities a lock can be taken under (one per process)
          NoOwner   \* the holder of a free key

VARIABLE holder     \* who holds each key

TypeOK == holder \in [Keys -> Owners \cup {NoOwner}]

Init == holder = [k \in Keys |-> NoOwner]

\* o takes the key, or extends the lease it already has on it.
Grant(o, k) ==
  /\ holder[k] \in {NoOwner, o}
  /\ holder' = [holder EXCEPT ![k] = o]

\* o gives the key back; a key o does not hold is left alone.
Free(o, k) ==
  holder' = [holder EXCEPT ![k] = IF @ = o THEN NoOwner ELSE @]

\* The leases on the keys in S run out.
Lapse(S) == holder' = [k \in Keys |-> IF k \in S THEN NoOwner ELSE holder[k]]

Next ==
  \/ \E k \in Keys, o \in Owners : Grant(o, k) \/ Free(o, k)
  \/ \E S \in SUBSET Keys : Lapse(S)

Spec == Init /\ [][Next]_holder
=============================================================================
