----------------------- MODULE DistributedLockProofs -----------------------
(***************************************************************************)
(* What is proved of the lock table for every number of clients, owners    *)
(* and keys and every length of the lease.  The two safety results assume  *)
(* transactions that cannot commit on a stale snapshot (SQLite, or a       *)
(* stricter isolation level than the PostgreSQL default); mutual exclusion *)
(* also assumes one client per owner, because ReleaseLock and AcquireLock  *)
(* recognise the holder by its owner alone.                                *)
(***************************************************************************)
EXTENDS DistributedLock, TLAPS

LEMMA InitTypeOK == Init => TypeOK
  BY LockAssumption DEF Init, TypeOK

\* No statement of the lock's code leaves the types of its columns.
LEMMA NextTypeOK == TypeOK /\ [Next]_vars => TypeOK'
<1> SUFFICES ASSUME TypeOK, [Next]_vars
             PROVE  TypeOK'
  OBVIOUS
<1> USE LockAssumption, NoRowAssumption
<1>1. ASSUME NEW c \in Clients, NEW k \in Keys, CleanupExpiredLocks(c, k)
      PROVE  TypeOK'
  BY <1>1 DEF TypeOK, CleanupExpiredLocks
<1>2. ASSUME NEW c \in Clients, ReadRow(c)
      PROVE  TypeOK'
  <2>1. PICK t \in stamp[c] .. now : stamp' = [stamp EXCEPT ![c] = t + TTL]
    BY <1>2 DEF ReadRow
  <2>2. t + TTL \in Nat
    BY DEF TypeOK
  <2> QED
    BY <1>2, <2>1, <2>2 DEF TypeOK, ReadRow
<1>3. ASSUME NEW c \in Clients, Acquire(c)
      PROVE  TypeOK'
  <2>1. PICK i \in Ids :
          rows' = [rows EXCEPT ![key[c]] =
            [id |-> i, owner |-> OwnerOf[c], expires |-> stamp[c], deleted |-> FALSE]]
    BY <1>3 DEF Acquire
  <2>2. [id |-> i, owner |-> OwnerOf[c], expires |-> stamp[c], deleted |-> FALSE] \in Rows
    BY DEF TypeOK, Rows
  <2>3. rows' \in [Keys -> Rows \cup {NoRow}]
    BY <2>1, <2>2 DEF TypeOK
  <2> QED
    BY <1>3, <2>3 DEF TypeOK, Acquire
<1>4. ASSUME NEW c \in Clients, AcquireFails(c)
      PROVE  TypeOK'
  BY <1>4 DEF TypeOK, AcquireFails
<1>5. ASSUME NEW c \in Clients, ReleaseLock(c)
      PROVE  TypeOK'
  <2>1. ASSUME Current(c) # NoRow
        PROVE  [Current(c) EXCEPT !.deleted = TRUE] \in Rows
    BY <2>1 DEF TypeOK, Current, Rows
  <2>2. rows' \in [Keys -> Rows \cup {NoRow}]
    BY <1>5, <2>1 DEF TypeOK, ReleaseLock
  <2> QED
    BY <1>5, <2>2 DEF TypeOK, ReleaseLock
<1>6. ASSUME NEW c \in Clients, ReleaseFails(c)
      PROVE  TypeOK'
  BY <1>6 DEF TypeOK, ReleaseFails
<1>7. CASE Tick
  BY <1>7 DEF TypeOK, Tick
<1>8. CASE UNCHANGED vars
  BY <1>8 DEF TypeOK, vars
<1> QED
  BY <1>1, <1>2, <1>3, <1>4, <1>5, <1>6, <1>7, <1>8 DEF Next

\* Every reachable state of the lock table is well typed (lock.go).
THEOREM TypeCorrect == Spec => []TypeOK
<1>1. Init => TypeOK
  BY InitTypeOK
<1>2. TypeOK /\ [Next]_vars => TypeOK'
  BY NextTypeOK
<1> QED
  BY <1>1, <1>2, PTL DEF Spec

-----------------------------------------------------------------------------
(* A transaction that commits found the row it writes over as it is. *)

\* What a committing AcquireLock replaces counted for nobody else.
LEMMA AcquireTakesFreeOrOwn ==
  ASSUME Serializable, TypeOK, NEW c \in Clients, Acquire(c)
  PROVE  /\ Live(Current(c)) => Current(c).owner = OwnerOf[c]
         /\ \E i \in Ids : rows' = [rows EXCEPT ![key[c]] =
              [id |-> i, owner |-> OwnerOf[c], expires |-> stamp[c], deleted |-> FALSE]]
<1>1. Current(c) = seen[c]
  BY DEF Acquire, CanCommit
<1>2. PICK i \in Ids :
        /\ NewId(c, i)
        /\ rows' = [rows EXCEPT ![key[c]] =
             [id |-> i, owner |-> OwnerOf[c], expires |-> stamp[c], deleted |-> FALSE]]
  BY DEF Acquire
<1>3. CASE MayCreate(c)
  BY <1>1, <1>2, <1>3 DEF MayCreate, Live
<1>4. CASE MayReplace(c)
  BY <1>1, <1>2, <1>4 DEF MayReplace, Live
<1>5. CASE MayUpdate(c)
  <2>1. CASE Expired(seen[c])
    <3>1. seen[c].expires \in Nat /\ now \in Nat
      BY <1>5 DEF TypeOK, Rows, MayUpdate
    <3>2. ~Live(Current(c))
      BY <1>1, <2>1, <3>1 DEF Expired, Live
    <3> QED
      BY <1>2, <3>2
  <2>2. CASE seen[c].owner = OwnerOf[c]
    BY <1>1, <1>2, <2>2
  <2> QED
    BY <1>5, <2>1, <2>2 DEF MayUpdate
<1> QED
  BY <1>2, <1>3, <1>4, <1>5 DEF NewId

-----------------------------------------------------------------------------
(* Mutual exclusion *)

\* A client that holds a lock has its lease in the table, unharmed.
Backed(c) ==
  Holds(c) =>
    /\ rows[key[c]] # NoRow
    /\ ~rows[key[c]].deleted
    /\ rows[key[c]].owner = OwnerOf[c]
    /\ rows[key[c]].expires = stamp[c]

LockInv == TypeOK /\ \A c \in Clients : Backed(c)

OneClientPerOwner == \A c, d \in Clients : OwnerOf[c] = OwnerOf[d] => c = d

LEMMA NextBacked ==
  ASSUME Serializable, OneClientPerOwner, LockInv, [Next]_vars, NEW d \in Clients
  PROVE  Backed(d)'
<1> USE LockAssumption, NoRowAssumption
<1> TypeOK
  BY DEF LockInv
<1> SUFFICES ASSUME Holds(d)'
             PROVE  /\ rows'[key'[d]] # NoRow
                    /\ ~rows'[key'[d]].deleted
                    /\ rows'[key'[d]].owner = OwnerOf[d]
                    /\ rows'[key'[d]].expires = stamp'[d]
  BY DEF Backed
<1>0. Backed(d)
  BY DEF LockInv
<1>1. ASSUME NEW c \in Clients, NEW k \in Keys, CleanupExpiredLocks(c, k)
      PROVE  Backed(d)'
  <2>1. c # d
    BY <1>1 DEF CleanupExpiredLocks, Holds, TypeOK
  <2>2. Holds(d) /\ key'[d] = key[d] /\ stamp'[d] = stamp[d]
    BY <1>1, <2>1 DEF CleanupExpiredLocks, Holds, TypeOK
  <2>3. rows'[key[d]] = rows[key[d]]
    BY <1>0, <1>1, <2>2 DEF CleanupExpiredLocks, Backed, Holds, Expired, TypeOK
  <2> QED
    BY <1>0, <2>2, <2>3 DEF Backed
<1>2. ASSUME NEW c \in Clients, ReadRow(c)
      PROVE  Backed(d)'
  BY <1>0, <1>2 DEF ReadRow, Backed, Holds, TypeOK
<1>3. ASSUME NEW c \in Clients, Acquire(c)
      PROVE  Backed(d)'
  <2>1. PICK i \in Ids : rows' = [rows EXCEPT ![key[c]] =
          [id |-> i, owner |-> OwnerOf[c], expires |-> stamp[c], deleted |-> FALSE]]
    BY <1>3, AcquireTakesFreeOrOwn
  <2>2. key' = key /\ stamp' = stamp /\ now' = now
    BY <1>3 DEF Acquire
  <2>3. CASE d = c
    <3>1. rows'[key'[c]] =
            [id |-> i, owner |-> OwnerOf[c], expires |-> stamp[c], deleted |-> FALSE]
      BY <2>1, <2>2 DEF TypeOK
    <3>2. rows'[key'[c]] \in Rows
      BY <3>1 DEF TypeOK, Rows
    <3>3. rows'[key'[c]] # NoRow
      BY <3>2
    <3> QED
      BY <2>2, <2>3, <3>1, <3>3 DEF Backed
  <2>4. CASE d # c
    <3>1. Holds(d)
      BY <1>3, <2>2, <2>4 DEF Acquire, Holds, TypeOK
    <3>2. key[d] # key[c]
      <4>1. SUFFICES ASSUME key[d] = key[c] PROVE FALSE
        OBVIOUS
      <4>2. Live(Current(c))
        BY <1>0, <3>1, <4>1 DEF Backed, Holds, Live, Current, TypeOK
      <4>3. Current(c).owner = OwnerOf[c]
        BY <1>3, <4>2, AcquireTakesFreeOrOwn
      <4> QED
        BY <1>0, <2>4, <3>1, <4>1, <4>3 DEF Backed, Current, OneClientPerOwner
    <3> QED
      BY <1>0, <2>1, <2>2, <3>1, <3>2 DEF Backed, TypeOK
  <2> QED
    BY <2>3, <2>4
<1>4. ASSUME NEW c \in Clients, AcquireFails(c)
      PROVE  Backed(d)'
  BY <1>0, <1>4 DEF AcquireFails, Backed, Holds, TypeOK
<1>5. ASSUME NEW c \in Clients, ReleaseLock(c)
      PROVE  Backed(d)'
  <2>1. c # d
    BY <1>5 DEF ReleaseLock, Holds, TypeOK
  <2>2. Holds(d) /\ key'[d] = key[d] /\ stamp'[d] = stamp[d]
    BY <1>5, <2>1 DEF ReleaseLock, Holds, TypeOK
  <2>3. rows'[key[d]] = rows[key[d]]
    <3>1. CASE key[d] = key[c]
      <4>1. Current(c).owner # OwnerOf[c]
        BY <1>0, <2>1, <2>2, <3>1 DEF Backed, Current, OneClientPerOwner
      <4> QED
        BY <1>5, <4>1 DEF ReleaseLock
    <3>2. CASE key[d] # key[c]
      BY <1>5, <3>2 DEF ReleaseLock, TypeOK
    <3> QED
      BY <3>1, <3>2
  <2> QED
    BY <1>0, <2>2, <2>3 DEF Backed
<1>6. ASSUME NEW c \in Clients, ReleaseFails(c)
      PROVE  Backed(d)'
  BY <1>0, <1>6 DEF ReleaseFails, Backed, Holds, TypeOK
<1>7. CASE Tick
  BY <1>0, <1>7 DEF Tick, Backed, Holds, TypeOK
<1>8. CASE UNCHANGED vars
  BY <1>0, <1>8 DEF vars, Backed, Holds
<1> QED
  BY <1>1, <1>2, <1>3, <1>4, <1>5, <1>6, <1>7, <1>8 DEF Next, Backed

\* With transactions that do not commit on a stale read and one client per
\* owner, no two clients believe they have one lock: no interleaving of
\* cleanups, takeovers, revivals of deleted rows and releases breaks
\* MutualExclusion (AcquireLock, ReleaseLock and cleanupExpiredLocks, lock.go).
THEOREM LockIsExclusive ==
  ASSUME Serializable, OneClientPerOwner
  PROVE  Spec => []MutualExclusion
<1>1. Init => LockInv
  BY InitTypeOK DEF Init, LockInv, Backed, Holds
<1>2. LockInv /\ [Next]_vars => LockInv'
  BY NextTypeOK, NextBacked DEF LockInv
<1>3. LockInv => MutualExclusion
  BY DEF LockInv, Backed, MutualExclusion
<1> QED
  BY <1>1, <1>2, <1>3, PTL DEF Spec

-----------------------------------------------------------------------------
(* Refinement of the lease lock *)

\* The holder the lease lock sees.
HolderNow == [k \in Keys |-> IF Live(rows[k]) THEN rows[k].owner ELSE NoOwner]

\* The actions of the lease lock, spelt out for this refinement mapping.
LEMMA LeaseSteps ==
  /\ \A k \in Keys, o \in Owners :
       /\ HolderNow[k] \in {NoOwner, o}
       /\ HolderNow' = [HolderNow EXCEPT ![k] = o]
       => Lease!Next
  /\ \A k \in Keys, o \in Owners :
       HolderNow' = [HolderNow EXCEPT ![k] = IF @ = o THEN NoOwner ELSE @] => Lease!Next
  /\ \A S \in SUBSET Keys :
       HolderNow' = [k \in Keys |-> IF k \in S THEN NoOwner ELSE HolderNow[k]] => Lease!Next
  BY DEF HolderNow, Lease!Next, Lease!Grant, Lease!Free, Lease!Lapse

\* Every statement of AcquireLock and ReleaseLock, and the clock, is a step of
\* the lease lock or changes nothing it sees.
LEMMA NextRefines ==
  ASSUME Serializable, TypeOK, [Next]_vars
  PROVE  Lease!Next \/ HolderNow' = HolderNow
<1> USE LockAssumption, NoRowAssumption
<1>1. ASSUME NEW c \in Clients, NEW k \in Keys, CleanupExpiredLocks(c, k)
      PROVE  HolderNow' = HolderNow
  <2>1. ASSUME NEW j \in Keys
        PROVE  (IF Live(rows[j]) THEN rows[j].owner ELSE NoOwner)'
                 = IF Live(rows[j]) THEN rows[j].owner ELSE NoOwner
    BY <1>1 DEF CleanupExpiredLocks, Live, Expired, TypeOK, Rows
  <2> QED
    BY <2>1 DEF HolderNow
<1>2. ASSUME NEW c \in Clients, Acquire(c)
      PROVE  Lease!Next
  <2> DEFINE k == key[c]
  <2>1. PICK i \in Ids : rows' = [rows EXCEPT ![k] =
          [id |-> i, owner |-> OwnerOf[c], expires |-> stamp[c], deleted |-> FALSE]]
    BY <1>2, AcquireTakesFreeOrOwn
  <2>2. k \in Keys /\ OwnerOf[c] \in Owners /\ now' = now
    BY <1>2 DEF Acquire, TypeOK
  <2>3. rows'[k] = [id |-> i, owner |-> OwnerOf[c], expires |-> stamp[c], deleted |-> FALSE]
    BY <2>1, <2>2 DEF TypeOK
  <2>4. rows'[k] \in Rows
    BY <2>3, <2>2 DEF TypeOK, Rows
  <2>5. \A j \in Keys \ {k} : rows'[j] = rows[j]
    BY <2>1 DEF TypeOK
  <2>6. HolderNow[k] \in {NoOwner, OwnerOf[c]}
    BY <1>2, <2>2, AcquireTakesFreeOrOwn DEF HolderNow, Current
  <2>7. CASE stamp[c] >= now
    <3>1. HolderNow'[k] = OwnerOf[c]
      BY <2>2, <2>3, <2>4, <2>7 DEF HolderNow, Live
    <3>2. HolderNow' = [HolderNow EXCEPT ![k] = OwnerOf[c]]
      BY <2>2, <2>5, <3>1 DEF HolderNow, Live
    <3> QED
      BY <2>2, <2>6, <3>2, LeaseSteps
  <2>8. CASE ~(stamp[c] >= now)
    <3>1. HolderNow'[k] = NoOwner
      BY <2>2, <2>3, <2>8 DEF HolderNow, Live
    <3>2. HolderNow' = [j \in Keys |-> IF j \in {k} THEN NoOwner ELSE HolderNow[j]]
      BY <2>2, <2>5, <3>1 DEF HolderNow, Live
    <3>3. {k} \in SUBSET Keys
      BY <2>2
    <3> QED
      BY ONLY <3>2, <3>3, LeaseSteps
  <2> QED
    BY <2>7, <2>8
<1>3. ASSUME NEW c \in Clients, ReleaseLock(c)
      PROVE  Lease!Next \/ HolderNow' = HolderNow
  <2> DEFINE k == key[c]
  <2>1. k \in Keys /\ OwnerOf[c] \in Owners /\ now' = now
    BY <1>3 DEF ReleaseLock, TypeOK
  <2>2. CASE rows[k] # NoRow /\ ~rows[k].deleted /\ rows[k].owner = OwnerOf[c]
    <3>1. rows' = [rows EXCEPT ![k] = [rows[k] EXCEPT !.deleted = TRUE]]
      BY <1>3, <2>2 DEF ReleaseLock, Current
    <3>2. rows'[k].deleted /\ \A j \in Keys \ {k} : rows'[j] = rows[j]
      BY <2>1, <2>2, <3>1 DEF TypeOK, Rows
    <3>3. HolderNow[k] \in {NoOwner, OwnerOf[c]}
      BY <2>1, <2>2 DEF HolderNow
    <3>4. HolderNow'[k] = NoOwner
      BY <2>1, <3>2 DEF HolderNow, Live
    <3>5. HolderNow' = [HolderNow EXCEPT ![k] = IF @ = OwnerOf[c] THEN NoOwner ELSE @]
      BY <2>1, <3>2, <3>3, <3>4 DEF HolderNow, Live
    <3> QED
      BY <2>1, <3>5, LeaseSteps
  <2>3. CASE ~(rows[k] # NoRow /\ ~rows[k].deleted /\ rows[k].owner = OwnerOf[c])
    <3>1. rows' = rows
      BY <1>3, <2>3 DEF ReleaseLock, Current
    <3> QED
      BY <2>1, <3>1 DEF HolderNow, Live
  <2> QED
    BY <2>2, <2>3
<1>4. ASSUME Tick
      PROVE  Lease!Next
  <2> DEFINE S == {k \in Keys : ~Live(rows[k])'}
  <2>1. rows' = rows /\ now' = now + 1 /\ now \in Nat
    BY <1>4 DEF Tick, TypeOK
  <2>2. ASSUME NEW k \in Keys, Live(rows[k])'
        PROVE  Live(rows[k])
    BY <2>1, <2>2 DEF Live, TypeOK, Rows
  <2>3. HolderNow' = [k \in Keys |-> IF k \in S THEN NoOwner ELSE HolderNow[k]]
    BY <2>1, <2>2 DEF HolderNow
  <2> HIDE DEF S
  <2>4. S \in SUBSET Keys
    BY DEF S
  <2> QED
    BY <2>3, <2>4, LeaseSteps
<1>5. ASSUME NEW c \in Clients, ReadRow(c) \/ AcquireFails(c) \/ ReleaseFails(c)
      PROVE  HolderNow' = HolderNow
  BY <1>5 DEF ReadRow, AcquireFails, ReleaseFails, HolderNow, Live
<1>6. CASE UNCHANGED vars
  BY <1>6 DEF vars, HolderNow, Live
<1> QED
  BY <1>1, <1>2, <1>3, <1>4, <1>5, <1>6 DEF Next

\* The lock table implements the lease lock PermanentStore relies on, for any
\* number of clients under one owner: a row that counts passes to another
\* owner only after a release or its expiry (lock.go).
THEOREM LockRefinesLease ==
  ASSUME Serializable
  PROVE  Spec => ImplementsLease
<1>1. Init => Lease!Init
  BY DEF Init, Lease!Init, Live
<1>2. TypeOK /\ [Next]_vars => [Lease!Next]_HolderNow
  BY NextRefines
<1>3. HolderNow = [k \in Keys |-> IF Live(rows[k]) THEN rows[k].owner ELSE NoOwner]
  BY DEF HolderNow
<1> QED
  BY <1>1, <1>2, TypeCorrect, PTL DEF Spec, ImplementsLease, Lease!Spec, HolderNow
=============================================================================
