-------------------------- MODULE DistributedLock --------------------------
(***************************************************************************)
(* The lock table of pkg/server/persistence/lock.go.  A client is one      *)
(* goroutine that calls AcquireLock and later ReleaseLock; several clients *)
(* may act under one owner, as the ten workers of a server do.             *)
(*                                                                         *)
(* AcquireLock is not one step.  It deletes the expired rows in a          *)
(* statement of its own, takes a time stamp for the new lease, and then    *)
(* runs a transaction that reads the row of the key and writes according   *)
(* to what it read.  Serializable says how much that transaction promises: *)
(* TRUE for SQLite, where a transaction whose snapshot is out of date      *)
(* cannot write; FALSE for PostgreSQL at its default isolation level, READ *)
(* COMMITTED, where each statement of the transaction sees the rows that   *)
(* are committed when it starts, and the SELECT takes no row lock.         *)
(***************************************************************************)
EXTENDS Naturals

CONSTANTS Clients, Owners, OwnerOf,  \* goroutines, and the nodeID each acts under
          Keys, Ids,                 \* lock keys, primary keys of rows
          NoOwner, NoRow,            \* no holder, no row for a key
          TTL,                       \* the lease, in ticks (30 s in the code)
          MaxTime,                   \* bound on the clock
          Serializable

ASSUME LockAssumption ==
  /\ OwnerOf \in [Clients -> Owners]
  /\ NoOwner \notin Owners
  /\ TTL \in Nat /\ MaxTime \in Nat
  /\ Serializable \in BOOLEAN

Rows == [id : Ids, owner : Owners, expires : Nat, deleted : BOOLEAN]

ASSUME NoRowAssumption == NoRow \notin Rows

VARIABLES now,    \* the wall clock all processes read
          rows,   \* row of each key, soft-deleted ones included: the unique index
                  \* on the key allows one
          pc,     \* "idle", "begin", "decide" or "held"
          key,    \* the key each client works on
          stamp,  \* time stamp, then end of the lease the client asks for
          seen    \* the row the client's transaction read

vars == <<now, rows, pc, key, stamp, seen>>

TypeOK ==
  /\ now \in Nat
  /\ rows \in [Keys -> Rows \cup {NoRow}]
  /\ pc \in [Clients -> {"idle", "begin", "decide", "held"}]
  /\ key \in [Clients -> Keys]
  /\ stamp \in [Clients -> Nat]
  /\ seen \in [Clients -> Rows \cup {NoRow}]

Init ==
  /\ now = 0
  /\ rows = [k \in Keys |-> NoRow]
  /\ pc = [c \in Clients |-> "idle"]
  /\ key \in [Clients -> Keys]
  /\ stamp = [c \in Clients |-> 0]
  /\ seen = [c \in Clients |-> NoRow]

\* Mutant: a lease that ends now already counts as expired.
ExpiredEarly(row) == row # NoRow /\ row.expires <= now

Expired(row) == row # NoRow /\ row.expires < now

\* Holding a row that counts: present, not soft-deleted, not expired.
Live(row) == row # NoRow /\ ~row.deleted /\ row.expires >= now

-----------------------------------------------------------------------------
(* AcquireLock *)

\* The statement that hard-deletes every expired row.  The new lease is
\* stamped some time between this statement and the transaction.
CleanupExpiredLocks(c, k) ==
  /\ pc[c] = "idle"
  /\ rows' = [j \in Keys |-> IF Expired(rows[j]) THEN NoRow ELSE rows[j]]
  /\ pc' = [pc EXCEPT ![c] = "begin"]
  /\ key' = [key EXCEPT ![c] = k]
  /\ stamp' = [stamp EXCEPT ![c] = now]
  /\ UNCHANGED <<now, seen>>

\* The transaction's SELECT, which sees soft-deleted rows too.
ReadRow(c) ==
  /\ pc[c] = "begin"
  /\ \E t \in stamp[c] .. now : stamp' = [stamp EXCEPT ![c] = t + TTL]
  /\ seen' = [seen EXCEPT ![c] = rows[key[c]]]
  /\ pc' = [pc EXCEPT ![c] = "decide"]
  /\ UNCHANGED <<now, rows, key>>

\* What the transaction decides from the row it read.
MayCreate(c) == seen[c] = NoRow
MayReplace(c) == seen[c] # NoRow /\ seen[c].deleted
\* Mutant: any row may be taken over, expired or not.
MayUpdateAny(c) == seen[c] # NoRow /\ ~seen[c].deleted

MayUpdate(c) ==
  /\ seen[c] # NoRow /\ ~seen[c].deleted
  /\ Expired(seen[c]) \/ seen[c].owner = OwnerOf[c]

Current(c) == rows[key[c]]
SameRow(c) == Current(c) # NoRow /\ seen[c] # NoRow /\ Current(c).id = seen[c].id

\* Primary keys nobody refers to: as good as the next value of the sequence.
FreshIds ==
  Ids \ ({rows[k].id : k \in {j \in Keys : rows[j] # NoRow}}
         \cup {seen[d].id : d \in {e \in Clients : seen[e] # NoRow}})

\* Create fails on the unique index when the key has a row; the row deleted
\* first is the one with the primary key that was read.  Save updates the row
\* with that primary key, and inserts it again (reviving a soft-deleted one)
\* when the update matches no row.
NewId(c, i) ==
  \/ MayCreate(c)  /\ Current(c) = NoRow /\ i \in FreshIds
  \/ MayReplace(c) /\ (Current(c) = NoRow \/ SameRow(c)) /\ i \in FreshIds
  \/ MayUpdate(c)  /\ (Current(c) = NoRow \/ SameRow(c)) /\ i = seen[c].id

CanCommit(c) == Serializable => Current(c) = seen[c]

\* The transaction commits and AcquireLock returns true.
Acquire(c) ==
  /\ pc[c] = "decide"
  /\ CanCommit(c)
  /\ \E i \in Ids :
       /\ NewId(c, i)
       /\ rows' = [rows EXCEPT ![key[c]] =
            [id |-> i, owner |-> OwnerOf[c], expires |-> stamp[c], deleted |-> FALSE]]
  /\ pc' = [pc EXCEPT ![c] = "held"]
  /\ seen' = [seen EXCEPT ![c] = NoRow]
  /\ UNCHANGED <<now, key, stamp>>

\* AcquireLock returns an error: the lock is somebody else's, a statement
\* failed, or the process died with its transaction open.
AcquireFails(c) ==
  /\ pc[c] \in {"begin", "decide"}
  /\ pc' = [pc EXCEPT ![c] = "idle"]
  /\ seen' = [seen EXCEPT ![c] = NoRow]
  /\ stamp' = [stamp EXCEPT ![c] = 0]
  /\ UNCHANGED <<now, rows, key>>

-----------------------------------------------------------------------------
(* ReleaseLock *)

\* Mutant: the release clears the owner column instead of deleting the row.
ReleaseClearsOwner(c) ==
  /\ pc[c] = "held"
  /\ rows' = IF Current(c) # NoRow THEN [rows EXCEPT ![key[c]].owner = NoOwner] ELSE rows
  /\ pc' = [pc EXCEPT ![c] = "idle"]
  /\ stamp' = [stamp EXCEPT ![c] = 0]
  /\ UNCHANGED <<now, key, seen>>

\* Soft-deletes the row of the key if it carries the caller's owner, expired
\* or not; no row matching is no error.
ReleaseLock(c) ==
  /\ pc[c] = "held"
  /\ LET row == Current(c) IN
       rows' = IF row # NoRow /\ ~row.deleted /\ row.owner = OwnerOf[c]
               THEN [rows EXCEPT ![key[c]] = [row EXCEPT !.deleted = TRUE]]
               ELSE rows
  /\ pc' = [pc EXCEPT ![c] = "idle"]
  /\ stamp' = [stamp EXCEPT ![c] = 0]
  /\ UNCHANGED <<now, key, seen>>

\* The statement fails, or the holder dies: the row stays until it expires.
ReleaseFails(c) ==
  /\ pc[c] = "held"
  /\ pc' = [pc EXCEPT ![c] = "idle"]
  /\ stamp' = [stamp EXCEPT ![c] = 0]
  /\ UNCHANGED <<now, rows, key, seen>>

Tick ==
  /\ now < MaxTime
  /\ now' = now + 1
  /\ UNCHANGED <<rows, pc, key, stamp, seen>>

Next ==
  \/ \E c \in Clients :
       \/ \E k \in Keys : CleanupExpiredLocks(c, k)
       \/ ReadRow(c) \/ Acquire(c) \/ AcquireFails(c)
       \/ ReleaseLock(c) \/ ReleaseFails(c)
  \/ Tick

Spec == Init /\ [][Next]_vars

-----------------------------------------------------------------------------
(* Properties *)

\* A client believes it has the lock until it releases it or the lease it was
\* granted runs out.
Holds(c) == pc[c] = "held" /\ stamp[c] >= now

\* No two clients with different owners believe they have the same lock at
\* the same time, whatever is deleted, revived or taken over in between
\* (AcquireLock, lock.go).  Needs one client per owner: see PermanentStore for
\* what sharing an owner does.
MutualExclusion ==
  \A c, d \in Clients :
    Holds(c) /\ Holds(d) /\ key[c] = key[d] => OwnerOf[c] = OwnerOf[d]

\* The lock table implements the lease lock: a row that counts is its holder.
Lease == INSTANCE LeaseLock WITH
  holder <- [k \in Keys |-> IF Live(rows[k]) THEN rows[k].owner ELSE NoOwner]

\* A row that counts changes owner only through its owner's release or its
\* expiry, for any number of clients per owner and any interleaving of their
\* statements (the transaction of AcquireLock, lock.go).
ImplementsLease == Lease!Spec
=============================================================================
