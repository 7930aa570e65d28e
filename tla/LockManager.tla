---------------------------- MODULE LockManager ----------------------------
(***************************************************************************)
(* Distributed locks in Redis: SET NX PX with a random token to acquire, a *)
(* compare-and-delete script to release.  A lock disappears when its time  *)
(* to live runs out: renewal happens at half the time to live, but an      *)
(* error of the renewal is only logged, and a lock without renewal runs    *)
(* out under a slow holder.                                                *)
(***************************************************************************)
CONSTANTS
  Keys,        \* lock names
  Tokens,      \* one per acquisition in progress
  None         \* no value under the key

ASSUME NoneAssumption == None \notin Tokens

VARIABLES
  owner        \* the token under each key

LockTypeOK == owner \in [Keys -> Tokens \cup {None}]

LockInit == owner = [k \in Keys |-> None]

Free(k) == owner[k] = None

Acquire(k, t) ==
  /\ Free(k)
  /\ owner' = [owner EXCEPT ![k] = t]

\* Safe to call without owning the lock any more.
CompareAndDelete(k, t) ==
  owner' = [owner EXCEPT ![k] = IF @ = t THEN None ELSE @]
Delete(k, t) ==
  owner' = [owner EXCEPT ![k] = None]
Release(k, t) == CompareAndDelete(k, t)

Expire(k) ==
  /\ ~Free(k)
  /\ owner' = [owner EXCEPT ![k] = None]
=============================================================================
