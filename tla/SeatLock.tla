------------------------------ MODULE SeatLock ------------------------------
(***************************************************************************)
(* The Redis lock manager of backend/internal/lock/redis.go.  One key per  *)
(* seat; a key's value is the ownership string <hold>:<user>:<token>, which *)
(* is unique to a hold, so the hold stands for it.  Each Lua script runs as *)
(* one step of Redis, and so is one action here.                           *)
(***************************************************************************)
EXTENDS Naturals

CONSTANTS
    Seats,   \* the materialised seats of one showtime (each has one key)
    Owners,  \* the holds whose ownership strings keys can carry
    TTL,     \* SEAT_LOCK_TTL, in clock units
    None     \* the value of an absent field

ASSUME TTLAssumption == TTL \in Nat \ {0}
ASSUME NoneIsNoOwner == None \notin Owners

VARIABLE locks  \* locks[s]: who owns the key of s, and when Redis drops it

LockKey == [owner: Owners \cup {None}, until: Nat]
NoKey == [owner |-> None, until |-> 0]

LocksTypeOK == locks \in [Seats -> LockKey]

LocksInit == locks = [s \in Seats |-> NoKey]

\* EXISTS is 0 for every key of S.
KeysFree(S) == \A s \in S : locks[s] = NoKey

\* The outcome of verifyScript: every key of S still carries o.
KeysOwned(S, o) == \A s \in S : locks[s].owner = o

\* acquireScript once every key was found free: PSETEX on each.
AcquireKeys(S, o, now) ==
    locks' = [s \in Seats |-> IF s \in S THEN [owner |-> o, until |-> now + TTL]
                                         ELSE locks[s]]

\* Mutant: an unconditional DEL.
ReleaseKeys_AnyOwner(S, o) ==
    locks' = [s \in Seats |-> IF s \in S THEN NoKey ELSE locks[s]]

\* releaseScript: DEL exactly the keys of S whose value is still o.
ReleaseKeys(S, o) ==
    locks' = [s \in Seats |-> IF s \in S /\ locks[s].owner = o THEN NoKey ELSE locks[s]]

\* Redis drops every key whose deadline has been reached.
DropExpiredKeys(now) ==
    locks' = [s \in Seats |-> IF locks[s].until <= now THEN NoKey ELSE locks[s]]

\* A Redis restart may forget recent writes: appendfsync is everysec.
LoseKeys(S) ==
    locks' = [s \in Seats |-> IF s \in S THEN NoKey ELSE locks[s]]
=============================================================================
