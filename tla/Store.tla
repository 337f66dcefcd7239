------------------------------- MODULE Store --------------------------------
(***************************************************************************)
(* keychainserver/store: what every driver promises of one call.            *)
(*                                                                         *)
(* The three tables are functions from the IDs that exist to rows.  A       *)
(* mutating call is a pure operator that takes the tables it reads and      *)
(* returns the table it changes together with the error it reports; a       *)
(* lookup returns the rows it finds.  Fresh IDs (uuid.NewString) are an     *)
(* argument: the caller of the operator picks an ID never used before.      *)
(* UpdatedAt, names, owners and metadata are left to the driver modules.    *)
(***************************************************************************)
EXTENDS KeyMat, Integers

CONSTANTS WorkspaceIDs, APIIDs, KeyIDs,
          Permissions,          \* permission strings
          LimitIDs,             \* rate-limiter limits a LimitRef can name
          Nil                   \* a nil pointer, an absent ID

ASSUME NilAssumption ==
    /\ Nil \notin Int
    /\ Nil \notin WorkspaceIDs \cup APIIDs \cup KeyIDs

Errs == {"nil", "ErrNotFound", "ErrConflict", "ErrDepleted", "err"}

\* time.Time values, and *time.Time values.
Time == Nat
TimePtr == Time \cup {Nil}

API == [workspace : WorkspaceIDs, prefix : Prefixes]

\* RemainingUses < 0 (written as -1 by the server) means unlimited.
Key == [api : APIIDs, workspace : WorkspaceIDs, hash : Hashes,
        permissions : SUBSET Permissions, limitRefs : SUBSET LimitIDs,
        expiresAt : TimePtr, remaining : Nat \cup {-1}, enabled : BOOLEAN,
        lastVerifiedAt : TimePtr]

EmptyTable == [id \in {} |-> Nil]

Put(table, id, row) ==
    [i \in DOMAIN table \cup {id} |-> IF i = id THEN row ELSE table[i]]

Result(table, err) == [table |-> table, err |-> err]

\* What ListKeys finds of one API.  Owner, order, page size and token are
\* module Listing's.
KeysOf(keys, api) == [id \in {i \in DOMAIN keys : keys[i].api = api} |-> keys[id]]

-----------------------------------------------------------------------------
\* Mutant: the parent workspace is not looked up.
OrphanAPIResult(workspaces, apis, id, a) == Result(Put(apis, id, a), "nil")

CreateAPIResult(workspaces, apis, id, a) ==
    IF a.workspace \notin workspaces
    THEN Result(apis, "ErrNotFound")
    ELSE Result(Put(apis, id, a), "nil")

\* The at most one key whose KeyHash is h.
KeysWithHash(keys, h) == {id \in DOMAIN keys : keys[id].hash = h}

CreateKeyResult(apis, keys, id, k) ==
    IF k.api \notin DOMAIN apis THEN Result(keys, "ErrNotFound")
    ELSE IF KeysWithHash(keys, k.hash) # {} THEN Result(keys, "ErrConflict")
    ELSE Result(Put(keys, id, k), "nil")

\* Mutant: a second revocation undoes the first.
ToggleKeyResult(keys, id) ==
    IF id \notin DOMAIN keys
    THEN Result(keys, "ErrNotFound")
    ELSE Result([keys EXCEPT ![id].enabled = ~@], "nil")

RevokeKeyResult(keys, id) ==
    IF id \notin DOMAIN keys
    THEN Result(keys, "ErrNotFound")
    ELSE Result([keys EXCEPT ![id].enabled = FALSE], "nil")

\* Mutant: no unique index on the hash.
RotateUnchecked(keys, id, newHash) ==
    IF id \notin DOMAIN keys THEN Result(keys, "ErrNotFound")
    ELSE Result([keys EXCEPT ![id].hash = newHash], "nil")

\* Mutant: the rotated key is written back as a new, enabled one.
RotateEnables(keys, id, newHash) ==
    IF id \notin DOMAIN keys THEN Result(keys, "ErrNotFound")
    ELSE Result([keys EXCEPT ![id].hash = newHash, ![id].enabled = TRUE], "nil")

\* Another key may not have the new hash; the key itself may.
RotateKeyResult(keys, id, newHash) ==
    IF id \notin DOMAIN keys THEN Result(keys, "ErrNotFound")
    ELSE IF KeysWithHash(keys, newHash) \ {id} # {}
         THEN Result(keys, "ErrConflict")
    ELSE Result([keys EXCEPT ![id].hash = newHash], "nil")

TouchLastVerifiedResult(keys, id, at) ==
    IF id \notin DOMAIN keys
    THEN Result(keys, "ErrNotFound")
    ELSE Result([keys EXCEPT ![id].lastVerifiedAt = at], "nil")

\* Mutant: no "AND remaining_uses > 0".
DecrementUnguarded(keys, id) ==
    IF id \notin DOMAIN keys THEN Result(keys, "ErrNotFound")
    ELSE Result([keys EXCEPT ![id].remaining = @ - 1], "nil")

\* Mutant: the last credit is taken and reported as missing.
DecrementOffByOne(keys, id) ==
    IF id \notin DOMAIN keys THEN Result(keys, "ErrNotFound")
    ELSE IF keys[id].remaining <= 0 THEN Result(keys, "ErrDepleted")
    ELSE Result([keys EXCEPT ![id].remaining = @ - 1],
                IF keys[id].remaining = 1 THEN "ErrDepleted" ELSE "nil")

DecrementRemainingUsesResult(keys, id) ==
    IF id \notin DOMAIN keys THEN Result(keys, "ErrNotFound")
    ELSE IF keys[id].remaining < 0 THEN Result(keys, "nil")
    ELSE IF keys[id].remaining = 0 THEN Result(keys, "ErrDepleted")
    ELSE Result([keys EXCEPT ![id].remaining = @ - 1], "nil")

=============================================================================
