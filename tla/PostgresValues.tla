--------------------------- MODULE PostgresValues ---------------------------
(***************************************************************************)
(* store/postgres, one call at a time, with what it writes to the columns   *)
(* and reads back from them.  A row is [plain, column]: nothing in it is    *)
(* shared with a caller.                                                    *)
(***************************************************************************)
EXTENDS GoValues, Listing

Times == {"createdAt", "updatedAt", "expiresAt", "lastVerifiedAt"}

\* nonNilStrings: permissions is NOT NULL.
nonNilStrings(in) == IF in = Nil THEN Empty.permissions ELSE in

marshalMetadata(m) == IF m = Nil THEN Empty.metadata ELSE m

unmarshalMetadata(b) == IF b = Empty.metadata THEN Nil ELSE b

\* The arguments of INSERT INTO keys.  limit_refs is JSON, in which a nil
\* slice is null and an empty one [].
Written(f, c) ==
    CASE f = "permissions" -> nonNilStrings(c)
      [] f = "metadata" -> marshalMetadata(c)
      [] f \in Times -> Micro(c)
      [] OTHER -> c

\* Mutant: expires_at is scanned and never copied into the key.
ScannedWithoutExpiry(f, col) ==
    CASE f = "metadata" -> unmarshalMetadata(col)
      [] f = "expiresAt" -> Nil
      [] OTHER -> col

\* Scan, sql.NullTime and json.Unmarshal, into memory of their own.
Scanned(f, col) == IF f = "metadata" THEN unmarshalMetadata(col) ELSE col

Row(plain, contents) ==
    [plain  |-> [f \in DOMAIN plain |-> Written(f, plain[f])],
     column |-> [f \in DOMAIN contents |-> Written(f, contents[f])]]

\* The rows of a result, each in a block of its own.
Read(heap, rows) ==
    LET got == AllocAll(heap, [i \in DOMAIN rows |->
                   [f \in DOMAIN rows[i].column |-> Scanned(f, rows[i].column[f])]])
    IN [heap |-> got.heap,
        out  |-> [i \in DOMAIN rows |-> [plain |-> rows[i].plain, ref |-> got.refs[i]]]]

\* An INSERT: the caller gets its own struct back, ID and times filled in.
Insert(s, table, r) ==
    LET plain == Stamped([r.v.plain EXCEPT !.id = r.id], r.now) IN
    Give(Stored(s, table, r.id, Row(plain, Contents(s.heap, r.v.ref))),
         [plain |-> plain, ref |-> r.v.ref])

\* A SELECT of one row: pgx.ErrNoRows is ErrNotFound.
Select(s, table, ids) ==
    IF ids = {} THEN Refuse(s, "ErrNotFound")
    ELSE LET got == Read(s.heap, <<s[table][CHOOSE id \in ids : TRUE]>>)
         IN Give([s EXCEPT !.heap = got.heap], got.out[1])

Existing(s, table, id) == {id} \cap DOMAIN s[table]

WithHash(s, hash) == {id \in DOMAIN s.keys : s.keys[id].column.hash = hash}

CreateWorkspace(s, r) == Insert(s, "workspaces", r)

GetWorkspace(s, r) == Select(s, "workspaces", Existing(s, "workspaces", r.id))

isFKViolation(s, plain) ==
    \/ plain.workspace \notin DOMAIN s.workspaces
    \/ "api" \in DOMAIN plain /\ plain.api \notin DOMAIN s.apis

CreateAPI(s, r) ==
    IF isFKViolation(s, r.v.plain) THEN Refuse(s, "ErrNotFound")
    ELSE Insert(s, "apis", r)

GetAPI(s, r) == Select(s, "apis", Existing(s, "apis", r.id))

\* The unique index is looked at before the foreign keys.
isUniqueViolation(s, id, hash) == WithHash(s, hash) \ {id} # {}

CreateKey(s, r) ==
    IF isUniqueViolation(s, r.id, Contents(s.heap, r.v.ref).hash)
    THEN Refuse(s, "ErrConflict")
    ELSE IF isFKViolation(s, r.v.plain) THEN Refuse(s, "ErrNotFound")
    ELSE Insert(s, "keys", r)

GetKeyByID(s, r) == Select(s, "keys", Existing(s, "keys", r.id))

GetKeyByHash(s, r) == Select(s, "keys", WithHash(s, r.arg))

\* A revoked key's row is written again.
RevokeKey(s, r) ==
    LET k == s.keys[r.id] IN
    IF r.id \notin DOMAIN s.keys THEN Refuse(s, "ErrNotFound")
    ELSE Done(Stored(s, "keys", r.id, [k EXCEPT !.plain.enabled = FALSE,
                                                !.plain.updatedAt = Micro(r.now)]))

\* The UPDATE, if there is a row, and the SELECT.
RotateKey(s, r) ==
    LET newHash == Contents(s.heap, r.v.ref).hash
        k == s.keys[r.id]
    IN IF r.id \notin DOMAIN s.keys THEN GetKeyByID(s, r)
       ELSE IF isUniqueViolation(s, r.id, newHash) THEN Refuse(s, "ErrConflict")
       ELSE GetKeyByID(Stored(s, "keys", r.id, [k EXCEPT !.column.hash = newHash,
                                                         !.plain.updatedAt = Micro(r.now)]), r)

ListKeys(s, r) ==
    LET page == PostgresPage([id \in DOMAIN s.keys |-> s.keys[id].plain], r.arg)
        got == Read(s.heap, [i \in DOMAIN page.ids |-> s.keys[page.ids[i]]])
    IN Answer([s EXCEPT !.heap = got.heap], "nil", got.out, page.next)

TouchLastVerified(s, r) ==
    LET k == s.keys[r.id] IN
    IF r.id \notin DOMAIN s.keys THEN Refuse(s, "ErrNotFound")
    ELSE Done(Stored(s, "keys", r.id, [k EXCEPT !.column.lastVerifiedAt = Micro(r.arg)]))

\* The guarded UPDATE, and the SELECT that says why it found no row.
DecrementRemainingUses(s, r) ==
    LET k == s.keys[r.id]
        n == k.plain.remaining
    IN IF r.id \notin DOMAIN s.keys THEN Refuse(s, "ErrNotFound")
       ELSE IF n > 0
            THEN Answer(Stored(s, "keys", r.id, [k EXCEPT !.plain.remaining = n - 1,
                                                          !.plain.updatedAt = Micro(r.now)]),
                        "nil", <<>>, n - 1)
       ELSE IF n < 0 THEN Answer(s, "nil", <<>>, -1)
       ELSE Answer(s, "ErrDepleted", <<>>, n)

=============================================================================
