---------------------------- MODULE MemoryValues ----------------------------
(***************************************************************************)
(* store/memory, one call at a time, with the copies it makes.  A stored    *)
(* struct is [plain, ref]; a request carries the ID newID will return, the  *)
(* caller's references and the time.                                        *)
(***************************************************************************)
EXTENDS GoValues, Listing

\* Mutant: the metadata map is shared.
ShallowClone(heap, ref) ==
    LET contents == [f \in DOMAIN ref \ {"metadata"} |-> Contents(heap, ref)[f]]
        copy == Alloc(heap, contents)
    IN [heap |-> copy.heap,
        ref  |-> [f \in DOMAIN ref |-> IF f = "metadata" THEN ref[f] ELSE copy.ref[f]]]

\* cloneKey, and cloneWorkspace and cloneAPI, which have only metadata:
\* append([]T(nil), s...) makes an empty slice nil, maps.Clone keeps an empty
\* map, and a nil reference stays nil.
Copied(f, c) == IF f # "metadata" /\ f \in DOMAIN Empty /\ c = Empty[f] THEN Nil ELSE c

Copy(heap, ref) == [f \in DOMAIN ref |-> Copied(f, Contents(heap, ref)[f])]

cloneKey(heap, ref) == Alloc(heap, Copy(heap, ref))

\* A struct is cloned on its way in, and again on its way out.
Create(s, table, r) ==
    LET plain == Stamped([r.v.plain EXCEPT !.id = r.id], r.now)
        kept == cloneKey(s.heap, r.v.ref)
        given == cloneKey(kept.heap, kept.ref)
    IN Give(Stored([s EXCEPT !.heap = given.heap], table, r.id,
                   [plain |-> plain, ref |-> kept.ref]),
            [plain |-> plain, ref |-> given.ref])

Get(s, table, id) ==
    IF id \notin DOMAIN s[table] THEN Refuse(s, "ErrNotFound")
    ELSE LET row == s[table][id]
             given == cloneKey(s.heap, row.ref)
         IN Give([s EXCEPT !.heap = given.heap], [plain |-> row.plain, ref |-> given.ref])

CreateWorkspace(s, r) == Create(s, "workspaces", r)

GetWorkspace(s, r) == Get(s, "workspaces", r.id)

CreateAPI(s, r) ==
    IF r.v.plain.workspace \notin DOMAIN s.workspaces THEN Refuse(s, "ErrNotFound")
    ELSE Create(s, "apis", r)

GetAPI(s, r) == Get(s, "apis", r.id)

CreateKey(s, r) ==
    LET hash == Contents(s.heap, r.v.ref).hash IN
    IF r.v.plain.api \notin DOMAIN s.apis THEN Refuse(s, "ErrNotFound")
    ELSE IF hash \in DOMAIN s.hashIndex THEN Refuse(s, "ErrConflict")
    ELSE Create([s EXCEPT !.hashIndex = Put(@, hash, r.id)], "keys", r)

GetKeyByID(s, r) == Get(s, "keys", r.id)

GetKeyByHash(s, r) ==
    IF r.arg \notin DOMAIN s.hashIndex THEN Refuse(s, "ErrNotFound")
    ELSE Get(s, "keys", s.hashIndex[r.arg])

RevokeKey(s, r) ==
    LET k == s.keys[r.id] IN
    IF r.id \notin DOMAIN s.keys THEN Refuse(s, "ErrNotFound")
    ELSE IF ~k.plain.enabled THEN Done(s)
    ELSE Done(Stored(s, "keys", r.id, [k EXCEPT !.plain.enabled = FALSE,
                                                !.plain.updatedAt = r.now]))

\* Mutant: the caller's slice becomes the stored hash.
SharedHash(heap, ref) == [heap |-> heap, ref |-> ref]

\* append([]byte(nil), newHash...)
CopiedHash(heap, ref) == Alloc(heap, Contents(heap, ref))

\* The index is moved by the old hash as it is stored.
RotateKey(s, r) ==
    LET newHash == Contents(s.heap, r.v.ref).hash
        k == s.keys[r.id]
        copy == CopiedHash(s.heap, r.v.ref)
        rest == [h \in DOMAIN s.hashIndex \ {Contents(s.heap, k.ref).hash} |-> s.hashIndex[h]]
    IN IF r.id \notin DOMAIN s.keys THEN Refuse(s, "ErrNotFound")
       ELSE IF newHash \in DOMAIN s.hashIndex /\ s.hashIndex[newHash] # r.id
            THEN Refuse(s, "ErrConflict")
       ELSE Get(Stored([s EXCEPT !.hashIndex = Put(rest, newHash, r.id), !.heap = copy.heap],
                       "keys", r.id, [k EXCEPT !.ref.hash = copy.ref.hash,
                                               !.plain.updatedAt = r.now]),
                "keys", r.id)

\* Every key of the page is cloned.
ListKeys(s, r) ==
    LET page == MemoryPage([id \in DOMAIN s.keys |-> s.keys[id].plain], r.arg)
        k == [i \in DOMAIN page.ids |-> s.keys[page.ids[i]]]
        given == AllocAll(s.heap, [i \in DOMAIN k |-> Copy(s.heap, k[i].ref)])
    IN Answer([s EXCEPT !.heap = given.heap], "nil",
              [i \in DOMAIN k |-> [plain |-> k[i].plain, ref |-> given.refs[i]]],
              page.next)

TouchLastVerified(s, r) ==
    LET k == s.keys[r.id]
        at == Alloc(s.heap, [lastVerifiedAt |-> r.arg])
    IN IF r.id \notin DOMAIN s.keys THEN Refuse(s, "ErrNotFound")
       ELSE Done(Stored([s EXCEPT !.heap = at.heap], "keys", r.id,
                        [k EXCEPT !.ref.lastVerifiedAt = at.ref.lastVerifiedAt]))

DecrementRemainingUses(s, r) ==
    LET k == s.keys[r.id]
        n == k.plain.remaining
    IN IF r.id \notin DOMAIN s.keys THEN Refuse(s, "ErrNotFound")
       ELSE IF n < 0 THEN Answer(s, "nil", <<>>, -1)
       ELSE IF n = 0 THEN Refuse(s, "ErrDepleted")
       ELSE Answer(Stored(s, "keys", r.id, [k EXCEPT !.plain.remaining = n - 1,
                                                     !.plain.updatedAt = r.now]),
                   "nil", <<>>, n - 1)

=============================================================================
