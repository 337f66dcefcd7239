-------------------------- MODULE ConformanceSuite --------------------------
(***************************************************************************)
(* store/conformance: the tests every driver must pass, as scripts.  A step *)
(* is a store call (or a write through references the caller holds), the    *)
(* error it must report ("any": the test drops it) and the fields the       *)
(* answer must have.  Workspaces and APIs are named by their number in the  *)
(* order of creation, and so are keys in a request and in the field "key";  *)
(* Missing names none.  Byte strings, names and owners are short strings.   *)
(***************************************************************************)
EXTENDS GoValues, Listing

CONSTANT LastPage     \* keys beyond the default page size in its test (5)

ASSUME LastPageAssumption == LastPage \in Nat

Missing == 0
Soon == Hour * Precision      \* Truncate(time.Second): whole microseconds
Lately == 2 * Precision

None == [f \in {} |-> Nil]

Step(req, err, want) == [req |-> req, err |-> err, want |-> want]
Must(req) == Step(req, "nil", None)             \* t.Fatalf on any error
Got(req, want) == Step(req, "nil", want)
Fails(req, err) == Step(req, err, None)
Anyhow(req) == Step(req, "any", None)           \* the error is dropped

-----------------------------------------------------------------------------
(* Requests: whose, with which struct the test fills in, with what else.    *)

Request(op, id, plain, contents, arg) ==
    [op |-> op, id |-> id, lit |-> [plain |-> plain, contents |-> contents], arg |-> arg]

ByID(op, id) == Request(op, id, None, None, Nil)
GetKeyByHash(hash) == Request("GetKeyByHash", Missing, None, None, hash)
RotateKey(key, hash) == Request("RotateKey", key, None, [hash |-> hash], Nil)
TouchLastVerified(key, at) == Request("TouchLastVerified", key, None, None, at)

\* The token is none, the last answer's, or one just above the lowest ID.
ListKeys(api, owner, size, token) ==
    Request("ListKeys", Missing, None, None,
            [api |-> api, owner |-> owner, size |-> size, token |-> token])

\* A write through the last value passed in, or the last one returned.
Mutate(what) == Must(Request("Mutate", Missing, None, None, what))

newWorkspace(metadata) ==
    Request("CreateWorkspace", Missing,
            [id |-> Missing, name |-> "acme", owner |-> "user_owner",
             createdAt |-> 0, updatedAt |-> 0],
            [metadata |-> metadata], Nil)

newAPI(workspace, name, metadata) ==
    Request("CreateAPI", Missing,
            [id |-> Missing, workspace |-> workspace, name |-> name,
             prefix |-> "ck_test_", createdAt |-> 0, updatedAt |-> 0],
            [metadata |-> metadata], Nil)

newKey(api, workspace, owner, hash) ==
    Request("CreateKey", Missing,
            [id |-> Missing, api |-> api, workspace |-> workspace, owner |-> owner,
             name |-> "test-key", remaining |-> -1, enabled |-> TRUE,
             createdAt |-> 0, updatedAt |-> 0],
            [hash |-> hash, permissions |-> <<"chat:write">>, limitRefs |-> Nil,
             expiresAt |-> Nil, lastVerifiedAt |-> Nil, metadata |-> Nil], Nil)

\* The plain fields of the structs, and the references of a key.
WorkspaceFields == {"id", "name", "owner", "createdAt", "updatedAt"}
APIFields == {"id", "workspace", "name", "prefix", "createdAt", "updatedAt"}
KeyFields == {"id", "api", "workspace", "owner", "name", "remaining", "enabled",
              "createdAt", "updatedAt"}
KeyRefs == {"hash", "permissions", "limitRefs", "expiresAt", "lastVerifiedAt", "metadata"}

WithUses(req, n) == [req EXCEPT !.lit.plain.remaining = n]

\* A key of the first API with every reference field set, or all but one.
keySnapshot(hash, permissions, lastVerifiedAt) ==
    [hash |-> hash, permissions |-> permissions, limitRefs |-> <<"tokens">>,
     expiresAt |-> Soon, lastVerifiedAt |-> lastVerifiedAt, metadata |-> {"env"}]

KeyLike(snapshot) ==
    [newKey(1, 1, "user_1", snapshot.hash) EXCEPT !.lit.contents = snapshot]

Full == keySnapshot("full", <<"chat:read", "chat:write">>, Lately)
Unverified == keySnapshot("full", <<"chat:read">>, Nil)

seedWorkspace == Must(newWorkspace(Nil))
seedAPI == Must(newAPI(1, "prod", Nil))
Seeded == <<seedWorkspace, seedAPI>>

UserKey(hash) == newKey(1, 1, "user_1", hash)
SomeKeys(n) == [i \in 1 .. n |-> Must(UserKey(<<"h", i>>))]

-----------------------------------------------------------------------------
(* Workspaces and APIs.                                                     *)

testWorkspaceCreateAndGet ==
    <<Got(newWorkspace(Nil), [id |-> 1, createdAt |-> "set", updatedAt |-> "set"]),
      Got(ByID("GetWorkspace", 1), [id |-> 1, name |-> "acme", owner |-> "user_owner"])>>

testWorkspaceGetNotFound == <<Fails(ByID("GetWorkspace", Missing), "ErrNotFound")>>

testWorkspaceMetadataIsIsolated ==
    <<Must(newWorkspace({"tier"})), Mutate("in"),
      Got(ByID("GetWorkspace", 1), [metadata |-> {"tier"}]), Mutate("out"),
      Got(ByID("GetWorkspace", 1), [metadata |-> {"tier"}])>>

testAPICreateRequiresWorkspace == <<Fails(newAPI(Missing, "prod", Nil), "ErrNotFound")>>

testAPICreateAndGet ==
    <<seedWorkspace, Got(newAPI(1, "prod", Nil), [id |-> 1, createdAt |-> "set"]),
      Got(ByID("GetAPI", 1), [workspace |-> 1, prefix |-> "ck_test_"])>>

testAPIGetNotFound == <<Fails(ByID("GetAPI", Missing), "ErrNotFound")>>

testAPIMetadataIsIsolated ==
    <<seedWorkspace, Must(newAPI(1, "prod", {"region"})), Mutate("in"),
      Got(ByID("GetAPI", 1), [metadata |-> {"region"}]), Mutate("out"),
      Got(ByID("GetAPI", 1), [metadata |-> {"region"}])>>

-----------------------------------------------------------------------------
(* Keys: creation, lookup and what their callers may write to.              *)

testKeyCreateRequiresAPI ==
    <<Fails(newKey(Missing, Missing, "user_1", "abc"), "ErrNotFound")>>

testKeyCreateAndLookup ==
    Seeded \o <<Got(UserKey("ab"), [key |-> 1, hash |-> "ab"]),
                Got(ByID("GetKeyByID", 1), [key |-> 1]),
                Got(GetKeyByHash("ab"), [key |-> 1])>>

testKeyCreatePreservesAllFields ==
    Seeded \o <<Must(KeyLike(Full)), Got(ByID("GetKeyByID", 1), Full)>>

testKeyInputMutationDoesNotChangeStoredKey ==
    Seeded \o <<Must(KeyLike(Full)), Mutate("in"), Got(ByID("GetKeyByID", 1), Full)>>

testKeyLookupMutationDoesNotChangeStoredKey ==
    Seeded \o <<Must(KeyLike(Unverified)), Must(ByID("GetKeyByID", 1)), Mutate("out"),
                Got(ByID("GetKeyByID", 1), Unverified)>>

testKeyListMutationDoesNotChangeStoredKey ==
    Seeded \o <<Must(KeyLike(Unverified)),
                Got(ListKeys(1, AnyOwner, 1, "none"), [len |-> 1]), Mutate("out"),
                Got(ByID("GetKeyByID", 1), Unverified)>>

testKeyListPreservesAllFields ==
    Seeded \o <<Must(KeyLike(Full)),
                Got(ListKeys(1, AnyOwner, 10, "none"), [len |-> 1, first |-> Full])>>

testKeyGetByHashUnknown == <<Fails(GetKeyByHash("00"), "ErrNotFound")>>

testKeyGetByIDUnknown == <<Fails(ByID("GetKeyByID", Missing), "ErrNotFound")>>

testKeyCreateRejectsDuplicateHash ==
    Seeded \o <<Must(UserKey("11")), Fails(newKey(1, 1, "user_2", "11"), "ErrConflict")>>

-----------------------------------------------------------------------------
(* Revocation and rotation.                                                 *)

testKeyRevoke ==
    Seeded \o <<Must(UserKey("22")), Must(ByID("RevokeKey", 1)),
                Got(ByID("GetKeyByID", 1), [enabled |-> FALSE])>>

testKeyRevokeIsIdempotent ==
    Seeded \o <<Anyhow(UserKey("33")), Must(ByID("RevokeKey", 1)),
                Must(ByID("RevokeKey", 1))>>

testKeyRevokeUnknownReturnsNotFound == <<Fails(ByID("RevokeKey", Missing), "ErrNotFound")>>

testKeyRotate ==
    Seeded \o <<Anyhow(UserKey("44")), Got(RotateKey(1, "55"), [key |-> 1, hash |-> "55"]),
                Fails(GetKeyByHash("44"), "ErrNotFound"), Must(GetKeyByHash("55"))>>

testKeyRotateUnknownReturnsNotFound == <<Fails(RotateKey(Missing, "56"), "ErrNotFound")>>

testKeyRotateRejectsDuplicateHash ==
    Seeded \o <<Must(UserKey("57")), Must(newKey(1, 1, "user_2", "58")),
                Fails(RotateKey(1, "58"), "ErrConflict"),
                Got(ByID("GetKeyByID", 1), [hash |-> "57"])>>

-----------------------------------------------------------------------------
(* Listing.                                                                 *)

testKeyListByAPI ==
    Seeded \o <<Anyhow(newAPI(1, "staging", Nil)), Anyhow(UserKey("60")),
                Anyhow(newKey(1, 1, "user_2", "61")), Anyhow(newKey(2, 1, "user_1", "62")),
                Got(ListKeys(1, AnyOwner, 100, "none"), [len |-> 2, apis |-> {1}])>>

testKeyListFilterByOwner ==
    Seeded \o <<Anyhow(UserKey("70")), Anyhow(newKey(1, 1, "user_2", "71")),
                Anyhow(UserKey("72")),
                Got(ListKeys(1, "user_1", 100, "none"), [len |-> 2, owners |-> {"user_1"}])>>

\* The last step follows the tokens until there is none, ten pages at most.
testKeyListPaginates ==
    Seeded \o SomeKeys(5) \o
    <<Got([ListKeys(1, AnyOwner, 2, "next") EXCEPT !.op = "Walk"], [count |-> 5])>>

testKeyListDefaultsPageSize ==
    Seeded \o SomeKeys(DefaultPageSize + LastPage) \o
    <<Got(ListKeys(1, AnyOwner, 0, "none"), [len |-> DefaultPageSize, more |-> TRUE]),
      Got(ListKeys(1, AnyOwner, 0, "next"), [len |-> LastPage, more |-> FALSE])>>

testKeyListUnknownAPIIsEmpty ==
    <<Got(ListKeys(Missing, AnyOwner, 10, "none"), [len |-> 0, more |-> FALSE])>>

testKeyListPageTokenCanSkipToInsertionPoint ==
    Seeded \o SomeKeys(3) \o
    <<Got(ListKeys(1, AnyOwner, 10, "afterFirst"), [len |-> 2, allButFirst |-> TRUE])>>

-----------------------------------------------------------------------------
(* The side effects of a verification.                                      *)

testKeyTouchLastVerified ==
    Seeded \o <<Anyhow(UserKey("90")), Must(TouchLastVerified(1, Lately)),
                Step(ByID("GetKeyByID", 1), "any", [lastVerifiedAt |-> Lately])>>

testKeyTouchLastVerifiedUnknownReturnsNotFound ==
    <<Fails(TouchLastVerified(Missing, Lately), "ErrNotFound")>>

Decrement(err, n) == Step(ByID("DecrementRemainingUses", 1), err, [remaining |-> n])

testKeyDecrementRemainingUses ==
    Seeded \o <<Must(WithUses(UserKey("a0"), 3)), Decrement("nil", 2),
                Decrement("any", 1), Decrement("any", 0)>>

testKeyDecrementUnlimitedIsNoop ==
    Seeded \o <<Anyhow(WithUses(UserKey("b0"), -1)), Decrement("nil", -1)>>

testKeyDecrementDepletedReturnsErrDepleted ==
    Seeded \o <<Must(WithUses(UserKey("b1"), 0)), Decrement("ErrDepleted", 0),
                Got(ByID("GetKeyByID", 1), [remaining |-> 0])>>

testKeyDecrementUnknownReturnsNotFound ==
    <<Fails(ByID("DecrementRemainingUses", Missing), "ErrNotFound")>>

-----------------------------------------------------------------------------
\* Run, every test against a store of its own.
Run ==
    <<testWorkspaceCreateAndGet, testWorkspaceGetNotFound, testWorkspaceMetadataIsIsolated,
      testAPICreateRequiresWorkspace, testAPICreateAndGet, testAPIGetNotFound,
      testAPIMetadataIsIsolated, testKeyCreateRequiresAPI, testKeyCreateAndLookup,
      testKeyCreatePreservesAllFields, testKeyInputMutationDoesNotChangeStoredKey,
      testKeyLookupMutationDoesNotChangeStoredKey, testKeyListMutationDoesNotChangeStoredKey,
      testKeyListPreservesAllFields, testKeyGetByHashUnknown, testKeyGetByIDUnknown,
      testKeyCreateRejectsDuplicateHash, testKeyRevoke, testKeyRevokeIsIdempotent,
      testKeyRevokeUnknownReturnsNotFound, testKeyRotate, testKeyRotateUnknownReturnsNotFound,
      testKeyRotateRejectsDuplicateHash, testKeyListByAPI, testKeyListFilterByOwner,
      testKeyListPaginates, testKeyListDefaultsPageSize, testKeyListUnknownAPIIsEmpty,
      testKeyListPageTokenCanSkipToInsertionPoint, testKeyTouchLastVerified,
      testKeyTouchLastVerifiedUnknownReturnsNotFound, testKeyDecrementRemainingUses,
      testKeyDecrementUnlimitedIsNoop, testKeyDecrementDepletedReturnsErrDepleted,
      testKeyDecrementUnknownReturnsNotFound>>

=============================================================================
