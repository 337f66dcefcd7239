---------------------------- MODULE MCStoreCalls ----------------------------
(* The store calls the driver instances of TLC make.                        *)
EXTENDS Store

CONSTANTS Limited,    \* key IDs created with one use; revoked and touched too
          Unlimited,  \* key IDs created without a limit on their uses
          Rotated,    \* those of both that are rotated
          Unissued    \* key IDs no CreateKey ever returns

Row(api, h, n) ==
    [api |-> api, workspace |-> CHOOSE w \in WorkspaceIDs : TRUE, hash |-> h,
     permissions |-> {}, limitRefs |-> {}, expiresAt |-> Nil,
     remaining |-> n, enabled |-> TRUE, lastVerifiedAt |-> Nil]

TableCalls ==
    [op : {"CreateWorkspace"}, id : WorkspaceIDs]
      \cup [op : {"CreateAPI"}, id : APIIDs, row : API]

Create(ids, n) ==
    [op : {"CreateKey"}, id : ids, row : {Row(api, h, n) : api \in APIIDs, h \in Hashes}]

Rotate == [op : {"RotateKey"}, id : Rotated, hash : Hashes]
            \cup [op : {"RotateKey"}, id : Unissued, hash : {CHOOSE h \in Hashes : TRUE}]

Lookups == [op : {"GetKeyByID"}, id : Limited] \cup [op : {"GetKeyByHash"}, hash : Hashes]
             \cup [op : {"GetWorkspace"}, id : WorkspaceIDs]
             \cup [op : {"GetAPI"}, id : APIIDs]
             \cup [op : {"ListKeys"}, api : APIIDs]

Uses == [op : {"DecrementRemainingUses"}, id : KeyIDs]
          \cup [op : {"RevokeKey"}, id : Limited]
          \cup [op : {"TouchLastVerified"}, id : Limited \cup Unissued, at : {0}]

AllCalls == TableCalls \cup Create(Limited, 1) \cup Create(Unlimited, -1)
              \cup Rotate \cup Lookups \cup Uses

=============================================================================
