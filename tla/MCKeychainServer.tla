-------------------------- MODULE MCKeychainServer --------------------------
(* Instances of KeychainServer for TLC; the .cfg files choose among these.  *)
EXTENDS KeychainServer, TLC

Plain == [permissions |-> {}, limitRefs |-> {}, expiresAt |-> Nil, remaining |-> 0]
Uses(n) == [Plain EXCEPT !.remaining = n]

\* One request of each kind the checks tell apart.
CreditRequests == {Uses(2)}
ExpiryRequests == {[Uses(1) EXCEPT !.expiresAt = 1]}
PlainRequests == {Plain}
LimitRequests == {[Uses(2) EXCEPT !.limitRefs = LimitIDs]}
LastUseRequests == {[Uses(1) EXCEPT !.limitRefs = LimitIDs]}
\* remaining_uses 0 and below ask for no limit on the uses; an expiry may lie
\* in the past.
MixedRequests == {[Plain EXCEPT !.limitRefs = LimitIDs],
                  [Plain EXCEPT !.remaining = -3, !.expiresAt = 0],
                  [Plain EXCEPT !.remaining = 1, !.permissions = Permissions]}

Verify == [required |-> {}, skip |-> FALSE, cost |-> 0]

PlainVerify == {Verify}
MixedVerify == {Verify, [Verify EXCEPT !.required = Permissions, !.skip = TRUE]}
CostVerify == {Verify, [Verify EXCEPT !.cost = 2]}

NoQuota == [l \in LimitIDs |-> 0]
QuotaOf2 == [l \in LimitIDs |-> 2]
\* One limit is tighter than the other.
UnevenQuota == [l \in LimitIDs |-> IF l = CHOOSE m \in LimitIDs : TRUE THEN 2 ELSE 3]

KeyRPCs == {"CreateWorkspace", "CreateApi", "CreateKey", "VerifyKey"}
LifecycleRPCs == KeyRPCs \cup {"RotateKey", "RevokeKey"}
WriteRPCs == LifecycleRPCs \ {"VerifyKey"}
AllRPCs == RPCs

ProcSymmetry == Permutations(Procs)

=============================================================================
