--------------------------- MODULE MCConformance ----------------------------
(* The session TLC runs after the suite.                                    *)
EXTENDS Conformance

\* A key with one use whose slices and map are empty but not nil.
Emptied == [KeyLike(keySnapshot("h1", <<>>, Nil)) EXCEPT
              !.lit.plain.remaining = 1, !.lit.contents.limitRefs = <<>>,
              !.lit.contents.metadata = {}, !.lit.contents.expiresAt = 2 * Soon + 1]

SmallSession ==
    {Emptied, UserKey("full"), Mutate("all").req,
     ListKeys(1, AnyOwner, 1, "none"), ListKeys(1, "user_1", 0, "next"),
     TouchLastVerified(1, 3), ByID("GetWorkspace", 1), ByID("GetAPI", 1)}
      \cup {ByID(op, k) : op \in {"GetKeyByID", "RevokeKey", "DecrementRemainingUses"},
                          k \in {1, 2}}
      \cup {GetKeyByHash(h) : h \in {"full", "h1", "mutated"}}
      \cup {RotateKey(k, h) : k \in {1, 2}, h \in {"full", "h1"}}

=============================================================================
