---------------------------- MODULE MCPagination ----------------------------
(* The listings TLC asks for: with and without an owner, by pages of one    *)
(* and of the default size, and one without an API.                         *)
EXTENDS Pagination

CONSTANTS a1, a2, u1, u2

\* Keys a listing by owner, by API or neither selects.
SmallRows == {[api |-> a1, owner |-> u1], [api |-> a1, owner |-> u2],
              [api |-> a2, owner |-> u1]}

SmallQueries ==
    [api : {a1}, owner : {AnyOwner, u1}, size : {-1, 1}]
      \cup [api : {NoAPI}, owner : {AnyOwner}, size : {1}]

=============================================================================
