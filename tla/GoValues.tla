------------------------------ MODULE GoValues ------------------------------
(***************************************************************************)
(* store.Workspace, store.API and store.Key as Go values.  Copying such a   *)
(* struct copies its plain fields; its slices, maps and *time.Time fields   *)
(* are references, so a driver and its caller share what they point to      *)
(* unless somebody copied that too.  The heap is a sequence of blocks, one  *)
(* per copy made; a reference field holds the number of the block its       *)
(* contents are in, or Nil.                                                 *)
(***************************************************************************)
EXTENDS Integers, Sequences

CONSTANTS Nil,
          Precision   \* clock ticks per microsecond, all timestamptz keeps

ASSUME NilAssumption == Nil \notin Int

ASSUME PrecisionAssumption == Precision \in Nat \ {0}

\* Contents of the slices and maps when they are empty and not nil.
Empty == [permissions |-> <<>>, limitRefs |-> <<>>, metadata |-> {}]

Contents(heap, ref) ==
    [f \in DOMAIN ref |-> IF ref[f] = Nil THEN Nil ELSE heap[ref[f]][f]]

\* A copy of contents in a block of its own.
Alloc(heap, contents) ==
    [heap |-> Append(heap, contents),
     ref  |-> [f \in DOMAIN contents |->
                  IF contents[f] = Nil THEN Nil ELSE Len(heap) + 1]]

\* Copies of several, each in a block of its own.
AllocAll(heap, all) ==
    [heap |-> heap \o all,
     refs |-> [i \in DOMAIN all |->
                  [f \in DOMAIN all[i] |-> IF all[i][f] = Nil THEN Nil ELSE Len(heap) + i]]]

Cells(ref) == {<<ref[f], f>> : f \in {g \in DOMAIN ref : ref[g] # Nil}}

\* What a caller that writes through a reference leaves there.  An empty
\* slice has no element to write to; a map takes a new entry.
Hour == 100
Mutated(f, c) ==
    CASE f \in {"permissions", "limitRefs"} -> IF c = <<>> THEN c ELSE <<"mutated">>
      [] f \in {"expiresAt", "lastVerifiedAt"} -> c + Hour
      [] f = "metadata" -> {"mutated"}
      [] OTHER -> "mutated"

mutateKeyValue(heap, cells) ==
    [b \in DOMAIN heap |->
        [f \in DOMAIN heap[b] |->
            IF <<b, f>> \in cells THEN Mutated(f, heap[b][f]) ELSE heap[b][f]]]

\* What bytes.Equal, slices.Equal, maps.Equal and sameOptionalTime tell
\* apart: a nil slice or map and an empty one they do not.
Seen(f, c) == IF c = Nil /\ f \in DOMAIN Empty THEN Empty[f] ELSE c

View(plain, contents) ==
    [f \in DOMAIN plain \cup DOMAIN contents |->
        IF f \in DOMAIN plain THEN plain[f] ELSE Seen(f, contents[f])]

\* Times as Postgres keeps them.
Micro(t) == IF t = Nil THEN Nil ELSE t - (t % Precision)

Put(table, id, row) ==
    [i \in DOMAIN table \cup {id} |-> IF i = id THEN row ELSE table[i]]

\* What a store is made of, with the heap it shares with its caller.  The
\* hash index is memory's own.
NewStore == [workspaces |-> <<>>, apis |-> <<>>, keys |-> <<>>,
             hashIndex |-> [h \in {} |-> Nil], heap |-> <<>>]

\* m[id] = row, for one of the store's tables.
Stored(s, table, id, row) == [s EXCEPT ![table] = Put(@, id, row)]

\* What a call leaves behind and returns: its error, the structs it gives its
\* caller, and a count or a page token.
Answer(s, err, structs, num) == [s |-> s, err |-> err, structs |-> structs, num |-> num]
Refuse(s, err) == Answer(s, err, <<>>, 0)
Done(s) == Answer(s, "nil", <<>>, 0)
Give(s, v) == Answer(s, "nil", <<v>>, 0)

Stamped(plain, now) == [plain EXCEPT !.createdAt = now, !.updatedAt = now]

=============================================================================
