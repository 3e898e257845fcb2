------------------------------ MODULE UniqueId ------------------------------
(***************************************************************************)
(* UniqueIDPool of src/lib.rs, as operators on a record: ids that were     *)
(* given back are used first, in the order they came back.                 *)
(***************************************************************************)
EXTENDS Naturals, Sequences

CONSTANT IdPoolSize     \* capacity of the pool, 16

ASSUME IdAssumption == IdPoolSize \in Nat

NewIds == [next_unused |-> 0, pool |-> <<>>]

\* next() and take(): the id, and the pool without it.
NextId(ids) == IF ids.pool = <<>> THEN ids.next_unused ELSE Head(ids.pool)
AfterNext(ids) ==
    IF ids.pool = <<>> THEN [ids EXCEPT !.next_unused = @ + 1]
                       ELSE [ids EXCEPT !.pool = Tail(@)]

\* free(): unwraps the push into the pool.
CanFree(ids) == Len(ids.pool) < IdPoolSize
FreeId(ids, id) == [ids EXCEPT !.pool = Append(@, id)]

=============================================================================
