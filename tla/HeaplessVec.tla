----------------------------- MODULE HeaplessVec -----------------------------
(* heapless::Vec as the queues of src/state use it: a sequence of bounded length. *)
EXTENDS Naturals, Sequences

\* Vec::remove(k): the order of the other elements is kept.
Remove(q, k) == [j \in 1 .. Len(q) - 1 |-> IF j < k THEN q[j] ELSE q[j + 1]]

=============================================================================
