------------------------------- MODULE MCSubs -------------------------------
(* Subscribe and unsubscribe calls, two of which cannot succeed. *)
EXTENDS Subs, TLC

CONSTANTS s1, s2, u1, long, odd

MCRequests == {s1, s2, u1, long, odd}
MCKind == s1 :> "sub" @@ s2 :> "sub" @@ u1 :> "unsub" @@ long :> "sub" @@ odd :> "sub"

\* The calls s1 and s2 differ in nothing.
Symmetry == Permutations({s1, s2})
=============================================================================
