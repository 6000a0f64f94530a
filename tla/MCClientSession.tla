-------------------------- MODULE MCClientSession --------------------------
(* Small instances of ClientSession for TLC: the calls are model values.   *)
EXTENDS ClientSession, TLC

\* Calls of the same kind are interchangeable (safety runs only).
Symmetry == Permutations(Connectors) \cup Permutations(Closers)
            \cup Permutations(Requests)
=============================================================================
