---------------------------- MODULE MCTmReports ----------------------------
(* Bounded inputs of TmReports for TLC. *)
EXTENDS TmReports

CONSTANTS s1, s2, p1, p2

\* A housekeeping and a diagnostic structure that share their id.
OneSid == {s1}
OneStructure == OneSid \X Kinds

\* And a third structure.
TwoSids == {s1, s2}
ThreeStructures == OneStructure \cup {<<s2, "hk">>}

ProvidersAreAlike == Permutations({p1, p2})

\* Every length of a small "uint16_t", so every boundary and every wrap.
AllLengths == 0 .. Wrap - 1
=============================================================================
