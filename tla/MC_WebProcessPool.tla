------------------------- MODULE MC_WebProcessPool -------------------------
(* Instantiation of WebProcessPool for TLC: three process ids, two pages,  *)
(* two domains, two data stores.                                           *)
EXTENDS WebProcessPool, TLC

CONSTANTS p1, p2, p3, pgA, pgB, a, b, s1, s2

MC_Procs == {p1, p2, p3}
MC_Pages == {pgA, pgB}
MC_Domains == {a, b}
MC_Stores == {s1, s2}
MC_OneStore == {s1}

\* Process ids, pages and domains are interchangeable (the data stores are
\* not: one is the default store).
MC_Symmetry == {f @@ g @@ h : f \in Permutations(MC_Procs),
                              g \in Permutations(MC_Pages),
                              h \in Permutations(MC_Domains)}
=============================================================================
