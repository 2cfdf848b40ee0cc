----------------------------- MODULE MC_DbConn -----------------------------
(* Model-checking instance of DbConn: two or three threads, a template    *)
(* that compiles and one that does not, two API calls per thread.         *)
EXTENDS DbConn, TLC

CONSTANTS t1, t2, t3

MC_Templates == {"good", "bad"}
MC_Compiles(tpl) == tpl = "good"
MC_Symmetry == Permutations({t1, t2, t3})
=============================================================================
