----------------------------- MODULE MC_DbResult -----------------------------
(* Results of up to one row and two columns named f1 and f2, of every      *)
(* pair of column types, with every value a cell of that type may hold    *)
(* (SQL NULL included); the caller also asks for the missing field f3.    *)
EXTENDS DbResult

CONSTANTS f1, f2, f3

MC_Halves == {0, 1}

\* the values a column of type t may hold
MC_CellValues(t) ==
    {NullCell} \cup
    CASE t = "INT4OID" -> {Int64(0, l) : l \in MC_Halves}
      [] t = "INT8OID" -> {Int64(1, 1), Int64(0, 1)}
      [] t = "BOOLOID" -> {Bool(b) : b \in BOOLEAN}
      [] OTHER -> {TextVal}

MC_Results ==
    UNION {{[fields |-> <<f1, f2>>, types |-> ts, rows |-> rs] :
             rs \in UNION {[1..n -> {<<c1, c2>> : c1 \in MC_CellValues(ts[1]),
                                                  c2 \in MC_CellValues(ts[2])}]
                           : n \in 0..1}}
           : ts \in Types \X Types}
=============================================================================
