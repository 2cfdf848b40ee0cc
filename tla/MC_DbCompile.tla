---------------------------- MODULE MC_DbCompile ----------------------------
(* Every template of at most four characters over '%', the seven          *)
(* directive letters and one other character, with DB_MAX_PARAMS scaled   *)
(* to 1 and db->q to 4 bytes: the loop's control depends on them only     *)
(* through v >= lengthof(vals) and the snprintf size sizeof db->q - o, so *)
(* every exit of the loop (each directive, the silent break, a snprintf   *)
(* that does not fit, a literal run past the buffer) happens here.        *)
EXTENDS DbCompile

MC_Alphabet == {"%", "u", "U", "S", "a", "b", "s", "t", "x"}
MC_Templates == UNION {[1..n -> MC_Alphabet] : n \in 0..4}
=============================================================================
