------------------------------- MODULE DbResult -------------------------------
(***************************************************************************)
(* The result accessors of src/src/db/db_psql.c: a caller holding a       *)
(* PGresult of db_query (binary format, as PQexecParams is asked for)      *)
(* reads cells by position (db_result_get_string/_enum/_uint32/_uint64/   *)
(* _bool, through db_result_getval) or by field name (db_result_field_*,  *)
(* through PQfnumber).                                                     *)
(*                                                                         *)
(* libpq is the environment: PQgetvalue returns NULL for a row or column  *)
(* out of range and a pointer to an empty string for an SQL NULL; PQftype *)
(* returns the column's type OID; PQfnumber returns -1 for an unknown      *)
(* field.  Integer cells are abstracted to their two 32-bit halves (after *)
(* the byte-order conversion, which is not modelled); text cells to a     *)
(* model value.  A read of 4 or 8 bytes from the empty string of an SQL    *)
(* NULL runs past it and yields any bytes (Garbage); reading one byte, as *)
(* get_bool does, yields the terminating 0.  assert(false) aborts the      *)
(* process in a build without NDEBUG and is skipped in one with it.        *)
(***************************************************************************)
EXTENDS Integers, Sequences

CONSTANTS
    Results,    \* the PGresults a query may return
    Fields,     \* field names the caller asks for
    Halves,     \* values of a 32-bit half of an integer cell
    NDEBUG,     \* the build defines NDEBUG: assert() does nothing
    MaxReads    \* accessor calls the caller makes

ASSUME NDEBUGAssumption == NDEBUG \in BOOLEAN
ASSUME MaxReadsAssumption == MaxReads \in Nat
\* field names are strings, never column numbers
ASSUME FieldsAssumption == Fields \cap Int = {}

Types == {"INT4OID", "INT8OID", "TEXTOID", "VARCHAROID", "BOOLOID", "ENUMOID"}

\* cell contents and stored values: an integer as its high and low 32 bits,
\* a 32-bit integer, the text, a bool, and the pointers NULL and ""
Int64(h, l) == [k |-> "int", hi |-> h, lo |-> l]
U32(x) == [k |-> "u32", v |-> x]
TextVal == [k |-> "text"]
Bool(b) == [k |-> "bool", b |-> b]
NullCell == [k |-> "null"]
NullPtr == [k |-> "nullptr"]
Empty == [k |-> "empty"]
NoValue == [k |-> "error"]
Unset == [k |-> "none"]

\* what PQgetvalue may point at in a column of type t of a binary-format
\* result: an INT4 cell has a zero high half
CellValues(t) ==
    {NullCell} \cup
    CASE t = "INT4OID" -> {Int64(0, l) : l \in Halves}
      [] t = "INT8OID" -> {Int64(h, l) : h, l \in Halves}
      [] t = "BOOLOID" -> {Bool(TRUE), Bool(FALSE)}
      [] OTHER         -> {TextVal}

\* a PGresult: a name and a type per column, each row a cell per column
ASSUME ResultsAssumption ==
    \A r \in Results :
        /\ r.types \in Seq(Types)
        /\ DOMAIN r.fields = DOMAIN r.types
        /\ r.rows \in Seq([DOMAIN r.types -> UNION {CellValues(t) : t \in Types}])
        /\ \A j \in DOMAIN r.rows, c \in DOMAIN r.types :
              r.rows[j][c] \in CellValues(r.types[c])

VARIABLES
    res,        \* result->res: <<fields, types, rows>>
    out,        \* what the last accessor stored through its output
                \* pointer (Unset: it stored nothing)
    ok,         \* what the last accessor returned
    aborted,    \* an assert(false) killed the process
    reads,      \* accessor calls made
    last        \* the last call: accessor, row, and column or field

vars == <<res, out, ok, aborted, reads, last>>

\* PQntuples, PQnfields
NRows == Len(res.rows)
NCols == Len(res.types)

\* db_result_getval: PQgetvalue(result->res, row, column), 0-based indices
GetVal(row, col) ==
    IF row >= NRows \/ col >= NCols THEN NullPtr
    ELSE LET c == res.rows[row + 1][col + 1]
         IN IF c = NullCell THEN Empty ELSE c

\* db_result_columnno: PQfnumber(result->res, field)
ColumnNo(f) ==
    IF \E k \in 1..NCols : res.fields[k] = f
    THEN (CHOOSE k \in 1..NCols : res.fields[k] = f) - 1
    ELSE -1

\* *(uint32_t *)d and *(uint64_t *)d, after ntohl / ntohll
Read32(d) == IF d = Empty THEN Halves ELSE {d.lo}
Read64(d) == IF d = Empty THEN {Int64(h, l) : h, l \in Halves} ELSE {d}

\* assert(false) followed by the statements after it
Assert(rest) ==
    IF NDEBUG THEN rest /\ UNCHANGED aborted
    ELSE aborted' = TRUE /\ UNCHANGED <<out, ok>>

Return(o, b) == out' = o /\ ok' = b /\ UNCHANGED aborted

-----------------------------------------------------------------------------
(* The accessors.  Each stores through its output pointer and returns.    *)

\* db_result_get_string
GetString(row, col) ==
    LET d == GetVal(row, col) IN
    IF d = NullPtr THEN Assert(Return(Unset, FALSE)) ELSE
    CASE res.types[col + 1] \in {"TEXTOID", "VARCHAROID"} -> Return(d, TRUE)
      [] OTHER -> Assert(Return(NullPtr, FALSE))

\* db_result_get_enum
GetEnum(row, col) ==
    LET d == GetVal(row, col) IN
    IF d = NullPtr THEN Assert(Return(Unset, FALSE)) ELSE Return(d, TRUE)

\* Mutant: the INT8OID case is missing
GetUint32NoInt8(row, col) ==
    LET d == GetVal(row, col) IN
    IF d = NullPtr THEN Assert(Return(Unset, FALSE)) ELSE
    CASE res.types[col + 1] = "INT4OID" -> \E x \in Read32(d) : Return(U32(x), TRUE)
      [] OTHER -> Assert(Return(U32(0), FALSE))

\* db_result_get_uint32: INT8 values are narrowed by the assignment
GetUint32(row, col) ==
    LET d == GetVal(row, col) IN
    IF d = NullPtr THEN Assert(Return(Unset, FALSE)) ELSE
    CASE res.types[col + 1] = "INT4OID" -> \E x \in Read32(d) : Return(U32(x), TRUE)
      [] res.types[col + 1] = "INT8OID" ->
            \E x \in Read64(d) : Return(U32(x.lo), TRUE)
      [] OTHER -> Assert(Return(U32(0), FALSE))

\* db_result_get_uint64: INT4 values are widened
GetUint64(row, col) ==
    LET d == GetVal(row, col) IN
    IF d = NullPtr THEN Assert(Return(Unset, FALSE)) ELSE
    CASE res.types[col + 1] = "INT4OID" ->
            \E x \in Read32(d) : Return(Int64(0, x), TRUE)
      [] res.types[col + 1] = "INT8OID" -> \E x \in Read64(d) : Return(x, TRUE)
      [] OTHER -> Assert(Return(Int64(0, 0), FALSE))

\* Mutant: the BOOLOID check is missing
GetBoolNoTypeCheck(row, col) ==
    LET d == GetVal(row, col) IN
    IF d = NullPtr THEN Return(Unset, FALSE)
    ELSE Return(IF d = Empty THEN Bool(FALSE) ELSE d, TRUE)

\* db_result_get_bool: no assert; *(bool *)"" is false
GetBool(row, col) ==
    LET d == GetVal(row, col) IN
    IF d = NullPtr THEN Return(Unset, FALSE) ELSE
    CASE res.types[col + 1] = "BOOLOID" -> Return(IF d = Empty THEN Bool(FALSE) ELSE d, TRUE)
      [] OTHER -> Return(Bool(FALSE), FALSE)

Accessors == {"string", "enum", "uint32", "uint64", "bool"}

Get(a, row, col) ==
    CASE a = "string" -> GetString(row, col)
      [] a = "enum"   -> GetEnum(row, col)
      [] a = "uint32" -> GetUint32(row, col)
      [] a = "uint64" -> GetUint64(row, col)
      [] a = "bool"   -> GetBool(row, col)

\* db_result_field_*: PQfnumber, "field missing" on -1, else the positional
\* accessor a, whose failure is logged and returned
Field(a, row, f) ==
    LET col == ColumnNo(f) IN
    IF col = -1 THEN Return(Unset, FALSE) ELSE Get(a, row, col)

Init ==
    /\ res \in Results
    /\ out = Unset
    /\ ok = FALSE
    /\ aborted = FALSE
    /\ reads = 0
    /\ last = [acc |-> "none", row |-> 0, col |-> 0]

\* the caller may ask for any row and column, one past the ends included
Call(a, row, c) ==
    /\ ~aborted
    /\ reads < MaxReads
    /\ reads' = reads + 1
    /\ last' = [acc |-> a, row |-> row, col |-> c]
    /\ UNCHANGED res

GetCall ==
    \E a \in Accessors, row \in 0..NRows, col \in 0..NCols :
        Call(a, row, col) /\ Get(a, row, col)

FieldCall ==
    \E a \in Accessors \ {"enum"}, row \in 0..NRows, f \in Fields :
        /\ Call(a, row, f)
        /\ Field(a, row, f)

Next == GetCall \/ FieldCall

Spec == Init /\ [][Next]_vars

-----------------------------------------------------------------------------
(* The decoder the specification describes (section 4.5).                 *)

\* the column a call addresses: a position, or a field resolved by name
SpecColumn(c) == IF c \in Int THEN c ELSE ColumnNo(c)

InRange(row, col) == row < NRows /\ col \in 0..NCols - 1

\* the value a call must store, or NoValue (DecodeError, FieldMissing, or
\* no such cell); an SQL NULL has no value of any type
SpecValue(a, row, c) ==
    LET col == SpecColumn(c) IN
    IF ~InRange(row, col) THEN NoValue ELSE
    LET t == res.types[col + 1]
        v == res.rows[row + 1][col + 1]
    IN  IF v = NullCell THEN NoValue ELSE
        CASE a = "string" -> IF t \in {"TEXTOID", "VARCHAROID"} THEN v ELSE NoValue
          [] a = "enum"   -> v
          [] a = "uint32" -> IF t \in {"INT4OID", "INT8OID"} THEN U32(v.lo) ELSE NoValue
          [] a = "uint64" -> IF t \in {"INT4OID", "INT8OID"} THEN v ELSE NoValue
          [] a = "bool"   -> IF t = "BOOLOID" THEN v ELSE NoValue

\* the last call addressed an SQL NULL
ReadNull ==
    LET col == SpecColumn(last.col) IN
    InRange(last.row, col) /\ res.rows[last.row + 1][col + 1] = NullCell

-----------------------------------------------------------------------------
(* Properties.                                                            *)

\* the C type of each accessor's output parameter; out is left as it was
\* (initially unset) when an accessor returns before storing
OutType(a) ==
    {Unset} \cup
    CASE a = "string" -> {TextVal, Empty, NullPtr}
      [] a = "enum"   -> {TextVal, Empty, Bool(TRUE), Bool(FALSE)} \cup
                         {Int64(h, l) : h, l \in Halves \cup {0}}
      [] a = "uint32" -> {U32(x) : x \in Halves \cup {0}}
      [] a = "uint64" -> {Int64(h, l) : h, l \in Halves \cup {0}}
      [] a = "bool"   -> {Bool(TRUE), Bool(FALSE)}
      [] OTHER        -> {}

TypeOK ==
    /\ res \in Results
    /\ aborted \/ out \in OutType(last.acc)
    /\ ok \in BOOLEAN
    /\ aborted \in BOOLEAN
    /\ reads \in 0..MaxReads
    /\ last.acc \in Accessors \cup {"none"}

(* Section 8 and 4.5, for cells that hold a value: an accessor succeeds    *)
(* exactly when the column's type is one it accepts (text-like for        *)
(* get_string, INT4 or INT8 for the integer accessors, BOOL for get_bool, *)
(* anything for get_enum), and then stores the cell's value, narrowed to  *)
(* its low 32 bits by get_uint32 and widened by get_uint64; a row or      *)
(* column out of range, or a field the result lacks, is never a success.  *)
DecodeMatchesSpec ==
    last.acc # "none" /\ ~aborted /\ ~ReadNull =>
        LET spec == SpecValue(last.acc, last.row, last.col) IN
        /\ ok <=> spec # NoValue
        /\ ok => out = spec

(* Section 8: an accessor never returns a misinterpreted value: whenever  *)
(* it reports success, what it stored is the cell's value.                *)
NoMisreadValue ==
    ok => out = SpecValue(last.acc, last.row, last.col)

(* Section 7: a DecodeError (an accessor of the wrong type for an        *)
(* existing cell) is returned to the immediate caller, who may recover;   *)
(* the accessor does not end the process.                                 *)
DecodeErrorsReturned ==
    InRange(last.row, SpecColumn(last.col)) => ~aborted

=============================================================================
