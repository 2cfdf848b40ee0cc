---------------------------- MODULE DbResultProofs ----------------------------
(***************************************************************************)
(* Proofs about DbResult for every set of results of the shape libpq      *)
(* returns in binary format (ResultsAssumption), every set of field names *)
(* and every number of reads, with or without NDEBUG.                     *)
(*                                                                         *)
(* Neither invariant needs a strengthening: every accessor call rewrites  *)
(* out, ok and last from the result alone, so each step re-establishes   *)
(* both from TypeOK; the work is the case analysis of each accessor.     *)
(***************************************************************************)
EXTENDS DbResult, TLAPS

\* the cell at a 0-based row and column of the current result
Cell(row, col) == res.rows[row + 1][col + 1]

\* what a positional call of accessor a must leave behind, for the values
\* o stored, b returned and ab (the process aborted): a value of its C
\* type, and, unless it aborted or read an SQL NULL, the spec's answer
DecodedAs(a, row, col, o, b, ab) ==
    /\ ab \in BOOLEAN
    /\ b \in BOOLEAN
    /\ ab \/ o \in OutType(a)
    /\ ~ab /\ ~(InRange(row, col) /\ Cell(row, col) = NullCell) =>
          /\ b <=> SpecValue(a, row, col) # NoValue
          /\ b => o = SpecValue(a, row, col)

Decoded(a, row, col) == DecodedAs(a, row, col, out', ok', aborted')

IInv == TypeOK /\ DecodeMatchesSpec

(* A cell inside the result holds a value of its column's type.          *)
LEMMA CellTyped ==
  ASSUME NEW r \in Results, NEW row \in 0..Len(r.rows) - 1,
         NEW col \in 0..Len(r.types) - 1
  PROVE  r.rows[row + 1][col + 1] \in CellValues(r.types[col + 1])
<1>1. r.types \in Seq(Types) /\ r.rows \in Seq([DOMAIN r.types -> UNION {CellValues(t) : t \in Types}])
  BY ResultsAssumption
<1>2. row + 1 \in DOMAIN r.rows /\ col + 1 \in DOMAIN r.types
  BY <1>1
<1>3. QED
  BY <1>2, ResultsAssumption

(* PQfnumber finds a column or returns -1.                                *)
LEMMA ColumnNoRange ==
  ASSUME res \in Results, NEW f
  PROVE  ColumnNo(f) = -1 \/ ColumnNo(f) \in 0..NCols - 1
<1>1. NCols \in Nat
  BY ResultsAssumption DEF NCols
<1>2. QED
  BY <1>1 DEF ColumnNo

(* The shape facts every accessor proof starts from.                      *)
LEMMA ResultShape ==
  ASSUME TypeOK
  PROVE  /\ NRows \in Nat /\ NCols \in Nat
         /\ \A row \in 0..NRows - 1, col \in 0..NCols - 1 :
               Cell(row, col) \in CellValues(res.types[col + 1])
<1>1. res \in Results
  BY DEF TypeOK
<1>2. NRows \in Nat /\ NCols \in Nat
  BY <1>1, ResultsAssumption DEF NRows, NCols
<1>3. QED
  BY <1>1, <1>2, CellTyped DEF Cell, NRows, NCols

(* db_result_getval: NULL outside the result, "" for an SQL NULL, else   *)
(* the cell's value.                                                      *)
LEMMA GetValCases ==
  ASSUME TypeOK, NEW row \in 0..NRows, NEW col \in 0..NCols
  PROVE  /\ ~InRange(row, col) => GetVal(row, col) = NullPtr
         /\ InRange(row, col) /\ Cell(row, col) = NullCell =>
               GetVal(row, col) = Empty
         /\ InRange(row, col) /\ Cell(row, col) # NullCell =>
               /\ GetVal(row, col) = Cell(row, col)
               /\ Cell(row, col) \in CellValues(res.types[col + 1]) \ {NullCell}
<1>1. NRows \in Nat /\ NCols \in Nat
  BY ResultShape
<1>2. QED
  BY <1>1, ResultShape DEF GetVal, InRange, Cell

(* A positional call's answer, as the specification computes it.          *)
LEMMA SpecValueCases ==
  ASSUME TypeOK, NEW a, NEW row \in 0..NRows, NEW col \in 0..NCols
  PROVE  /\ ~InRange(row, col) => SpecValue(a, row, col) = NoValue
         /\ InRange(row, col) /\ Cell(row, col) # NullCell =>
              SpecValue(a, row, col) =
                LET t == res.types[col + 1]
                    v == Cell(row, col)
                IN  CASE a = "string" -> IF t \in {"TEXTOID", "VARCHAROID"} THEN v ELSE NoValue
                      [] a = "enum"   -> v
                      [] a = "uint32" -> IF t \in {"INT4OID", "INT8OID"} THEN U32(v.lo) ELSE NoValue
                      [] a = "uint64" -> IF t \in {"INT4OID", "INT8OID"} THEN v ELSE NoValue
                      [] a = "bool"   -> IF t = "BOOLOID" THEN v ELSE NoValue
<1>1. SpecColumn(col) = col
  BY ResultShape DEF SpecColumn
<1>2. QED
  BY <1>1 DEF SpecValue, Cell

(* The cell values of each column type.                                   *)
LEMMA Int4Cells ==
  ASSUME NEW ty, ty = "INT4OID"
  PROVE  CellValues(ty) = {NullCell} \cup {Int64(0, l) : l \in Halves}
BY DEF CellValues

LEMMA Int8Cells ==
  ASSUME NEW ty, ty = "INT8OID"
  PROVE  CellValues(ty) = {NullCell} \cup {Int64(h, l) : h, l \in Halves}
BY DEF CellValues

LEMMA BoolCells ==
  ASSUME NEW ty, ty = "BOOLOID"
  PROVE  CellValues(ty) = {NullCell, Bool(TRUE), Bool(FALSE)}
BY DEF CellValues

LEMMA TextCells ==
  ASSUME NEW ty, ty \in {"TEXTOID", "VARCHAROID", "ENUMOID"}
  PROVE  CellValues(ty) = {NullCell, TextVal}
<1>1. ty # "INT4OID" /\ ty # "INT8OID" /\ ty # "BOOLOID"
  OBVIOUS
<1>2. QED
  BY <1>1 DEF CellValues

(* The cell values are distinct from the pointers NULL and "" and from    *)
(* the marker of no value.                                                 *)
LEMMA CellsAreValues ==
  ASSUME NEW ty
  PROVE  /\ NullPtr \notin CellValues(ty) \ {NullCell}
         /\ Empty \notin CellValues(ty)
         /\ NoValue \notin CellValues(ty)
         /\ NullCell # Empty /\ NullCell # NullPtr
BY DEF CellValues, NullPtr, Empty, NoValue, NullCell, TextVal, Int64, Bool

(* The C type of each accessor's output parameter, and of none.          *)
LEMMA OutString ==
  OutType("string") = {Unset, TextVal, Empty, NullPtr}
BY DEF OutType

LEMMA OutEnum ==
  OutType("enum") = {Unset, TextVal, Empty, Bool(TRUE), Bool(FALSE)} \cup
                    {Int64(h, l) : h, l \in Halves \cup {0}}
BY DEF OutType

LEMMA OutUint32 ==
  OutType("uint32") = {Unset} \cup {U32(x) : x \in Halves \cup {0}}
BY DEF OutType

LEMMA OutUint64 ==
  OutType("uint64") = {Unset} \cup {Int64(h, l) : h, l \in Halves \cup {0}}
BY DEF OutType

LEMMA OutBool ==
  OutType("bool") = {Unset, Bool(TRUE), Bool(FALSE)}
BY DEF OutType, Bool, Unset

(* An integer of two halves is a value of the enum and uint64 outputs.   *)
LEMMA IntOut ==
  ASSUME NEW h \in Halves \cup {0}, NEW l \in Halves \cup {0}
  PROVE  Int64(h, l) \in OutType("enum") /\ Int64(h, l) \in OutType("uint64")
<1>1. Int64(h, l) \in OutType("enum")
  BY DEF OutType, Int64, Unset, TextVal, Empty, Bool
<1>2. Int64(h, l) \in OutType("uint64")
  BY DEF OutType
<1>3. QED
  BY <1>1, <1>2

LEMMA OutNone ==
  OutType("none") = {Unset}
BY DEF OutType

(* The outcomes of an accessor: a return of b after storing o, or the    *)
(* abort of assert(false) (with nothing returned).                        *)
LEMMA ReturnOutcome ==
  ASSUME NEW o, NEW b, Return(o, b)
  PROVE  out' = o /\ ok' = b /\ aborted' = aborted
BY DEF Return

LEMMA AssertOutcome ==
  ASSUME NEW o, NEW b, Assert(Return(o, b))
  PROVE  \/ NDEBUG /\ out' = o /\ ok' = b /\ aborted' = aborted
         \/ ~NDEBUG /\ aborted' = TRUE /\ ok' = ok
BY DEF Assert, Return

(* Decoded holds after an abort, whatever was stored.                     *)
LEMMA AbortDecoded ==
  ASSUME NEW a, NEW row, NEW col, NEW o, NEW b \in BOOLEAN
  PROVE  DecodedAs(a, row, col, o, b, TRUE)
BY DEF DecodedAs

(* A failure is the right answer when the spec has no value, whatever   *)
(* of the accessor's type was stored.                                      *)
LEMMA FailDecoded ==
  ASSUME NEW a, NEW row, NEW col, NEW o, NEW ab \in BOOLEAN,
         o \in OutType(a),
         ~(InRange(row, col) /\ Cell(row, col) = NullCell) =>
            SpecValue(a, row, col) = NoValue
  PROVE  DecodedAs(a, row, col, o, FALSE, ab)
BY DEF DecodedAs

(* db_result_get_string stores the text of a text-like column and fails   *)
(* otherwise.                                                              *)
LEMMA StringDecoded ==
  ASSUME TypeOK, NEW row \in 0..NRows, NEW col \in 0..NCols,
         GetString(row, col)
  PROVE  Decoded("string", row, col)
<1>0. ok \in BOOLEAN /\ aborted \in BOOLEAN
  BY DEF TypeOK
<1>1. CASE ~InRange(row, col)
  <2>1. Assert(Return(Unset, FALSE))
    BY <1>1, GetValCases DEF GetString, Assert, Return
  <2>2. SpecValue("string", row, col) = NoValue
    BY <1>1, SpecValueCases
  <2>3. Unset \in OutType("string")
    BY DEF OutType
  <2>4. DecodedAs("string", row, col, Unset, FALSE, aborted)
    BY <1>0, <2>2, <2>3, FailDecoded
  <2>5. \/ out' = Unset /\ ok' = FALSE /\ aborted' = aborted
        \/ aborted' = TRUE /\ ok' = ok
    BY <2>1, AssertOutcome DEF Assert, Return
  <2>6. CASE aborted' = TRUE /\ ok' = ok
    BY <2>6, <1>0 DEF Decoded, DecodedAs
  <2>7. QED
    BY <2>6, <2>4, <2>5 DEF Decoded
<1>2. CASE InRange(row, col) /\ Cell(row, col) = NullCell
  <2>1. GetVal(row, col) = Empty
    BY <1>2, GetValCases
  <2>2. CASE res.types[col + 1] \in {"TEXTOID", "VARCHAROID"}
    <3>1. out' = Empty /\ ok' = TRUE /\ aborted' = aborted
      BY <2>1, <2>2, ReturnOutcome DEF GetString, Return, Empty, NullPtr
    <3>2. DecodedAs("string", row, col, Empty, TRUE, aborted)
      BY <1>0, <1>2 DEF DecodedAs, OutType
    <3>3. QED
      BY <3>1, <3>2 DEF Decoded
  <2>3. CASE res.types[col + 1] \notin {"TEXTOID", "VARCHAROID"}
    <3>1. Assert(Return(NullPtr, FALSE))
      BY <2>1, <2>3 DEF GetString, Empty, NullPtr, Assert, Return
    <3>2. NullPtr \in OutType("string")
      BY DEF OutType
    <3>3. DecodedAs("string", row, col, NullPtr, FALSE, aborted)
      BY <1>0, <1>2, <3>2, FailDecoded
    <3>4. \/ out' = NullPtr /\ ok' = FALSE /\ aborted' = aborted
          \/ aborted' = TRUE /\ ok' = ok
      BY <3>1, AssertOutcome DEF Assert, Return
    <3>5. CASE aborted' = TRUE /\ ok' = ok
      BY <3>5, <1>0 DEF Decoded, DecodedAs
    <3>6. QED
      BY <3>5, <3>3, <3>4 DEF Decoded
  <2>4. QED
    BY <2>2, <2>3
<1>3. CASE InRange(row, col) /\ Cell(row, col) # NullCell
  <2>1. CASE res.types[col + 1] \in {"TEXTOID", "VARCHAROID"}
    <3>1. GetVal(row, col) = TextVal /\ Cell(row, col) = TextVal
      BY <1>3, <2>1, GetValCases, TextCells
    <3>2. SpecValue("string", row, col) = TextVal
      BY <1>3, <2>1, <3>1, SpecValueCases
    <3>3. out' = TextVal /\ ok' = TRUE /\ aborted' = aborted
      BY <2>1, <3>1, ReturnOutcome DEF GetString, Return, TextVal, NullPtr
    <3>4. DecodedAs("string", row, col, TextVal, TRUE, aborted)
      BY <1>0, <3>2 DEF DecodedAs, OutType, TextVal, NoValue
    <3>5. QED
      BY <3>3, <3>4 DEF Decoded
  <2>2. CASE res.types[col + 1] \notin {"TEXTOID", "VARCHAROID"}
    <3>1. GetVal(row, col) # NullPtr
      BY <1>3, GetValCases, CellsAreValues
    <3>2. SpecValue("string", row, col) = NoValue
      BY <1>3, <2>2, SpecValueCases
    <3>3. Assert(Return(NullPtr, FALSE))
      BY <2>2, <3>1 DEF GetString, Assert, Return
    <3>4. NullPtr \in OutType("string")
      BY DEF OutType
    <3>5. DecodedAs("string", row, col, NullPtr, FALSE, aborted)
      BY <1>0, <3>2, <3>4, FailDecoded
    <3>6. \/ out' = NullPtr /\ ok' = FALSE /\ aborted' = aborted
          \/ aborted' = TRUE /\ ok' = ok
      BY <3>3, AssertOutcome DEF Assert, Return
    <3>7. CASE aborted' = TRUE /\ ok' = ok
      BY <3>7, <1>0 DEF Decoded, DecodedAs
    <3>8. QED
      BY <3>7, <3>5, <3>6 DEF Decoded
  <2>3. QED
    BY <2>1, <2>2
<1>4. QED
  BY <1>1, <1>2, <1>3

(* Outside the result every accessor but get_bool asserts and fails.     *)
LEMMA OutsideDecoded ==
  ASSUME TypeOK, NEW a \in Accessors, NEW row \in 0..NRows, NEW col \in 0..NCols,
         ~InRange(row, col), Assert(Return(Unset, FALSE))
  PROVE  Decoded(a, row, col)
<1>0. ok \in BOOLEAN /\ aborted \in BOOLEAN
  BY DEF TypeOK
<1>1. DecodedAs(a, row, col, Unset, FALSE, aborted)
  <2>1. SpecValue(a, row, col) = NoValue
    BY SpecValueCases
  <2>2. Unset \in OutType(a)
    BY DEF OutType
  <2>3. QED
    BY <1>0, <2>1, <2>2, FailDecoded
<1>2. \/ out' = Unset /\ ok' = FALSE /\ aborted' = aborted
      \/ aborted' = TRUE /\ ok' = ok
  BY AssertOutcome DEF Assert, Return
<1>3. CASE aborted' = TRUE /\ ok' = ok
  BY <1>3, <1>0 DEF Decoded, DecodedAs
<1>4. QED
  BY <1>1, <1>2, <1>3 DEF Decoded

(* db_result_get_enum stores whatever the cell holds.                    *)
LEMMA EnumDecoded ==
  ASSUME TypeOK, NEW row \in 0..NRows, NEW col \in 0..NCols,
         GetEnum(row, col)
  PROVE  Decoded("enum", row, col)
<1>0. ok \in BOOLEAN /\ aborted \in BOOLEAN
  BY DEF TypeOK
<1>1. CASE ~InRange(row, col)
  <2>1. Assert(Return(Unset, FALSE))
    BY <1>1, GetValCases DEF GetEnum
  <2>2. QED
    BY <1>1, <2>1, OutsideDecoded DEF Accessors
<1>2. CASE InRange(row, col) /\ Cell(row, col) = NullCell
  <2>1. GetVal(row, col) = Empty
    BY <1>2, GetValCases
  <2>2. out' = Empty /\ ok' = TRUE /\ aborted' = aborted
    BY <2>1 DEF GetEnum, Return, Empty, NullPtr
  <2>3. Empty \in OutType("enum")
    BY DEF OutType
  <2>4. DecodedAs("enum", row, col, Empty, TRUE, aborted)
    BY <1>0, <1>2, <2>3 DEF DecodedAs
  <2>5. QED
    BY <2>2, <2>4 DEF Decoded
<1>3. CASE InRange(row, col) /\ Cell(row, col) # NullCell
  <2>1. GetVal(row, col) = Cell(row, col)
        /\ Cell(row, col) \in CellValues(res.types[col + 1]) \ {NullCell}
    BY <1>3, GetValCases
  <2>2. res.types[col + 1] \in Types
    <3>1. res \in Results /\ col \in 0..NCols - 1
      BY <1>3 DEF TypeOK, InRange
    <3>2. res.types \in Seq(Types)
      BY <3>1, ResultsAssumption
    <3>3. QED
      BY <3>1, <3>2 DEF NCols
  <2>3. Cell(row, col) \in OutType("enum")
    <3>1. CASE res.types[col + 1] = "INT4OID"
      <4>1. PICK l \in Halves : Cell(row, col) = Int64(0, l)
        BY <2>1, <3>1, Int4Cells
      <4>2. QED
        BY <4>1, IntOut
    <3>2. CASE res.types[col + 1] = "INT8OID"
      <4>1. PICK h, l \in Halves : Cell(row, col) = Int64(h, l)
        BY <2>1, <3>2, Int8Cells
      <4>2. QED
        BY <4>1, IntOut
    <3>3. CASE res.types[col + 1] = "BOOLOID"
      <4>1. Cell(row, col) \in {Bool(TRUE), Bool(FALSE)}
        BY <2>1, <3>3, BoolCells
      <4>2. QED
        BY <4>1 DEF OutType, Int64, Unset, TextVal, Empty, Bool
    <3>4. CASE res.types[col + 1] \in {"TEXTOID", "VARCHAROID", "ENUMOID"}
      <4>1. Cell(row, col) = TextVal
        BY <2>1, <3>4, TextCells
      <4>2. QED
        BY <4>1 DEF OutType
    <3>5. QED
      BY <2>2, <3>1, <3>2, <3>3, <3>4 DEF Types
  <2>4. SpecValue("enum", row, col) = Cell(row, col)
    BY <1>3, SpecValueCases
  <2>5. GetVal(row, col) # NullPtr
    BY <2>1, CellsAreValues
  <2>6. out' = Cell(row, col) /\ ok' = TRUE /\ aborted' = aborted
    BY <2>1, <2>5 DEF GetEnum, Return
  <2>7. Cell(row, col) # NoValue
    BY <2>1, CellsAreValues
  <2>8. DecodedAs("enum", row, col, Cell(row, col), TRUE, aborted)
    BY <1>0, <2>3, <2>4, <2>7 DEF DecodedAs
  <2>9. QED
    BY <2>6, <2>8 DEF Decoded
<1>4. QED
  BY <1>1, <1>2, <1>3

(* A type mismatch on a cell: assert(false), then a failure storing o;    *)
(* right whenever o has the accessor's type and the spec has no value.    *)
LEMMA MismatchDecoded ==
  ASSUME TypeOK, NEW a, NEW row, NEW col, NEW o \in OutType(a),
         ~(InRange(row, col) /\ Cell(row, col) = NullCell) =>
            SpecValue(a, row, col) = NoValue,
         Assert(Return(o, FALSE))
  PROVE  Decoded(a, row, col)
<1>0. ok \in BOOLEAN /\ aborted \in BOOLEAN
  BY DEF TypeOK
<1>1. DecodedAs(a, row, col, o, FALSE, aborted)
  BY <1>0, FailDecoded
<1>2. \/ out' = o /\ ok' = FALSE /\ aborted' = aborted
      \/ aborted' = TRUE /\ ok' = ok
  BY AssertOutcome DEF Assert, Return
<1>3. CASE aborted' = TRUE /\ ok' = ok
  BY <1>3, <1>0 DEF Decoded, DecodedAs
<1>4. QED
  BY <1>1, <1>2, <1>3 DEF Decoded

(* db_result_get_uint32 stores the low 32 bits of an INT4 or INT8 cell.   *)
LEMMA Uint32Decoded ==
  ASSUME TypeOK, NEW row \in 0..NRows, NEW col \in 0..NCols,
         GetUint32(row, col)
  PROVE  Decoded("uint32", row, col)
<1>0. ok \in BOOLEAN /\ aborted \in BOOLEAN
  BY DEF TypeOK
<1>1. CASE ~InRange(row, col)
  <2>1. Assert(Return(Unset, FALSE))
    BY <1>1, GetValCases DEF GetUint32
  <2>2. QED
    BY <1>1, <2>1, OutsideDecoded DEF Accessors
<1>2. CASE InRange(row, col) /\ Cell(row, col) = NullCell
  <2>1. GetVal(row, col) = Empty
    BY <1>2, GetValCases
  <2>2. CASE res.types[col + 1] \in {"INT4OID", "INT8OID"}
    <3>1. \E x \in Halves : out' = U32(x) /\ ok' = TRUE /\ aborted' = aborted
      <4>1. CASE res.types[col + 1] = "INT4OID"
        BY <2>1, <4>1 DEF GetUint32, Read32, Return, Empty, NullPtr
      <4>2. CASE res.types[col + 1] = "INT8OID"
        BY <2>1, <4>2 DEF GetUint32, Read64, Return, Empty, NullPtr, Int64
      <4>3. QED
        BY <2>2, <4>1, <4>2
    <3>2. PICK x \in Halves : out' = U32(x) /\ ok' = TRUE /\ aborted' = aborted
      BY <3>1
    <3>3. U32(x) \in OutType("uint32")
      BY DEF OutType
    <3>4. DecodedAs("uint32", row, col, U32(x), TRUE, aborted)
      BY <1>0, <1>2, <3>3 DEF DecodedAs
    <3>5. QED
      BY <3>2, <3>4 DEF Decoded
  <2>3. CASE res.types[col + 1] \notin {"INT4OID", "INT8OID"}
    <3>1. Assert(Return(U32(0), FALSE))
      BY <2>1, <2>3 DEF GetUint32, Empty, NullPtr, Assert, Return
    <3>2. U32(0) \in OutType("uint32")
      BY DEF OutType
    <3>3. QED
      BY <1>2, <3>1, <3>2, MismatchDecoded
  <2>4. QED
    BY <2>2, <2>3
<1>3. CASE InRange(row, col) /\ Cell(row, col) # NullCell
  <2>1. GetVal(row, col) = Cell(row, col)
        /\ Cell(row, col) \in CellValues(res.types[col + 1]) \ {NullCell}
    BY <1>3, GetValCases
  <2>2. GetVal(row, col) # NullPtr /\ GetVal(row, col) # Empty
    BY <2>1, CellsAreValues
  <2>3. CASE res.types[col + 1] = "INT4OID"
    <3>1. PICK l \in Halves : Cell(row, col) = Int64(0, l)
      BY <2>1, <2>3, Int4Cells
    <3>2. out' = U32(l) /\ ok' = TRUE /\ aborted' = aborted
      BY <2>1, <2>2, <2>3, <3>1 DEF GetUint32, Read32, Return, Int64
    <3>3. SpecValue("uint32", row, col) = U32(l)
      BY <1>3, <2>3, <3>1, SpecValueCases DEF Int64
    <3>4. U32(l) \in OutType("uint32") /\ U32(l) # NoValue
      BY DEF OutType, U32, NoValue
    <3>5. QED
      BY <1>0, <3>2, <3>3, <3>4 DEF Decoded, DecodedAs
  <2>4. CASE res.types[col + 1] = "INT8OID"
    <3>1. PICK h, l \in Halves : Cell(row, col) = Int64(h, l)
      BY <2>1, <2>4, Int8Cells
    <3>2. out' = U32(l) /\ ok' = TRUE /\ aborted' = aborted
      BY <2>1, <2>2, <2>4, <3>1 DEF GetUint32, Read64, Return, Int64
    <3>3. SpecValue("uint32", row, col) = U32(l)
      BY <1>3, <2>4, <3>1, SpecValueCases DEF Int64
    <3>4. U32(l) \in OutType("uint32") /\ U32(l) # NoValue
      BY DEF OutType, U32, NoValue
    <3>5. QED
      BY <1>0, <3>2, <3>3, <3>4 DEF Decoded, DecodedAs
  <2>5. CASE res.types[col + 1] \notin {"INT4OID", "INT8OID"}
    <3>1. Assert(Return(U32(0), FALSE))
      BY <2>2, <2>5 DEF GetUint32
    <3>2. U32(0) \in OutType("uint32")
      BY DEF OutType
    <3>3. SpecValue("uint32", row, col) = NoValue
      BY <1>3, <2>5, SpecValueCases
    <3>4. QED
      BY <3>1, <3>2, <3>3, MismatchDecoded
  <2>6. QED
    BY <2>3, <2>4, <2>5
<1>4. QED
  BY <1>1, <1>2, <1>3

(* db_result_get_uint64 stores an INT8 cell and an INT4 cell widened.     *)
LEMMA Uint64Decoded ==
  ASSUME TypeOK, NEW row \in 0..NRows, NEW col \in 0..NCols,
         GetUint64(row, col)
  PROVE  Decoded("uint64", row, col)
<1>0. ok \in BOOLEAN /\ aborted \in BOOLEAN
  BY DEF TypeOK
<1>1. CASE ~InRange(row, col)
  <2>1. Assert(Return(Unset, FALSE))
    BY <1>1, GetValCases DEF GetUint64
  <2>2. QED
    BY <1>1, <2>1, OutsideDecoded DEF Accessors
<1>2. CASE InRange(row, col) /\ Cell(row, col) = NullCell
  <2>1. GetVal(row, col) = Empty
    BY <1>2, GetValCases
  <2>2. CASE res.types[col + 1] \in {"INT4OID", "INT8OID"}
    <3>1. \E h, l \in Halves \cup {0} :
             out' = Int64(h, l) /\ ok' = TRUE /\ aborted' = aborted
      <4>1. CASE res.types[col + 1] = "INT4OID"
        BY <2>1, <4>1 DEF GetUint64, Read32, Return, Empty, NullPtr
      <4>2. CASE res.types[col + 1] = "INT8OID"
        BY <2>1, <4>2 DEF GetUint64, Read64, Return, Empty, NullPtr
      <4>3. QED
        BY <2>2, <4>1, <4>2
    <3>2. PICK h, l \in Halves \cup {0} :
             out' = Int64(h, l) /\ ok' = TRUE /\ aborted' = aborted
      BY <3>1
    <3>3. Int64(h, l) \in OutType("uint64")
      BY IntOut
    <3>4. DecodedAs("uint64", row, col, Int64(h, l), TRUE, aborted)
      BY <1>0, <1>2, <3>3 DEF DecodedAs
    <3>5. QED
      BY <3>2, <3>4 DEF Decoded
  <2>3. CASE res.types[col + 1] \notin {"INT4OID", "INT8OID"}
    <3>1. Assert(Return(Int64(0, 0), FALSE))
      BY <2>1, <2>3 DEF GetUint64, Empty, NullPtr, Assert, Return
    <3>2. Int64(0, 0) \in OutType("uint64")
      BY IntOut
    <3>3. QED
      BY <1>2, <3>1, <3>2, MismatchDecoded
  <2>4. QED
    BY <2>2, <2>3
<1>3. CASE InRange(row, col) /\ Cell(row, col) # NullCell
  <2>1. GetVal(row, col) = Cell(row, col)
        /\ Cell(row, col) \in CellValues(res.types[col + 1]) \ {NullCell}
    BY <1>3, GetValCases
  <2>2. GetVal(row, col) # NullPtr /\ GetVal(row, col) # Empty
    BY <2>1, CellsAreValues
  <2>3. CASE res.types[col + 1] = "INT4OID"
    <3>1. PICK l \in Halves : Cell(row, col) = Int64(0, l)
      BY <2>1, <2>3, Int4Cells
    <3>2. out' = Int64(0, l) /\ ok' = TRUE /\ aborted' = aborted
      BY <2>1, <2>2, <2>3, <3>1 DEF GetUint64, Read32, Return, Int64
    <3>3. SpecValue("uint64", row, col) = Int64(0, l)
      BY <1>3, <2>3, <3>1, SpecValueCases
    <3>4. Int64(0, l) \in OutType("uint64") /\ Int64(0, l) # NoValue
      BY IntOut DEF Int64, NoValue
    <3>5. QED
      BY <1>0, <3>2, <3>3, <3>4 DEF Decoded, DecodedAs
  <2>4. CASE res.types[col + 1] = "INT8OID"
    <3>1. PICK h, l \in Halves : Cell(row, col) = Int64(h, l)
      BY <2>1, <2>4, Int8Cells
    <3>2. out' = Int64(h, l) /\ ok' = TRUE /\ aborted' = aborted
      BY <2>1, <2>2, <2>4, <3>1 DEF GetUint64, Read64, Return
    <3>3. SpecValue("uint64", row, col) = Int64(h, l)
      BY <1>3, <2>4, <3>1, SpecValueCases
    <3>4. Int64(h, l) \in OutType("uint64") /\ Int64(h, l) # NoValue
      BY IntOut DEF Int64, NoValue
    <3>5. QED
      BY <1>0, <3>2, <3>3, <3>4 DEF Decoded, DecodedAs
  <2>5. CASE res.types[col + 1] \notin {"INT4OID", "INT8OID"}
    <3>1. Assert(Return(Int64(0, 0), FALSE))
      BY <2>2, <2>5 DEF GetUint64, Assert, Return
    <3>2. Int64(0, 0) \in OutType("uint64")
      BY IntOut
    <3>3. SpecValue("uint64", row, col) = NoValue
      BY <1>3, <2>5, SpecValueCases
    <3>4. QED
      BY <3>1, <3>2, <3>3, MismatchDecoded
  <2>6. QED
    BY <2>3, <2>4, <2>5
<1>4. QED
  BY <1>1, <1>2, <1>3

(* db_result_get_bool never asserts: it fails outside the result and on  *)
(* a column that is not BOOL, and stores the cell's bool otherwise.       *)
LEMMA BoolDecoded ==
  ASSUME TypeOK, NEW row \in 0..NRows, NEW col \in 0..NCols,
         GetBool(row, col)
  PROVE  Decoded("bool", row, col)
<1>0. ok \in BOOLEAN /\ aborted \in BOOLEAN
  BY DEF TypeOK
<1>1. CASE ~InRange(row, col)
  <2>1. GetVal(row, col) = NullPtr
    BY <1>1, GetValCases
  <2>2. out' = Unset /\ ok' = FALSE /\ aborted' = aborted
    BY <2>1 DEF GetBool, Return
  <2>3. SpecValue("bool", row, col) = NoValue
    BY <1>1, SpecValueCases
  <2>4. Unset \in OutType("bool")
    BY OutBool
  <2>5. QED
    BY <1>0, <2>2, <2>3, <2>4 DEF Decoded, DecodedAs
<1>2. CASE InRange(row, col) /\ Cell(row, col) = NullCell
  <2>1. GetVal(row, col) = Empty
    BY <1>2, GetValCases
  <2>2. Bool(FALSE) \in OutType("bool")
    BY OutBool
  <2>3. GetVal(row, col) # NullPtr
    BY <2>1 DEF Empty, NullPtr
  <2>4. CASE res.types[col + 1] = "BOOLOID"
    <3>1. out' = Bool(FALSE) /\ ok' = TRUE /\ aborted' = aborted
      BY <2>1, <2>3, <2>4 DEF GetBool, Return
    <3>2. QED
      BY <1>0, <1>2, <2>2, <3>1 DEF Decoded, DecodedAs
  <2>5. CASE res.types[col + 1] # "BOOLOID"
    <3>1. out' = Bool(FALSE) /\ ok' = FALSE /\ aborted' = aborted
      BY <2>1, <2>3, <2>5 DEF GetBool, Return
    <3>2. QED
      BY <1>0, <1>2, <2>2, <3>1 DEF Decoded, DecodedAs
  <2>6. QED
    BY <2>4, <2>5
<1>3. CASE InRange(row, col) /\ Cell(row, col) # NullCell
  <2>1. GetVal(row, col) = Cell(row, col)
        /\ Cell(row, col) \in CellValues(res.types[col + 1]) \ {NullCell}
    BY <1>3, GetValCases
  <2>2. GetVal(row, col) # NullPtr /\ GetVal(row, col) # Empty
    BY <2>1, CellsAreValues
  <2>3. CASE res.types[col + 1] = "BOOLOID"
    <3>1. Cell(row, col) \in {Bool(TRUE), Bool(FALSE)}
      BY <2>1, <2>3, BoolCells
    <3>2. out' = Cell(row, col) /\ ok' = TRUE /\ aborted' = aborted
      BY <2>1, <2>2, <2>3 DEF GetBool, Return
    <3>3. SpecValue("bool", row, col) = Cell(row, col)
      BY <1>3, <2>3, SpecValueCases
    <3>4. Cell(row, col) \in OutType("bool") /\ Cell(row, col) # NoValue
      BY <3>1, OutBool DEF Bool, NoValue
    <3>5. QED
      BY <1>0, <3>2, <3>3, <3>4 DEF Decoded, DecodedAs
  <2>4. CASE res.types[col + 1] # "BOOLOID"
    <3>1. out' = Bool(FALSE) /\ ok' = FALSE /\ aborted' = aborted
      BY <2>2, <2>4 DEF GetBool, Return
    <3>2. SpecValue("bool", row, col) = NoValue
      BY <1>3, <2>4, SpecValueCases
    <3>3. Bool(FALSE) \in OutType("bool")
      BY OutBool
    <3>4. QED
      BY <1>0, <3>1, <3>2, <3>3 DEF Decoded, DecodedAs
  <2>5. QED
    BY <2>3, <2>4
<1>4. QED
  BY <1>1, <1>2, <1>3

(* A positional call stores and returns what the spec says.               *)
LEMMA GetDecoded ==
  ASSUME TypeOK, NEW a \in Accessors, NEW row \in 0..NRows,
         NEW col \in 0..NCols, Get(a, row, col)
  PROVE  Decoded(a, row, col)
<1>1. CASE a = "string"
  BY <1>1, StringDecoded DEF Get
<1>2. CASE a = "enum"
  BY <1>2, EnumDecoded DEF Get
<1>3. CASE a = "uint32"
  BY <1>3, Uint32Decoded DEF Get
<1>4. CASE a = "uint64"
  BY <1>4, Uint64Decoded DEF Get
<1>5. CASE a = "bool"
  BY <1>5, BoolDecoded DEF Get
<1>6. QED
  BY <1>1, <1>2, <1>3, <1>4, <1>5 DEF Accessors

(* A call of a on row and column or field c, whose column is k, that left *)
(* behind what Decoded asks of k re-establishes both invariants.          *)
LEMMA CallEstablishes ==
  ASSUME TypeOK, NEW a \in Accessors, NEW row \in 0..NRows, NEW c, NEW k,
         SpecColumn(c) = k, SpecColumn(k) = k,
         Call(a, row, c), DecodedAs(a, row, k, out', ok', aborted')
  PROVE  TypeOK' /\ DecodeMatchesSpec'
<1>1. res' = res /\ last' = [acc |-> a, row |-> row, col |-> c]
      /\ reads' = reads + 1 /\ reads < MaxReads /\ reads \in Nat
  BY DEF Call, TypeOK
<1>2. SpecColumn(c)' = k
  BY <1>1 DEF SpecColumn, ColumnNo, NCols
<1>3. SpecValue(a, row, c)' = SpecValue(a, row, k)
  BY <1>1, <1>2 DEF SpecValue, InRange, NRows, NCols
<1>4. ReadNull' <=> InRange(row, k) /\ Cell(row, k) = NullCell
  BY <1>1, <1>2 DEF ReadNull, InRange, NRows, NCols, Cell
<1>5. TypeOK'
  <2>1. reads' \in 0..MaxReads
    BY <1>1, MaxReadsAssumption
  <2>2. QED
    BY <1>1, <2>1 DEF TypeOK, DecodedAs, Accessors
<1>6. DecodeMatchesSpec'
  BY <1>1, <1>3, <1>4 DEF DecodeMatchesSpec, DecodedAs, Accessors
<1>7. QED
  BY <1>5, <1>6


(* Every accessor call, positional or by field name, preserves IInv.      *)
LEMMA StepInv ==
  ASSUME IInv, [Next]_vars
  PROVE  IInv'
<1>0. NRows \in Nat /\ NCols \in Nat
  BY ResultShape DEF IInv
<1>1. CASE GetCall
  <2>1. PICK a \in Accessors, row \in 0..NRows, col \in 0..NCols :
           Call(a, row, col) /\ Get(a, row, col)
    BY <1>1 DEF GetCall
  <2>2. SpecColumn(col) = col
    BY <1>0 DEF SpecColumn
  <2>3. Decoded(a, row, col)
    BY <2>1, GetDecoded DEF IInv
  <2>4. DecodedAs(a, row, col, out', ok', aborted')
    BY <2>3 DEF Decoded
  <2>5. QED
    BY <2>1, <2>2, <2>4, CallEstablishes DEF IInv
<1>2. CASE FieldCall
  <2>1. PICK a \in Accessors \ {"enum"}, row \in 0..NRows, f \in Fields :
           Call(a, row, f) /\ Field(a, row, f)
    BY <1>2 DEF FieldCall
  <2>2. SpecColumn(f) = ColumnNo(f)
    BY FieldsAssumption DEF SpecColumn
  <2>3. res \in Results
    BY DEF IInv, TypeOK
  <2>4. CASE ColumnNo(f) = -1
    <3>1. out' = Unset /\ ok' = FALSE /\ aborted' = aborted
      BY <2>1, <2>4, ReturnOutcome DEF Field
    <3>2. SpecColumn(-1) = -1 /\ ~InRange(row, -1)
      BY DEF SpecColumn, InRange
    <3>3. SpecValue(a, row, -1) = NoValue
      BY <3>2 DEF SpecValue
    <3>4. Unset \in OutType(a) /\ aborted \in BOOLEAN
      BY DEF OutType, IInv, TypeOK
    <3>6. DecodedAs(a, row, -1, Unset, FALSE, aborted)
      BY <3>2, <3>3, <3>4 DEF DecodedAs
    <3>7. DecodedAs(a, row, -1, out', ok', aborted')
      BY <3>1, <3>6
    <3>5. QED
      BY <2>1, <2>2, <2>4, <3>2, <3>7, CallEstablishes DEF IInv
  <2>5. CASE ColumnNo(f) \in 0..NCols - 1
    <3>0. ColumnNo(f) # -1
      BY <2>5
    <3>1. Get(a, row, ColumnNo(f))
      BY <2>1, <3>0 DEF Field
    <3>2. Decoded(a, row, ColumnNo(f))
      BY <1>0, <2>5, <3>1, GetDecoded DEF IInv
    <3>3. SpecColumn(ColumnNo(f)) = ColumnNo(f)
      BY <2>5, <1>0 DEF SpecColumn
    <3>4. QED
      BY <2>1, <2>2, <3>2, <3>3, CallEstablishes DEF IInv, Decoded
  <2>6. QED
    BY <2>3, <2>4, <2>5, ColumnNoRange
<1>3. CASE UNCHANGED vars
  <2>1. TypeOK'
    BY <1>3 DEF IInv, TypeOK, vars
  <2>2. DecodeMatchesSpec'
    BY <1>3 DEF IInv, DecodeMatchesSpec, ReadNull, SpecValue,
       SpecColumn, ColumnNo, InRange, NRows, NCols, vars
  <2>3. QED
    BY <2>1, <2>2 DEF IInv
<1>4. QED
  BY <1>1, <1>2, <1>3 DEF Next

(* Initially no accessor has been called and nothing is stored.           *)
LEMMA InitInv ==
  Init => IInv
<1> SUFFICES ASSUME Init PROVE IInv
  OBVIOUS
<1>1. Unset \in OutType("none")
  BY OutNone
<1>2. TypeOK
  <2>1. res \in Results /\ out \in OutType(last.acc) /\ reads \in 0..MaxReads
        /\ last.acc \in Accessors \cup {"none"}
    BY <1>1, MaxReadsAssumption DEF Init
  <2>2. ok \in BOOLEAN /\ aborted \in BOOLEAN
    BY Zenon DEF Init
  <2>3. QED
    BY <2>1, <2>2 DEF TypeOK
<1>3. DecodeMatchesSpec
  BY DEF Init, DecodeMatchesSpec
<1>4. QED
  BY <1>2, <1>3 DEF IInv

(* Every value an accessor of db_psql.c stores through its output pointer *)
(* has the C type of that pointer, whatever results libpq returns.        *)
THEOREM ResultTypeCorrect ==
  Spec => []TypeOK
<1>1. IInv => TypeOK
  BY DEF IInv
<1>2. QED
  BY InitInv, StepInv, <1>1, PTL DEF Spec

(* For every result, every cell that holds a value, and every sequence of *)
(* accessor calls: db_result_get_* and db_result_field_* succeed exactly  *)
(* when the spec's decoder has a value and then store that value.         *)
THEOREM DecodeCorrect ==
  Spec => []DecodeMatchesSpec
<1>1. IInv => DecodeMatchesSpec
  BY DEF IInv
<1>2. QED
  BY InitInv, StepInv, <1>1, PTL DEF Spec

=============================================================================
