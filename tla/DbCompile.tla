------------------------------ MODULE DbCompile ------------------------------
(***************************************************************************)
(* The template loop of db_query in src/src/db/db_psql.c: the scan of the  *)
(* format string txt that copies literal characters into the scratch      *)
(* buffer db->q, turns each bound directive (%u %U %S %a %b) into the next *)
(* "$v" placeholder plus an entry of the parameter arrays, splices the     *)
(* inline directives (%s %t) into the text, and stops on an unknown or     *)
(* truncated directive, on a snprintf that no longer fits, or, silently,   *)
(* when DB_MAX_PARAMS directives have been seen.                           *)
(*                                                                         *)
(* Characters are abstract: "x" stands for any character that is neither   *)
(* '%' nor a directive letter.  db->q is the sequence of what was written  *)
(* up to the terminating NUL: literal characters, placeholders and spliced *)
(* va_arg strings, each with the number of bytes it takes (CellLen); o is  *)
(* the code's byte offset.  A va_arg string is identified by the template *)
(* position of its directive letter and has a length taken from ArgLens.   *)
(* A parameter records typs/fmts/lens and which argument vals points at.   *)
(***************************************************************************)
EXTENDS Naturals, Sequences, FiniteSets

CONSTANTS
    Templates,      \* the format strings callers pass as txt
    ArgLens,        \* lengths of the strings passed for %s and %t
    MaxParams,      \* DB_MAX_PARAMS == lengthof(vals)
    QSize           \* sizeof db->q

ASSUME MaxParamsAssumption == MaxParams \in Nat \ {0}
ASSUME QSizeAssumption == QSize \in Nat \ {0}
ASSUME ArgLensAssumption == 0 \in ArgLens /\ ArgLens \subseteq Nat
ASSUME TemplatesAssumption == Templates \subseteq Seq(STRING)

VARIABLES
    txt,    \* the template
    args,   \* length of the string passed for the directive letter at j
    pc,     \* "scan" while in the for loop, "done" once past it
    i,      \* index into txt (1-based)
    o,      \* bytes written to db->q
    v,      \* parameters bound so far
    rep,    \* "OK" or "ERR" (DB_R_OK / DB_R_ERR)
    q,      \* contents of db->q before its terminating NUL
    params  \* <<typs[k], fmts[k], lens[k], vals[k]>> for k < v

vars == <<txt, args, pc, i, o, v, rep, q, params>>

Bound == {"u", "U", "S", "a", "b"}
Inline == {"s", "t"}

\* the character at index j of txt, with the terminating NUL past its end
Char(s, j) == IF j <= Len(s) THEN s[j] ELSE "NUL"

\* db->q cells
Lit(c) == [kind |-> "lit", ch |-> c]
Ph(k) == [kind |-> "ph", num |-> k]
Raw(j) == [kind |-> "raw", arg |-> j]
Quoted(j) == [kind |-> "quoted", arg |-> j]

\* number of decimal digits snprintf prints for k: one, and one more for
\* every power of ten up to k
Digits(k) == 1 + Cardinality({d \in 1..k : 10^d <= k})

\* bytes snprintf produces for a cell: "$%u", "%s", "'%s'"
CellLen(c) ==
    CASE c.kind = "lit"    -> 1
      [] c.kind = "ph"     -> 1 + Digits(c.num)
      [] c.kind = "raw"    -> args[c.arg]
      [] c.kind = "quoted" -> args[c.arg] + 2

RenderLen(cells) ==
    LET R[m \in 0..Len(cells)] == IF m = 0 THEN 0 ELSE R[m - 1] + CellLen(cells[m])
    IN  R[Len(cells)]

\* Mutant: the bound check keeps a byte for the '\0' snprintf already counts
FitsNulTwice(n) == o > QSize \/ n + 1 < QSize - o

\* snprintfok(n, sizeof db->q - o): the size is a size_t, so once o has run
\* past the buffer the subtraction wraps to a huge size and any n fits
Fits(n) == o > QSize \/ n < QSize - o

\* the typs/fmts/lens assignments of each bound directive
Param(l, j) ==
    [typ |-> CASE l = "u" -> "INT4OID" [] l = "U" -> "INT8OID"
               [] l = "S" -> "TEXTOID" [] l = "a" -> "INETOID"
               [] l = "b" -> "CIDROID",
     fmt |-> IF l \in {"u", "U"} THEN 1 ELSE 0,
     len |-> CASE l = "u" -> 4 [] l = "U" -> 8 [] OTHER -> 0,
     arg |-> j]

Cells ==
    [kind : {"lit"}, ch : STRING] \cup [kind : {"ph"}, num : Nat] \cup
    [kind : {"raw", "quoted"}, arg : 1..Len(txt)]

TypeOK ==
    /\ txt \in Templates
    /\ args \in [1..Len(txt) -> ArgLens]
    /\ pc \in {"scan", "done"}
    /\ i \in 1..Len(txt) + 2
    /\ o \in Nat /\ v \in 0..MaxParams
    /\ rep \in {"OK", "ERR"}
    /\ q \in Seq(Cells)
    /\ params \in Seq({Param(l, j) : l \in Bound, j \in 1..Len(txt)})

-----------------------------------------------------------------------------
(* db_query's locals before the loop: o = 0, v = 0, rep = DB_R_OK.  The   *)
(* caller passes any template and any strings for its inline directives.  *)
Init ==
    /\ txt \in Templates
    /\ args \in {a \in [1..Len(txt) -> ArgLens] :
                   \A j \in 1..Len(txt) : txt[j] \notin Inline => a[j] = 0}
    /\ pc = "scan"
    /\ i = 1
    /\ o = 0
    /\ v = 0
    /\ rep = "OK"
    /\ q = << >>
    /\ params = << >>

\* the loop condition "rep == DB_R_OK && txt[i] != '\0'"
Scanning == pc = "scan" /\ rep = "OK" /\ i <= Len(txt)

\* Mutant: the "too many variable arguments" check is missing
DirectiveNoLimit(l) ==
    /\ Scanning
    /\ txt[i] = "%"
    /\ l = Char(txt, i + 1)
    /\ i' = i + 2

\* a '%' at i, with room left in vals; l is the letter after it
Directive(l) ==
    /\ Scanning
    /\ txt[i] = "%"
    /\ v < MaxParams
    /\ l = Char(txt, i + 1)
    /\ i' = i + 2

\* "db->q[o++] = txt[i]": no bound check
CopyChar ==
    /\ Scanning
    /\ txt[i] # "%"
    /\ q' = Append(q, Lit(txt[i]))
    /\ o' = o + 1
    /\ i' = i + 1
    /\ UNCHANGED <<txt, args, pc, v, rep, params>>

\* "if (v >= lengthof(vals)) break;" with rep still DB_R_OK
TooManyParams ==
    /\ Scanning
    /\ txt[i] = "%"
    /\ v >= MaxParams
    /\ pc' = "done"
    /\ i' = i + 1
    /\ UNCHANGED <<txt, args, o, v, rep, q, params>>

\* %a %b %u %U %S: fill slot v, then print "$v" with v already incremented
BindParam ==
    \E l \in Bound :
        /\ Directive(l)
        /\ params' = Append(params, Param(l, i + 1))
        /\ v' = v + 1
        /\ LET n == 1 + Digits(v + 1) IN
           IF Fits(n)
           THEN /\ q' = Append(q, Ph(v + 1))
                /\ o' = o + n
                /\ UNCHANGED rep
           ELSE /\ rep' = "ERR"
                /\ UNCHANGED <<q, o>>
        /\ UNCHANGED <<txt, args, pc>>

\* Mutant: %t copied like %s, without its single quotes
InlineTextUnquoted ==
    \E l \in Inline :
        /\ Directive(l)
        /\ LET c == Raw(i + 1)
               n == CellLen(c)
           IN IF Fits(n)
              THEN /\ q' = Append(q, c)
                   /\ o' = o + n
                   /\ UNCHANGED rep
              ELSE /\ rep' = "ERR"
                   /\ UNCHANGED <<q, o>>
        /\ UNCHANGED <<txt, args, pc, v, params>>

\* %s and %t: snprintf the va_arg string, bare or in single quotes
InlineText ==
    \E l \in Inline :
        /\ Directive(l)
        /\ LET c == IF l = "s" THEN Raw(i + 1) ELSE Quoted(i + 1)
               n == CellLen(c)
           IN IF Fits(n)
              THEN /\ q' = Append(q, c)
                   /\ o' = o + n
                   /\ UNCHANGED rep
              ELSE /\ rep' = "ERR"
                   /\ UNCHANGED <<q, o>>
        /\ UNCHANGED <<txt, args, pc, v, params>>

\* case '\0': a '%' ends the template
TruncatedDirective ==
    /\ Directive("NUL")
    /\ rep' = "ERR"
    /\ UNCHANGED <<txt, args, pc, o, v, q, params>>

\* default: any other character after the '%'
UnknownDirective ==
    /\ Char(txt, i + 1) \notin Bound \cup Inline \cup {"NUL"}
    /\ Directive(Char(txt, i + 1))
    /\ rep' = "ERR"
    /\ UNCHANGED <<txt, args, pc, o, v, q, params>>

\* the loop ends; db->q[o] = '\0', then DB_R_ERR or on to the send loop
EndScan ==
    /\ pc = "scan"
    /\ ~Scanning
    /\ pc' = "done"
    /\ UNCHANGED <<txt, args, i, o, v, rep, q, params>>

Next ==
    \/ CopyChar
    \/ TooManyParams
    \/ BindParam
    \/ InlineText
    \/ TruncatedDirective
    \/ UnknownDirective
    \/ EndScan

Spec == Init /\ [][Next]_vars

-----------------------------------------------------------------------------
(* The compiler the specification describes (section 4.1), written        *)
(* independently of the loop: a '%' starts a directive unless it is the   *)
(* letter of the directive before it; the items of a template are its     *)
(* literal characters and its directives; bound directives are numbered   *)
(* 1, 2, ... in order; a template is rejected for an unknown or truncated *)
(* directive, more than MaxParams bound directives, or a rendered text    *)
(* that leaves no room for its terminator in the buffer.                  *)

DirStart(s) == LET D[j \in 1..Len(s)] == s[j] = "%" /\ (j = 1 \/ ~D[j - 1])
               IN D

\* positions that start an item (every position but directive letters)
ItemPositions(s) ==
    SelectSeq([j \in 1..Len(s) |-> j], LAMBDA j : j = 1 \/ ~DirStart(s)[j - 1])

BoundAt(s, j) == DirStart(s)[j] /\ Char(s, j + 1) \in Bound

SpecItem(s, j) ==
    IF ~DirStart(s)[j] THEN Lit(s[j])
    ELSE CASE Char(s, j + 1) \in Bound ->
                Ph(Cardinality({k \in 1..j : BoundAt(s, k)}))
           [] Char(s, j + 1) = "s" -> Raw(j + 1)
           [] Char(s, j + 1) = "t" -> Quoted(j + 1)

SpecText(s) ==
    LET P == ItemPositions(s) IN [k \in 1..Len(P) |-> SpecItem(s, P[k])]

\* the binding table of section 4.1: type, binary or text, byte length
SpecBinding(l, j) ==
    [type   |-> CASE l = "u" -> "Int32" [] l = "U" -> "Int64"
                  [] l = "S" -> "Text" [] l = "a" -> "Address"
                  [] l = "b" -> "Block",
     binary |-> l \in {"u", "U"},
     width  |-> CASE l = "u" -> 4 [] l = "U" -> 8 [] OTHER -> 0,
     arg    |-> j]

SpecParams(s) ==
    LET B == SelectSeq(ItemPositions(s), LAMBDA j : BoundAt(s, j))
    IN  [k \in 1..Len(B) |-> SpecBinding(Char(s, B[k] + 1), B[k] + 1)]

SpecRejects(s) ==
    \/ \E j \in 1..Len(s) : DirStart(s)[j] /\ Char(s, j + 1) \notin Bound \cup Inline
    \/ Len(SpecParams(s)) > MaxParams
    \/ RenderLen(SpecText(s)) >= QSize

\* what the code's parameter arrays say, in the specification's terms
OidType == [INT4OID |-> "Int32", INT8OID |-> "Int64", TEXTOID |-> "Text",
            INETOID |-> "Address", CIDROID |-> "Block"]
Wire(ps) == [k \in 1..Len(ps) |-> [type |-> OidType[ps[k].typ],
                                     binary |-> ps[k].fmt = 1,
                                     width |-> ps[k].len, arg |-> ps[k].arg]]

-----------------------------------------------------------------------------
(* Properties.                                                            *)

(* The loop invariant of the template scan: while db_query is still       *)
(* compiling without error, db->q holds exactly the specification's text  *)
(* of the part of the template scanned so far (placeholders $1..$v in     *)
(* directive order, %s/%t strings spliced in, quoted for %t), o is its     *)
(* length in bytes, and the parameter arrays hold one entry per bound     *)
(* directive with the type, format and length of the binding table,       *)
(* pointing at that directive's argument.                                 *)
ScanMatchesSpec ==
    pc = "scan" /\ rep = "OK" =>
        LET done == SubSeq(txt, 1, i - 1) IN
        /\ q = SpecText(done)
        /\ Wire(params) = SpecParams(done)
        /\ o = RenderLen(q)

(* The placeholders db_query writes and the parameter arrays it hands to  *)
(* PQexecParams with nParams = v agree: every "$k" in db->q names one of   *)
(* the v slots and, while no error has been reported, every slot has its *)
(* placeholder; each filled slot holds the typs/fmts/lens of the          *)
(* directive letter whose va_arg vals points at.  An off-by-one in the "$%u" of v, or a slot      *)
(* filled without its placeholder, sends a query the server rejects or    *)
(* binds a value to the wrong placeholder.                                *)
PlaceholdersMatchParams ==
    /\ \A p \in 1..Len(q) : q[p].kind = "ph" => q[p].num \in 1..v
    /\ rep = "OK" => \A k \in 1..v : \E p \in 1..Len(q) : q[p] = Ph(k)
    /\ \A k \in 1..Len(params) : params[k] = Param(txt[params[k].arg], params[k].arg)

(* db_query never reports DB_R_ERR for a template the specification       *)
(* accepts: its snprintf bound checks and its directive dispatch reject   *)
(* only unknown or truncated directives and texts that overflow db->q.    *)
NoFalseRejection ==
    pc = "done" /\ rep = "ERR" => SpecRejects(txt)

(* Section 8: a template with at most DB_MAX_PARAMS bound directives      *)
(* whose text fits the buffer compiles to the specification's SQL text   *)
(* and parameters.                                                        *)
CompileMatchesSpec ==
    pc = "done" /\ ~SpecRejects(txt) =>
        /\ rep = "OK"
        /\ q = SpecText(txt)
        /\ Wire(params) = SpecParams(txt)

(* Every byte the loop writes into db->q, the terminating '\0' included,  *)
(* lies inside the buffer.                                                *)
QueryInBounds == o < QSize

=============================================================================
