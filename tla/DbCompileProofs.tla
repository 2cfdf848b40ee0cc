--------------------------- MODULE DbCompileProofs ---------------------------
(***************************************************************************)
(* Proofs about the template loop of db_query (DbCompile) for every set   *)
(* of templates, every DB_MAX_PARAMS, every size of db->q and every set   *)
(* of lengths of the strings spliced in for %s and %t.                    *)
(***************************************************************************)
EXTENDS DbCompile, FiniteSetTheorems, SequenceTheorems, TLAPS

USE MaxParamsAssumption, QSizeAssumption, ArgLensAssumption, TemplatesAssumption

(* The inductive invariant behind PlaceholdersMatchParams: it needs the   *)
(* types of the loop's locals, and nothing more.                          *)
IInv == TypeOK /\ PlaceholdersMatchParams

-----------------------------------------------------------------------------
(* Lemmas about the operators of the loop.                                *)

(* The digit count of snprintf's "%u" is a natural number.               *)
LEMMA DigitsNat ==
    ASSUME NEW k \in Nat
    PROVE  Digits(k) \in Nat
<1> DEFINE S == {d \in 1..k : 10^d <= k}
<1>1. IsFiniteSet(1..k)
  BY FS_Interval
<1>2. IsFiniteSet(S)
  BY <1>1, FS_Subset
<1>3. Cardinality(S) \in Nat
  BY <1>2, FS_CardinalityType
<1>4. QED
  BY <1>3 DEF Digits

(* A directive letter read by Char lies inside the template.             *)
LEMMA CharInside ==
    ASSUME NEW s, NEW j, Char(s, j) \in Bound \cup Inline
    PROVE  j <= Len(s) /\ Char(s, j) = s[j]
BY DEF Char, Bound, Inline

(* Appending to a sequence keeps its old elements and adds one at the end. *)
LEMMA AppendAt ==
    ASSUME NEW S, NEW s \in Seq(S), NEW e
    PROVE  /\ Len(Append(s, e)) = Len(s) + 1
           /\ \A p \in 1..Len(s) : Append(s, e)[p] = s[p]
           /\ Append(s, e)[Len(s) + 1] = e
OBVIOUS

(* The bytes of an inline cell are a natural number.                     *)
LEMMA InlineLen ==
    ASSUME TypeOK, NEW j \in 1..Len(txt), NEW c \in {Raw(j), Quoted(j)}
    PROVE  CellLen(c) \in Nat
BY DEF TypeOK, CellLen, Raw, Quoted


-----------------------------------------------------------------------------
(* Type correctness.                                                      *)

(* db_query's locals before the loop are well typed.                     *)
LEMMA TypeInit == Init => TypeOK
<1> SUFFICES ASSUME Init PROVE TypeOK
  OBVIOUS
<1>1. txt \in Seq(STRING) /\ Len(txt) \in Nat
  BY DEF Init
<1>2. args \in [1..Len(txt) -> ArgLens]
  BY DEF Init
<1>3. q \in Seq(Cells) /\ params \in Seq({Param(l, j) : l \in Bound, j \in 1..Len(txt)})
  BY DEF Init
<1>4. QED
  BY <1>1, <1>2, <1>3 DEF Init, TypeOK

(* Every iteration of the loop keeps the locals well typed.              *)
LEMMA TypeStep == TypeOK /\ [Next]_vars => TypeOK'
<1> SUFFICES ASSUME TypeOK, [Next]_vars PROVE TypeOK'
  OBVIOUS
<1> DEFINE Params == {Param(l, j) : l \in Bound, j \in 1..Len(txt)}
<1>0. /\ txt \in Seq(STRING) /\ Len(txt) \in Nat
      /\ q \in Seq(Cells) /\ params \in Seq(Params)
  BY DEF TypeOK
<1>1. CASE CopyChar
  <2>1. txt[i] \in STRING
    BY <1>0, <1>1 DEF CopyChar, Scanning, TypeOK
  <2>2. Lit(txt[i]) \in Cells
    BY <2>1 DEF Lit, Cells
  <2>3. q' \in Seq(Cells')
    BY <1>0, <1>1, <2>2, AppendProperties DEF CopyChar, Cells
  <2>4. QED
    BY <1>1, <2>3 DEF CopyChar, Scanning, TypeOK
<1>2. CASE TooManyParams
  BY <1>2 DEF TooManyParams, Scanning, TypeOK, Cells
<1>3. CASE BindParam
  <2>1. PICK l \in Bound : BindParam!(l)
    BY <1>3 DEF BindParam
  <2>2. i \in 1..Len(txt) /\ i + 1 <= Len(txt) /\ v < MaxParams
    BY <2>1, CharInside DEF Directive, Scanning, TypeOK
  <2>3. Param(l, i + 1) \in Params
    BY <2>2
  <2>4. params' \in Seq(Params')
    BY <1>0, <2>1, <2>3, AppendProperties DEF Directive
  <2>5. Ph(v + 1) \in Cells
    BY DEF Ph, Cells, TypeOK
  <2>6. Digits(v + 1) \in Nat
    <3>1. v + 1 \in Nat
      BY DEF TypeOK
    <3>2. QED
      BY <3>1, DigitsNat
  <2>7. q' \in Seq(Cells') /\ o' \in Nat
    <3>1. CASE Fits(1 + Digits(v + 1))
      <4>1. q' = Append(q, Ph(v + 1)) /\ o' = o + (1 + Digits(v + 1))
        BY <2>1, <3>1
      <4>2. QED
        BY <1>0, <2>1, <2>5, <2>6, <4>1, AppendProperties DEF Directive, Cells, TypeOK
    <3>2. CASE ~Fits(1 + Digits(v + 1))
      BY <1>0, <2>1, <3>2 DEF Directive, Cells, TypeOK
    <3>3. QED
      BY <3>1, <3>2
  <2>8. QED
    BY <2>1, <2>2, <2>4, <2>7 DEF Directive, TypeOK
<1>4. CASE InlineText
  <2>1. PICK l \in Inline : InlineText!(l)
    BY <1>4 DEF InlineText
  <2>2. i \in 1..Len(txt) /\ i + 1 <= Len(txt)
    BY <2>1, CharInside DEF Directive, Scanning, TypeOK
  <2> DEFINE c == IF l = "s" THEN Raw(i + 1) ELSE Quoted(i + 1)
  <2>3. c \in Cells
    BY <2>2 DEF Raw, Quoted, Cells
  <2>4. CellLen(c) \in Nat
    BY <2>2, InlineLen
  <2>5. q' \in Seq(Cells') /\ o' \in Nat
    <3>1. CASE Fits(CellLen(c))
      <4>1. q' = Append(q, c) /\ o' = o + CellLen(c)
        BY <2>1, <3>1
      <4>2. QED
        BY <1>0, <2>1, <2>3, <2>4, <4>1, AppendProperties DEF Directive, Cells, TypeOK
    <3>2. CASE ~Fits(CellLen(c))
      BY <1>0, <2>1, <3>2 DEF Directive, Cells, TypeOK
    <3>3. QED
      BY <3>1, <3>2
  <2>6. QED
    BY <2>1, <2>2, <2>5 DEF Directive, TypeOK
<1>5. CASE TruncatedDirective
  BY <1>5 DEF TruncatedDirective, Directive, Scanning, TypeOK, Cells
<1>6. CASE UnknownDirective
  BY <1>6 DEF UnknownDirective, Directive, Scanning, TypeOK, Cells
<1>7. CASE EndScan
  BY <1>7 DEF EndScan, TypeOK, Cells
<1>8. CASE UNCHANGED vars
  BY <1>8 DEF vars, TypeOK, Cells
<1>9. QED
  BY <1>1, <1>2, <1>3, <1>4, <1>5, <1>6, <1>7, <1>8 DEF Next

(* Every state the template loop reaches is well typed: the placeholders, *)
(* spliced strings and parameter slots it writes point inside txt, v never *)
(* passes DB_MAX_PARAMS, and i stays within two of the template's end.    *)
THEOREM TypeCorrect == Spec => []TypeOK
BY TypeInit, TypeStep, PTL DEF Spec


-----------------------------------------------------------------------------
(* Placeholders and parameter slots.                                      *)

(* Before the loop db->q and the parameter arrays are empty.             *)
LEMMA IInvInit == Init => IInv
<1> SUFFICES ASSUME Init PROVE IInv
  OBVIOUS
<1>1. TypeOK
  BY TypeInit
<1>2. PlaceholdersMatchParams
  BY DEF Init, PlaceholdersMatchParams
<1>3. QED
  BY <1>1, <1>2 DEF IInv

(* A step that leaves db->q, v and the parameter arrays alone and does    *)
(* not turn DB_R_ERR back into DB_R_OK keeps the placeholders matched.    *)
LEMMA KeepsPlaceholders ==
    ASSUME IInv, TypeOK', txt' = txt, v' = v, q' = q, params' = params,
           rep' = "OK" => rep = "OK"
    PROVE  PlaceholdersMatchParams'
BY DEF IInv, PlaceholdersMatchParams

(* Every iteration of the loop keeps the placeholders and slots matched. *)
LEMMA IInvStep == IInv /\ [Next]_vars => IInv'
<1> SUFFICES ASSUME IInv, [Next]_vars PROVE IInv'
  OBVIOUS
<1>0. /\ TypeOK /\ TypeOK'
      /\ q \in Seq(Cells) /\ Len(q) \in Nat /\ v \in Nat
  BY TypeStep, LenProperties DEF IInv, TypeOK
<1>1. CASE CopyChar
  <2>1. q' = Append(q, Lit(txt[i]))
    BY <1>1 DEF CopyChar
  <2>2. /\ Len(q') = Len(q) + 1
        /\ \A p \in 1..Len(q) : q'[p] = q[p]
        /\ q'[Len(q) + 1] = Lit(txt[i])
    BY <1>0, <2>1, AppendAt
  <2>3. Lit(txt[i]).kind # "ph" /\ Lit(txt[i]) # Ph(1)
    BY DEF Lit, Ph
  <2>4. \A p \in 1..Len(q') : q'[p].kind = "ph" => q'[p].num \in 1..v'
    BY <1>0, <1>1, <2>2, <2>3 DEF CopyChar, IInv, PlaceholdersMatchParams
  <2>5. rep' = "OK" => \A k \in 1..v' : \E p \in 1..Len(q') : q'[p] = Ph(k)
    BY <1>0, <1>1, <2>2 DEF CopyChar, IInv, PlaceholdersMatchParams
  <2>6. QED
    BY <1>0, <1>1, <2>4, <2>5 DEF CopyChar, IInv, PlaceholdersMatchParams
<1>2. CASE BindParam
  <2>1. PICK l \in Bound : BindParam!(l)
    BY <1>2 DEF BindParam
  <2>2. i + 1 <= Len(txt) /\ txt[i + 1] = l
    BY <2>1, CharInside DEF Directive
  <2>3. params' = Append(params, Param(l, i + 1)) /\ v' = v + 1 /\ txt' = txt
    BY <2>1
  <2>4. \A k \in 1..Len(params') : params'[k] = Param(txt'[params'[k].arg], params'[k].arg)
    <3>1. params \in Seq({Param(m, j) : m \in Bound, j \in 1..Len(txt)})
      BY <1>0 DEF TypeOK
    <3>2. /\ Len(params') = Len(params) + 1
          /\ \A k \in 1..Len(params) : params'[k] = params[k]
          /\ params'[Len(params) + 1] = Param(l, i + 1)
      BY <3>1, <2>3, AppendAt
    <3>3. Param(l, i + 1).arg = i + 1
      BY DEF Param
    <3>4. QED
      BY <2>2, <2>3, <3>2, <3>3 DEF IInv, PlaceholdersMatchParams
  <2>5. CASE Fits(1 + Digits(v + 1))
    <3>1. q' = Append(q, Ph(v + 1)) /\ rep' = rep
      BY <2>1, <2>5
    <3>2. /\ Len(q') = Len(q) + 1
          /\ \A p \in 1..Len(q) : q'[p] = q[p]
          /\ q'[Len(q) + 1] = Ph(v + 1)
      BY <1>0, <3>1, AppendAt
    <3>3. \A p \in 1..Len(q') : q'[p].kind = "ph" => q'[p].num \in 1..v'
      BY <1>0, <2>3, <3>2 DEF Ph, IInv, PlaceholdersMatchParams
    <3>4. rep' = "OK" => \A k \in 1..v' : \E p \in 1..Len(q') : q'[p] = Ph(k)
      <4> SUFFICES ASSUME rep' = "OK", NEW k \in 1..v'
                   PROVE  \E p \in 1..Len(q') : q'[p] = Ph(k)
        OBVIOUS
      <4>1. CASE k = v + 1
        BY <1>0, <3>2, <4>1
      <4>2. CASE k \in 1..v
        <5>1. PICK p \in 1..Len(q) : q[p] = Ph(k)
          BY <3>1, <4>2 DEF IInv, PlaceholdersMatchParams
        <5>2. QED
          BY <1>0, <3>2, <5>1
      <4>3. QED
        BY <1>0, <2>3, <4>1, <4>2
    <3>5. QED
      BY <1>0, <2>4, <3>3, <3>4, Zenon DEF IInv, PlaceholdersMatchParams
  <2>6. CASE ~Fits(1 + Digits(v + 1))
    <3>1. q' = q /\ rep' = "ERR"
      BY <2>1, <2>6
    <3>2. \A p \in 1..Len(q') : q'[p].kind = "ph" => q'[p].num \in 1..v'
      BY <1>0, <2>3, <3>1 DEF IInv, PlaceholdersMatchParams
    <3>3. QED
      BY <1>0, <2>4, <3>1, <3>2, Zenon DEF IInv, PlaceholdersMatchParams
  <2>7. QED
    BY <1>0, <2>5, <2>6 DEF IInv
<1>3. CASE InlineText
  <2>1. PICK l \in Inline : InlineText!(l)
    BY <1>3 DEF InlineText
  <2> DEFINE c == IF l = "s" THEN Raw(i + 1) ELSE Quoted(i + 1)
  <2>2. c.kind # "ph" /\ \A k : c # Ph(k)
    BY DEF Raw, Quoted, Ph
  <2>3. txt' = txt /\ v' = v /\ params' = params
    BY <2>1
  <2>4. CASE Fits(CellLen(c))
    <3>1. q' = Append(q, c) /\ rep' = rep
      BY <2>1, <2>4
    <3>2. /\ Len(q') = Len(q) + 1
          /\ \A p \in 1..Len(q) : q'[p] = q[p]
          /\ q'[Len(q) + 1] = c
      BY <1>0, <3>1, AppendAt
    <3>3. \A p \in 1..Len(q') : q'[p].kind = "ph" => q'[p].num \in 1..v'
      BY <1>0, <2>2, <2>3, <3>2 DEF IInv, PlaceholdersMatchParams
    <3>4. rep' = "OK" => \A k \in 1..v' : \E p \in 1..Len(q') : q'[p] = Ph(k)
      BY <1>0, <2>3, <3>1, <3>2 DEF IInv, PlaceholdersMatchParams
    <3>5. QED
      BY <1>0, <2>3, <3>3, <3>4, Zenon DEF IInv, PlaceholdersMatchParams
  <2>5. CASE ~Fits(CellLen(c))
    <3>1. q' = q /\ rep' = "ERR"
      BY <2>1, <2>5
    <3>2. QED
      BY <1>0, <2>3, <3>1, KeepsPlaceholders DEF IInv
  <2>6. QED
    BY <1>0, <2>4, <2>5 DEF IInv
<1>4. CASE TooManyParams \/ TruncatedDirective \/ UnknownDirective \/ EndScan
  <2>1. /\ txt' = txt /\ v' = v /\ q' = q /\ params' = params
        /\ rep' = "OK" => rep = "OK"
    BY <1>4 DEF TooManyParams, TruncatedDirective, UnknownDirective, EndScan
  <2>2. QED
    BY <1>0, <2>1, KeepsPlaceholders DEF IInv
<1>5. CASE UNCHANGED vars
  <2>1. /\ txt' = txt /\ v' = v /\ q' = q /\ params' = params /\ rep' = rep
    BY <1>5 DEF vars
  <2>2. QED
    BY <1>0, <2>1, KeepsPlaceholders DEF IInv
<1>6. QED
  BY <1>1, <1>2, <1>3, <1>4, <1>5 DEF Next

(* Every "$k" db_query writes into db->q names one of the v parameter     *)
(* slots it passes to PQexecParams, every slot has its placeholder while  *)
(* no error has been reported, and every slot holds the binding of the    *)
(* directive letter it was filled for: for every template, every          *)
(* DB_MAX_PARAMS and every buffer size.                                   *)
THEOREM PlaceholdersMatchParamsHolds == Spec => []PlaceholdersMatchParams
<1>1. IInv => PlaceholdersMatchParams
  BY DEF IInv
<1>2. QED
  BY <1>1, IInvInit, IInvStep, PTL DEF Spec

=============================================================================
