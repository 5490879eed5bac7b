-------------------------- MODULE DescriptorsProofs --------------------------
(***************************************************************************)
(* Proofs about the descriptors, for any statements, explicit descriptors, *)
(* calls and result sets.  Until the application touches a descriptor      *)
(* itself, no statement has an override and the two halves of its          *)
(* parameters have the same numbers; and a copy's records are those its    *)
(* source shows.                                                           *)
(***************************************************************************)
EXTENDS Descriptors, SequenceTheorems, TLAPS

Paired ==
  \A s \in Stmt :
    /\ stmt[s].ard = None /\ stmt[s].apd = None
    /\ DOMAIN desc[<<s, "Apd">>].records = DOMAIN desc[<<s, "Ipd">>].records
Halves == ~call.direct => Paired

Copied ==
  call.copied # None =>
    \E source \in Desc, target \in Desc :
      /\ call.copied = <<source, target>> /\ Role(target) # "Ird"
      /\ desc[target].records = SnapshotRecords(source)
      /\ Role(source) = "Ird" => result[source[1]] # <<>>

IInv == TypeOK /\ Halves /\ Copied

-----------------------------------------------------------------------------
(***************************************************************************)
(* Descriptors and the roles they are used in.                             *)
(***************************************************************************)
AppRole == {"Ard", "Apd"}
AnyRole == {"App", "Ard", "Apd", "Ird", "Ipd"}

LEMMA RoleIs ==
  ASSUME NEW d \in Desc
  PROVE  /\ Role(d) \in AnyRole /\ (Role(d) = "App" <=> d \in Explicit)
         /\ Role(d) # "App" => d \in Implicit /\ d[1] \in Stmt /\ d = <<d[1], Role(d)>>
BY HandlesAssumption DEF Desc, Implicit, Role, AnyRole

LEMMA ImplicitRole ==
  ASSUME NEW s \in Stmt, NEW role \in AnyRole \ {"App"}
  PROVE  <<s, role>> \in Desc /\ <<s, role>> \notin Explicit /\ Role(<<s, role>>) = role
<1>1. <<s, role>> \in Implicit
  BY DEF Implicit, AnyRole
<1>. QED  BY <1>1, HandlesAssumption DEF Desc, Role

LEMMA DescriptorOfIs ==
  ASSUME TypeOK, NEW s \in Stmt, NEW role \in AppRole
  PROVE  /\ DescriptorOf(s, role) \in Desc /\ Role(DescriptorOf(s, role)) \in {role, "App"}
         /\ stmt[s].ard = None /\ role = "Ard" => DescriptorOf(s, role) = <<s, role>>
         /\ stmt[s].apd = None /\ role = "Apd" => DescriptorOf(s, role) = <<s, role>>
<1>1. stmt[s].ard \in Explicit \cup {None} /\ stmt[s].apd \in Explicit \cup {None}
  BY DEF TypeOK, StatementOK
<1>2. <<s, role>> \in Desc /\ Role(<<s, role>>) = role
  BY ImplicitRole DEF AppRole, AnyRole
<1>3. \A d \in Explicit : d \in Desc /\ Role(d) = "App"
  BY DEF Desc, Role
<1>4. CASE role = "Ard"
  BY <1>1, <1>2, <1>3, <1>4 DEF DescriptorOf
<1>5. CASE role = "Apd"
  BY <1>1, <1>2, <1>3, <1>5 DEF DescriptorOf
<1>. QED  BY <1>4, <1>5 DEF AppRole

-----------------------------------------------------------------------------
(***************************************************************************)
(* Records: what is written of one is a record.                            *)
(***************************************************************************)
LEMMA TypesOfType ==
  ASSUME NEW t \in Type
  PROVE  /\ Promote(t) \in Type /\ VerboseType(t) \in Type /\ DatetimeIntervalSubcode(t) \in Int
         /\ IsCType(t) => Promote(t) \in {"default", "integer", "date", "timestamp"}
BY DEF Type, Promote, VerboseType, DatetimeIntervalSubcode, DatetimeType, IntervalType, IsCType

LEMMA ConciseTypeSet ==
  ASSUME NEW r \in Record, NEW t \in Type
  PROVE  SetConciseType(r, t) \in Record
<1>1. Promote(t) \in Type /\ VerboseType(Promote(t)) \in Type
      /\ DatetimeIntervalSubcode(Promote(t)) \in Int
  BY TypesOfType
<1>. QED  BY <1>1 DEF SetConciseType, Record

LEMMA DefaultIsRecord == DefaultRecord \in Record
BY DEF DefaultRecord, Record, Type, Direction

LEMMA BoundIsRecord ==
  ASSUME NEW data \in BOOLEAN, NEW ind \in BOOLEAN
  PROVE  [DefaultRecord EXCEPT !.data = data, !.ind = ind] \in Record
BY DefaultIsRecord DEF Record

LEMMA RecordFieldSet ==
  ASSUME NEW r \in Record, NEW role, NEW f, NEW v, FieldValue(f, v)
  PROVE  /\ SetRecordField(r, role, f, v) \in Record \cup {None}
         /\ f \in RecordField /\ ReadWrite(role, f) /\ Fits(f, v) =>
              SetRecordField(r, role, f, v) \in Record
<1> DEFINE after == SetRecordField(r, role, f, v)
<1>1. CASE f \notin RecordField \/ ~ReadWrite(role, f) \/ ~Fits(f, v)
  BY <1>1 DEF SetRecordField
<1>2. CASE f \in RecordField /\ ReadWrite(role, f) /\ Fits(f, v)
  <2>1. CASE f = "ConciseType"
    <3>1. v \in Type
      BY <2>1 DEF FieldValue, TypeField, PointerField
    <3>2. after = SetConciseType(r, v)
      BY <1>2, <2>1 DEF SetRecordField
    <3>. QED  BY <3>1, <3>2, ConciseTypeSet
  <2>2. CASE f = "Type"
    <3>1. v \in Type
      BY <2>2 DEF FieldValue, TypeField, PointerField
    <3>2. after = IF VerboseType(v) = v
                  THEN [r EXCEPT !.verbose = v, !.concise = v, !.code = 0]
                  ELSE [r EXCEPT !.verbose = v]
      BY <1>2, <2>2 DEF SetRecordField
    <3>3. [r EXCEPT !.verbose = v, !.concise = v, !.code = 0] \in Record
      <4> DEFINE q == [r EXCEPT !.verbose = v, !.concise = v]
      <4>1. q \in Record
        BY <3>1 DEF Record
      <4>2. [r EXCEPT !.verbose = v, !.concise = v, !.code = 0] = [q EXCEPT !.code = 0]
        BY DEF Record
      <4>. HIDE DEF q
      <4>3. [q EXCEPT !.code = 0] \in Record
        BY <4>1 DEF Record
      <4>. QED  BY <4>2, <4>3
    <3>4. [r EXCEPT !.verbose = v] \in Record
      BY <3>1 DEF Record
    <3>. QED  BY <3>2, <3>3, <3>4
  <2>3. CASE f = "DatetimeIntervalCode"
    <3>1. v \in Int /\ after = [r EXCEPT !.code = v]
      BY <1>2, <2>3 DEF SetRecordField, FieldValue, TypeField, PointerField
    <3>. QED  BY <3>1 DEF Record
  <2>4. CASE f = "Length"
    <3>1. v \in Int /\ after = [r EXCEPT !.length = v]
      BY <1>2, <2>4 DEF SetRecordField, FieldValue, TypeField, PointerField
    <3>. QED  BY <3>1 DEF Record
  <2>5. CASE f = "OctetLength"
    <3>1. v \in Int /\ after = [r EXCEPT !.octet_length = v]
      BY <1>2, <2>5 DEF SetRecordField, FieldValue, TypeField, PointerField
    <3>. QED  BY <3>1 DEF Record
  <2>6. CASE f = "Precision"
    <3>1. v \in Int /\ after = [r EXCEPT !.precision = v]
      BY <1>2, <2>6 DEF SetRecordField, FieldValue, TypeField, PointerField
    <3>. QED  BY <3>1 DEF Record
  <2>7. CASE f = "Scale"
    <3>1. v \in Int /\ after = [r EXCEPT !.scale = v]
      BY <1>2, <2>7 DEF SetRecordField, FieldValue, TypeField, PointerField
    <3>. QED  BY <3>1 DEF Record
  <2>8. CASE f = "DataPtr"
    <3>1. v \in BOOLEAN /\ (after = r \/ after = [r EXCEPT !.data = v])
      BY <1>2, <2>8 DEF SetRecordField, FieldValue, TypeField, PointerField
    <3>. QED  BY <3>1 DEF Record
  <2>9. CASE f = "IndicatorPtr"
    <3>1. v \in BOOLEAN /\ after = [r EXCEPT !.ind = v]
      BY <1>2, <2>9 DEF SetRecordField, FieldValue, TypeField, PointerField
    <3>. QED  BY <3>1 DEF Record
  <2>10. CASE f = "ParameterType"
    <3>1. v \in Direction /\ after = [r EXCEPT !.direction = v]
      BY <1>2, <2>10 DEF SetRecordField, FieldValue, TypeField, PointerField, Fits
    <3>. QED  BY <3>1 DEF Record
  <2>. HIDE DEF after
  <2>. QED  BY <1>2, <2>1, <2>2, <2>3, <2>4, <2>5, <2>6, <2>7, <2>8, <2>9, <2>10 DEF RecordField
<1>. QED  BY <1>1, <1>2

LEMMA DefinedFieldSet ==
  ASSUME NEW r \in Record, NEW role, NEW f \in RecordField \ {"ParameterType"},
         NEW v, FieldValue(f, v), Fits(f, v)
  PROVE  SetIfDefined(r, role, f, v) \in Record
BY RecordFieldSet DEF SetIfDefined

\* The two pointers of a call.
Pointers(data, ind) == FieldValue("DataPtr", data) /\ FieldValue("IndicatorPtr", ind)

LEMMA RecIsRecord ==
  ASSUME NEW r \in Record, NEW role, NEW t \in Type, NEW code \in I16, NEW length \in Int,
         NEW precision \in Int, NEW scale \in Int, NEW data, NEW ind, Pointers(data, ind)
  PROVE  WithRec(r, role, t, code, length, precision, scale, data, ind) \in Record
<1> DEFINE typed == SetIfDefined(r, role, "Type", t)
           coded == SetIfDefined(typed, role, "DatetimeIntervalCode", code)
           sized == [coded EXCEPT !.octet_length = length, !.precision = precision, !.scale = scale]
           bound == SetIfDefined(sized, role, "DataPtr", data)
<1>. USE DEF FieldValue, TypeField, PointerField, RecordField
<1>a. FieldValue("Type", t)
  OBVIOUS
<1>b. FieldValue("DatetimeIntervalCode", code)
  BY ColumnAssumption DEF I16
<1>c. /\ Fits("Type", t) /\ Fits("DatetimeIntervalCode", code)
      /\ Fits("DataPtr", data) /\ Fits("IndicatorPtr", ind)
  BY DEF Fits
<1>1. /\ FieldValue("Type", t) /\ Fits("Type", t)
      /\ FieldValue("DatetimeIntervalCode", code) /\ Fits("DatetimeIntervalCode", code)
      /\ Fits("DataPtr", data) /\ Fits("IndicatorPtr", ind)
  BY <1>a, <1>b, <1>c
<1>2. {"Type", "DatetimeIntervalCode", "DataPtr", "IndicatorPtr"} \subseteq
        RecordField \ {"ParameterType"}
  OBVIOUS
<1>. HIDE DEF FieldValue, TypeField, PointerField, RecordField
<1>0. FieldValue("DataPtr", data) /\ FieldValue("IndicatorPtr", ind)
  BY DEF Pointers
<1>3. typed \in Record
  BY <1>1, <1>2, DefinedFieldSet
<1>. HIDE DEF typed
<1>4. coded \in Record
  BY <1>1, <1>2, <1>3, DefinedFieldSet
<1>. HIDE DEF coded
<1>5. sized \in Record
  BY <1>4 DEF Record
<1>. HIDE DEF sized
<1>6. bound \in Record
  BY <1>0, <1>1, <1>2, <1>5, DefinedFieldSet
<1>. HIDE DEF bound
<1>7. SetIfDefined(bound, role, "IndicatorPtr", ind) \in Record
  BY <1>0, <1>1, <1>2, <1>6, DefinedFieldSet
<1>. QED  BY <1>7 DEF WithRec, bound, sized, coded, typed

\* A column's record has what an IRD reads of the column, as far as it fits.
ColumnRecord(r, col) ==
  /\ r.concise = col.sql_type /\ r.verbose = VerboseType(col.sql_type)
  /\ r.code = DatetimeIntervalSubcode(col.sql_type)
  /\ r.length = IF ResolvePrecisionIsize(col.precision) < 0 THEN 0
                ELSE ResolvePrecisionIsize(col.precision)
  /\ r.octet_length = OctetLengthFor(col)
  /\ r.precision = SaturateI16(PrecisionFor(col)) /\ r.scale = SaturateI16(col.scale)

LEMMA ColumnIsRecord ==
  ASSUME NEW col \in Column
  PROVE  /\ RecordFromColumn(col, DefaultRecord) \in Record
         /\ ColumnRecord(RecordFromColumn(col, DefaultRecord), col)
<1> DEFINE r == RecordFromColumn(col, DefaultRecord)
           length == IF ResolvePrecisionIsize(col.precision) < 0 THEN 0
                     ELSE ResolvePrecisionIsize(col.precision)
           octet_length == OctetLengthFor(col)
           precision == SaturateI16(PrecisionFor(col))
           scale == SaturateI16(col.scale)
<1>1. col.sql_type \in Type /\ col.precision \in Nat /\ col.scale \in Int
  BY DEF Column
<1>2. VerboseType(col.sql_type) \in Type /\ DatetimeIntervalSubcode(col.sql_type) \in Int
  BY <1>1, TypesOfType
<1>3. length \in Int
  BY <1>1 DEF ResolvePrecisionIsize, NoTotal
<1>4. octet_length \in Int
  BY <1>1 DEF OctetLengthFor, Type, CharacterType, DecimalType
<1>5. precision \in Int /\ scale \in Int
  BY <1>1, ColumnAssumption DEF PrecisionFor, SaturateI16, ResolvePrecisionIsize, NoTotal
<1>. HIDE DEF length, octet_length, precision, scale
<1>6. r = [DefaultRecord EXCEPT
     !.concise = col.sql_type, !.verbose = VerboseType(col.sql_type),
     !.code = DatetimeIntervalSubcode(col.sql_type), !.length = length,
     !.octet_length = octet_length, !.precision = precision, !.scale = scale]
  BY DEF RecordFromColumn, length, octet_length, precision, scale
<1> DEFINE typed == [DefaultRecord EXCEPT
             !.concise = col.sql_type, !.verbose = VerboseType(col.sql_type),
             !.code = DatetimeIntervalSubcode(col.sql_type)]
           sized == [typed EXCEPT !.length = length, !.octet_length = octet_length]
           scaled == [sized EXCEPT !.precision = precision, !.scale = scale]
<1>7. r = scaled
  BY <1>6
<1>. HIDE DEF r
<1>8. /\ typed \in Record /\ typed.concise = col.sql_type
      /\ typed.verbose = VerboseType(col.sql_type)
      /\ typed.code = DatetimeIntervalSubcode(col.sql_type)
  BY <1>1, <1>2, DefaultIsRecord DEF Record
<1>. HIDE DEF typed
<1>9. /\ sized \in Record /\ sized.concise = typed.concise /\ sized.verbose = typed.verbose
      /\ sized.code = typed.code /\ sized.length = length /\ sized.octet_length = octet_length
  BY <1>3, <1>4, <1>8 DEF Record
<1>. HIDE DEF sized
<1>10. /\ scaled \in Record /\ scaled.concise = sized.concise /\ scaled.verbose = sized.verbose
       /\ scaled.code = sized.code /\ scaled.length = sized.length
       /\ scaled.octet_length = sized.octet_length
       /\ scaled.precision = precision /\ scaled.scale = scale
  BY <1>5, <1>9 DEF Record
<1>. HIDE DEF scaled
<1>11. ColumnRecord(r, col)
  BY <1>7, <1>8, <1>9, <1>10 DEF ColumnRecord, length, octet_length, precision, scale
<1>. QED  BY <1>7, <1>10, <1>11 DEF r

LEMMA EmptyIs == DOMAIN Empty = {} /\ Records(Empty)
BY DEF Empty, Records

LEMMA RecordsPut ==
  ASSUME NEW rs, Records(rs), NEW n \in Nat, NEW r \in Record, NEW S
  PROVE  /\ Records(Put(rs, n, r)) /\ DOMAIN Put(rs, n, r) = DOMAIN rs \cup {n}
         /\ Records(Drop(rs, S)) /\ DOMAIN Drop(rs, S) = DOMAIN rs \ S
<1>1. DOMAIN Put(rs, n, r) = DOMAIN rs \cup {n} /\ DOMAIN Drop(rs, S) = DOMAIN rs \ S
  BY DEF Put, Drop, Restrict
<1>2. \A m \in DOMAIN Put(rs, n, r) : Put(rs, n, r)[m] = IF m = n THEN r ELSE rs[m]
  BY DEF Put
<1>3. \A m \in DOMAIN Drop(rs, S) : Drop(rs, S)[m] = rs[m]
  BY DEF Drop, Restrict
<1>. QED  BY <1>1, <1>2, <1>3 DEF Records

LEMMA AttrsPut ==
  ASSUME NEW attrs, Attrs(attrs), NEW f \in HeaderField, NEW v \in Int, NEW S,
         f = "ArraySize" => v = SupportedArraySize
  PROVE  Attrs(Put(attrs, f, v)) /\ Attrs(Drop(attrs, S))
<1>1. DOMAIN Put(attrs, f, v) = DOMAIN attrs \cup {f} /\ DOMAIN Drop(attrs, S) = DOMAIN attrs \ S
  BY DEF Put, Drop, Restrict
<1>2. \A g \in DOMAIN Put(attrs, f, v) : Put(attrs, f, v)[g] = IF g = f THEN v ELSE attrs[g]
  BY DEF Put
<1>3. \A g \in DOMAIN Drop(attrs, S) : Drop(attrs, S)[g] = attrs[g]
  BY DEF Drop, Restrict
<1>4. Attrs(Put(attrs, f, v))
  BY <1>1, <1>2 DEF Attrs
<1>5. Attrs(Drop(attrs, S))
  BY <1>1, <1>3 DEF Attrs
<1>. QED  BY <1>4, <1>5

-----------------------------------------------------------------------------
(***************************************************************************)
(* What a step leaves of the descriptors, of the statements, and of the    *)
(* call it was.                                                            *)
(***************************************************************************)
Rewritten(D, d, R, A) ==
  /\ DOMAIN D = Desc /\ \A e \in Desc \ {d} : D[e] = desc[e]
  /\ DOMAIN D[d] = {"records", "attrs"} /\ D[d].records = R /\ D[d].attrs = A

LEMMA DescriptorRewritten ==
  ASSUME TypeOK, NEW d \in Desc, NEW R, NEW A
  PROVE  /\ Rewritten([desc EXCEPT ![d].records = R], d, R, desc[d].attrs)
         /\ Rewritten([desc EXCEPT ![d].attrs = A], d, desc[d].records, A)
         /\ Rewritten([desc EXCEPT ![d] = [records |-> R, attrs |-> A]], d, R, A)
<1>1. DOMAIN desc = Desc /\ DOMAIN desc[d] = {"records", "attrs"}
  BY DEF TypeOK, DescriptorOK
<1>2. Rewritten([desc EXCEPT ![d].records = R], d, R, desc[d].attrs)
  BY <1>1 DEF Rewritten
<1>3. Rewritten([desc EXCEPT ![d].attrs = A], d, desc[d].records, A)
  BY <1>1 DEF Rewritten
<1>4. Rewritten([desc EXCEPT ![d] = [records |-> R, attrs |-> A]], d, R, A)
  BY <1>1 DEF Rewritten
<1>. QED  BY <1>2, <1>3, <1>4

DescriptorsOK == DOMAIN desc = Desc /\ \A d \in Desc : DescriptorOK(d)
StatementsOK == DOMAIN stmt = Stmt /\ \A s \in Stmt : StatementOK(s)

LEMMA RewrittenOK ==
  ASSUME TypeOK, NEW d \in Desc, NEW R, NEW A, Rewritten(desc', d, R, A),
         Records(R), Attrs(A), Role(d) = "Ird" => R = Empty
  PROVE  DescriptorsOK'
<1>1. ASSUME NEW e \in Desc, e # d PROVE DescriptorOK(e)'
  BY <1>1 DEF TypeOK, Rewritten, DescriptorOK
<1>2. DescriptorOK(d)'
  BY DEF Rewritten, DescriptorOK
<1>. QED  BY <1>1, <1>2 DEF DescriptorsOK, Rewritten

\* SQLBindParameter and SQL_RESET_PARAMS write two at once.
LEMMA TwoRewritten ==
  ASSUME TypeOK, NEW d \in Desc, NEW e \in Desc, d # e, NEW R, NEW Q,
         Records(R), Records(Q), Role(d) # "Ird", Role(e) # "Ird",
         desc' = [desc EXCEPT ![d].records = R, ![e].records = Q]
  PROVE  /\ DescriptorsOK' /\ desc'[d].records = R /\ desc'[e].records = Q
         /\ \A x \in Desc \ {d, e} : desc'[x] = desc[x]
<1>1. DOMAIN desc = Desc /\ DescriptorOK(d) /\ DescriptorOK(e)
  BY DEF TypeOK
<1>2. /\ DOMAIN desc' = Desc /\ \A x \in Desc \ {d, e} : desc'[x] = desc[x]
      /\ DOMAIN desc'[d] = {"records", "attrs"} /\ DOMAIN desc'[e] = {"records", "attrs"}
      /\ desc'[d].records = R /\ desc'[d].attrs = desc[d].attrs
      /\ desc'[e].records = Q /\ desc'[e].attrs = desc[e].attrs
  BY <1>1 DEF DescriptorOK
<1>3. ASSUME NEW x \in Desc PROVE DescriptorOK(x)'
  BY <1>1, <1>2 DEF TypeOK, DescriptorOK
<1>. QED  BY <1>2, <1>3 DEF DescriptorsOK

LEMMA StatementRewritten ==
  ASSUME TypeOK, NEW s \in Stmt, NEW A, DOMAIN A \subseteq KeptOnStmt,
         \A a \in DOMAIN A : A[a] \in Int, stmt' = [stmt EXCEPT ![s].attrs = A]
  PROVE  StatementsOK' /\ \A t \in Stmt : stmt'[t].ard = stmt[t].ard /\ stmt'[t].apd = stmt[t].apd
<1>1. DOMAIN stmt = Stmt /\ DOMAIN stmt[s] = {"ard", "apd", "attrs"}
  BY DEF TypeOK, StatementOK
<1>2. /\ DOMAIN stmt' = Stmt /\ \A t \in Stmt \ {s} : stmt'[t] = stmt[t]
      /\ DOMAIN stmt'[s] = {"ard", "apd", "attrs"} /\ stmt'[s].attrs = A
      /\ stmt'[s].ard = stmt[s].ard /\ stmt'[s].apd = stmt[s].apd
  BY <1>1
<1>3. ASSUME NEW t \in Stmt PROVE StatementOK(t)'
  BY <1>2 DEF TypeOK, StatementOK
<1>. QED  BY <1>2, <1>3 DEF StatementsOK

LEMMA UnchangedOK ==
  ASSUME TypeOK
  PROVE  (desc' = desc => DescriptorsOK') /\ (stmt' = stmt => StatementsOK')
BY DEF TypeOK, DescriptorsOK, StatementsOK, DescriptorOK, StatementOK

\* A call that is no copy.
Ended(name, answer) ==
  /\ call'.name = name /\ call'.answer = answer /\ call'.copied = None
  /\ call'.direct \in BOOLEAN /\ call'.count \in Nat

LEMMA EndsDirect ==
  ASSUME TypeOK, NEW name, NEW answer, Ends(name, answer, TRUE)
  PROVE  Ended(name, answer) /\ call'.direct
<1>1. /\ call'.name = name /\ call'.answer = answer /\ call'.copied = None
      /\ call'.direct = (call.direct \/ TRUE) /\ call'.count = call.count + 1
  BY DEF Ends
<1>2. call'.count \in Nat
  BY <1>1 DEF TypeOK
<1>3. call'.direct \in BOOLEAN /\ call'.direct
  BY <1>1, Zenon
<1>. QED  BY <1>1, <1>2, <1>3 DEF Ended

LEMMA EndsAside ==
  ASSUME TypeOK, NEW name, NEW answer, Ends(name, answer, FALSE)
  PROVE  Ended(name, answer) /\ (call.direct => call'.direct)
<1>1. /\ call'.name = name /\ call'.answer = answer /\ call'.copied = None
      /\ call'.direct = (call.direct \/ FALSE) /\ call'.count = call.count + 1
  BY DEF Ends
<1>2. call'.count \in Nat
  BY <1>1 DEF TypeOK
<1>3. call'.direct \in BOOLEAN /\ (call.direct => call'.direct)
  BY <1>1, Zenon
<1>. QED  BY <1>1, <1>2, <1>3 DEF Ended

LEMMA DirectKeeps ==
  ASSUME TypeOK, NEW name, NEW answer, Ends(name, answer, TRUE), UNCHANGED result,
         DescriptorsOK', StatementsOK'
  PROVE  TypeOK' /\ Halves' /\ Copied' /\ call'.name = name /\ call'.answer = answer
<1>1. Ended(name, answer) /\ call'.direct
  BY EndsDirect
<1>. QED  BY <1>1 DEF Ended, TypeOK, DescriptorsOK, StatementsOK, Halves, Copied

LEMMA AsideKeeps ==
  ASSUME TypeOK, Halves, NEW name, NEW answer, Ends(name, answer, FALSE), UNCHANGED result,
         DescriptorsOK', StatementsOK', ~call.direct => Halves'
  PROVE  TypeOK' /\ Halves' /\ Copied' /\ call'.name = name /\ call'.answer = answer
<1>1. Ended(name, answer) /\ (call.direct => call'.direct)
  BY EndsAside
<1>2. call.direct => Halves'
  BY <1>1, Zenon DEF Halves
<1>3. Halves'
  BY <1>2
<1>. QED  BY <1>1, <1>3 DEF Ended, TypeOK, DescriptorsOK, StatementsOK, Copied

-----------------------------------------------------------------------------
(***************************************************************************)
(* Header fields and the statement attributes they are.                    *)
(***************************************************************************)
HeaderTable ==
  {<<"Ard", "ArraySize", "RowArraySize">>, <<"Apd", "ArraySize", "ParamsetSize">>,
   <<"Ard", "BindOffsetPtr", "RowBindOffsetPtr">>, <<"Apd", "BindOffsetPtr", "ParamBindOffsetPtr">>,
   <<"Ard", "ArrayStatusPtr", "RowOperationPtr">>, <<"Apd", "ArrayStatusPtr", "ParamOperationPtr">>}
StatementTable ==
  {<<"Ird", "ArrayStatusPtr", "RowStatusPtr">>, <<"Ipd", "ArrayStatusPtr", "ParamStatusPtr">>,
   <<"Ird", "RowsProcessedPtr", "RowsFetchedPtr">>, <<"Ipd", "RowsProcessedPtr", "ParamsProcessedPtr">>}

LEMMA HeaderAttributeIs ==
  ASSUME NEW role, NEW f
  PROVE  LET attr == HeaderAttribute(role, f)
         IN  \/ attr = None
             \/ <<role, f, attr>> \in HeaderTable
             \/ <<role, f, attr>> \in StatementTable
<1> DEFINE attr == HeaderAttribute(role, f)
<1>1. ASSUME f = "ArraySize", role = "Ard" PROVE attr = "RowArraySize"
  BY <1>1 DEF HeaderAttribute
<1>2. ASSUME f = "ArraySize", role = "Apd" PROVE attr = "ParamsetSize"
  BY <1>2 DEF HeaderAttribute
<1>3. ASSUME f = "BindOffsetPtr", role = "Ard" PROVE attr = "RowBindOffsetPtr"
  BY <1>3 DEF HeaderAttribute
<1>4. ASSUME f = "BindOffsetPtr", role = "Apd" PROVE attr = "ParamBindOffsetPtr"
  BY <1>4 DEF HeaderAttribute
<1>5. ASSUME f = "ArrayStatusPtr", role = "Ard" PROVE attr = "RowOperationPtr"
  BY <1>5 DEF HeaderAttribute
<1>6. ASSUME f = "ArrayStatusPtr", role = "Apd" PROVE attr = "ParamOperationPtr"
  BY <1>6 DEF HeaderAttribute
<1>7. ASSUME f = "ArrayStatusPtr", role = "Ird" PROVE attr = "RowStatusPtr"
  BY <1>7 DEF HeaderAttribute
<1>8. ASSUME f = "ArrayStatusPtr", role = "Ipd" PROVE attr = "ParamStatusPtr"
  BY <1>8 DEF HeaderAttribute
<1>9. ASSUME f = "RowsProcessedPtr", role = "Ird" PROVE attr = "RowsFetchedPtr"
  BY <1>9 DEF HeaderAttribute
<1>10. ASSUME f = "RowsProcessedPtr", role = "Ipd" PROVE attr = "ParamsProcessedPtr"
  BY <1>10 DEF HeaderAttribute
<1>11. \/ f = "ArraySize" /\ role \in {"Ard", "Apd"}
       \/ f = "BindOffsetPtr" /\ role \in {"Ard", "Apd"}
       \/ f = "ArrayStatusPtr" /\ role \in {"Ard", "Apd", "Ird", "Ipd"}
       \/ f = "RowsProcessedPtr" /\ role \in {"Ird", "Ipd"}
       \/ attr = None
  BY DEF HeaderAttribute
<1>. HIDE DEF attr
<1>12. \/ attr = None \/ <<role, f, attr>> \in HeaderTable \/ <<role, f, attr>> \in StatementTable
  BY <1>1, <1>2, <1>3, <1>4, <1>5, <1>6, <1>7, <1>8, <1>9, <1>10, <1>11
     DEF HeaderTable, StatementTable
<1>. QED  BY <1>12 DEF attr

LEMMA HeaderOwnerIs ==
  /\ \A e \in HeaderTable : HeaderOwner(e[3]) = <<e[1], e[2]>> /\ HeaderOwner(e[3]) # None
  /\ \A e \in StatementTable : HeaderOwner(e[3]) = None
<1>1. ASSUME NEW e \in HeaderTable PROVE HeaderOwner(e[3]) = <<e[1], e[2]>>
  BY DEF HeaderTable, HeaderOwner
<1>2. ASSUME NEW e \in HeaderTable PROVE HeaderOwner(e[3]) # None
  <2>1. <<e[1], e[2]>> \in {"Ard", "Apd"} \X HeaderField
    BY DEF HeaderTable, HeaderField
  <2>. QED  BY <1>1, <2>1, NoneAssumption
<1>3. ASSUME NEW e \in StatementTable PROVE HeaderOwner(e[3]) = None
  BY DEF StatementTable, HeaderOwner
<1>. QED  BY <1>1, <1>2, <1>3

LEMMA ListedWhereWritten ==
  /\ {"01S02", "07009", "HY016", "HY021", "HY091", "HY092"} \subseteq Listed("SetDescField")
  /\ {"07009", "HY016", "HY021"} \subseteq Listed("SetDescRec")
  /\ {"HY007", "HY016", "HY021"} \subseteq Listed("CopyDesc")
  /\ {"HYC00", "HY003"} \subseteq Listed("BindCol")
  /\ {"07009", "HY105", "HY003", "07006", "HY021"} \subseteq Listed("BindParameter")
  /\ "01S02" \in Listed("SetStmtAttr")
  /\ {"07009", "HY007"} \subseteq Listed("GetDescRec")
<1>. USE DEF DescStates, BindColStates, BindParameterStates, SetStmtAttrStates, Sequence
<1>1. \A f : f = "SetDescField" =>
        {"01S02", "07009", "HY016", "HY021", "HY091", "HY092"} \subseteq Listed(f)
  BY DEF Listed
<1>2. \A f : f = "SetDescRec" => {"07009", "HY016", "HY021"} \subseteq Listed(f)
  BY DEF Listed
<1>3. \A f : f = "CopyDesc" => {"HY007", "HY016", "HY021"} \subseteq Listed(f)
  BY DEF Listed
<1>4. \A f : f = "BindCol" => {"HYC00", "HY003"} \subseteq Listed(f)
  BY DEF Listed
<1>5. \A f : f = "BindParameter" =>
        {"07009", "HY105", "HY003", "07006", "HY021"} \subseteq Listed(f)
  BY DEF Listed
<1>6. \A f : f = "SetStmtAttr" => "01S02" \in Listed(f)
  BY DEF Listed
<1>7. \A f : f = "GetDescRec" => {"07009", "HY007"} \subseteq Listed(f)
  BY DEF Listed
<1>. QED  BY <1>1, <1>2, <1>3, <1>4, <1>5, <1>6, <1>7

LEMMA IrdAttributes ==
  ASSUME NEW role, role = "Ird", NEW f \in {"ArrayStatusPtr", "RowsProcessedPtr"}
  PROVE  HeaderAttribute(role, f) # None
<1>1. ASSUME f = "ArrayStatusPtr" PROVE HeaderAttribute(role, f) = "RowStatusPtr"
  BY <1>1 DEF HeaderAttribute
<1>2. ASSUME f = "RowsProcessedPtr" PROVE HeaderAttribute(role, f) = "RowsFetchedPtr"
  BY <1>2 DEF HeaderAttribute
<1>. QED  BY <1>1, <1>2, NoneAssumption DEF Attribute, KeptOnStmt

-----------------------------------------------------------------------------
(***************************************************************************)
(* The calls on descriptors themselves.                                    *)
(***************************************************************************)
\* A refusal that leaves no trace, of the calls that promise it, and a listed
\* SQLSTATE, of all.
Honest ==
  /\ call'.name \in {"BindCol", "BindParameter", "CopyDesc"} /\ call'.answer # Success =>
       UNCHANGED <<desc, stmt>>
  /\ call'.answer # Success => call'.answer \in Listed(call'.name)
Keeps == TypeOK' /\ Halves' /\ Copied' /\ Honest

LEMMA RecordThere ==
  ASSUME TypeOK, NEW d \in Desc, NEW n
  PROVE  RecordAt(d, n) \in Record
<1>1. Records(desc[d].records)
  BY DEF TypeOK, DescriptorOK
<1>. QED  BY <1>1, DefaultIsRecord DEF RecordAt, Records

LEMMA RecordWritten ==
  ASSUME TypeOK, NEW d \in Desc, Role(d) # "Ird", NEW n \in Nat, NEW r \in Record,
         WriteRecord(d, n, r)
  PROVE  DescriptorsOK'
<1> DEFINE R == Put(desc[d].records, n, r)
<1>1. Records(desc[d].records) /\ Attrs(desc[d].attrs)
  BY DEF TypeOK, DescriptorOK
<1>2. Records(R)
  BY <1>1, RecordsPut
<1>. HIDE DEF R
<1>3. desc' = [desc EXCEPT ![d].records = R]
  BY DEF WriteRecord, R
<1>4. Rewritten(desc', d, R, desc[d].attrs)
  BY <1>3, DescriptorRewritten
<1>. QED  BY <1>1, <1>2, <1>4, RewrittenOK

LEMMA HeaderWritten ==
  ASSUME TypeOK, NEW d \in Desc, NEW f \in HeaderField, NEW v \in Int,
         f = "ArraySize" => v = SupportedArraySize,
         desc' = [desc EXCEPT ![d].attrs = Put(@, f, v)]
  PROVE  /\ DescriptorsOK' /\ \A e \in Desc : desc'[e].records = desc[e].records
<1> DEFINE A == Put(desc[d].attrs, f, v)
<1>1. Records(desc[d].records) /\ Attrs(desc[d].attrs) /\ (Role(d) = "Ird" => desc[d].records = Empty)
  BY DEF TypeOK, DescriptorOK
<1>2. Attrs(A)
  BY <1>1, AttrsPut
<1>. HIDE DEF A
<1>3. desc' = [desc EXCEPT ![d].attrs = A]
  BY DEF A
<1>4. Rewritten(desc', d, desc[d].records, A)
  BY <1>3, DescriptorRewritten
<1>5. DescriptorsOK'
  BY <1>1, <1>2, <1>4, RewrittenOK
<1>6. \A e \in Desc : desc'[e].records = desc[e].records
  BY <1>4 DEF Rewritten
<1>. QED  BY <1>5, <1>6

LEMMA AttributeKept ==
  ASSUME TypeOK, NEW s \in Stmt, NEW attr \in KeptOnStmt, NEW v \in Int,
         stmt' = [stmt EXCEPT ![s].attrs = Put(@, attr, v)]
  PROVE  StatementsOK' /\ \A t \in Stmt : stmt'[t].ard = stmt[t].ard /\ stmt'[t].apd = stmt[t].apd
<1> DEFINE A == Put(stmt[s].attrs, attr, v)
<1>1. DOMAIN stmt[s].attrs \subseteq KeptOnStmt /\ \A a \in DOMAIN stmt[s].attrs : stmt[s].attrs[a] \in Int
  BY DEF TypeOK, StatementOK
<1>2. DOMAIN A \subseteq KeptOnStmt /\ \A a \in DOMAIN A : A[a] \in Int
  BY <1>1 DEF Put
<1>. HIDE DEF A
<1>3. stmt' = [stmt EXCEPT ![s].attrs = A]
  BY DEF A
<1>. QED  BY <1>2, <1>3, StatementRewritten

LEMMA SetDescFieldKeeps ==
  ASSUME TypeOK, NEW d \in Desc, NEW n \in Int, NEW f, NEW value, FieldValue(f, value),
         SetDescField(d, n, f, value)
  PROVE  Keeps
<1> DEFINE refusal == FieldRefusal(d, n, f)
           attr == HeaderAttribute(Role(d), f)
<1>1. refusal \in {Success, "07009", "HY016", "HY091"}
  BY DEF FieldRefusal
<1>2. refusal = Success /\ Role(d) = "Ird" => f \in {"ArrayStatusPtr", "RowsProcessedPtr"}
  BY DEF FieldRefusal, Success
<1>3. UNCHANGED result
  BY DEF SetDescField, Refused, WriteField
<1>. HIDE DEF refusal, attr
<1>4. \/ refusal # Success /\ Refused("SetDescField", refusal, TRUE)
      \/ /\ refusal = Success /\ f = "Count" /\ WriteCount(d, value)
         /\ Ends("SetDescField", Success, TRUE)
      \/ refusal = Success /\ attr # None /\ WriteHeader(d, f, attr, value)
      \/ refusal = Success /\ attr = None /\ WriteField(d, n, f, value)
  BY DEF SetDescField, refusal, attr
<1>5. SUFFICES ASSUME NEW answer \in {Success, "01S02", "07009", "HY016", "HY021", "HY091", "HY092"},
                      Ends("SetDescField", answer, TRUE), DescriptorsOK', StatementsOK'
               PROVE  Keeps
  <2>1. CASE refusal # Success /\ Refused("SetDescField", refusal, TRUE)
    BY <1>1, <2>1, UnchangedOK DEF Refused
  <2>2. CASE /\ refusal = Success /\ f = "Count" /\ WriteCount(d, value)
             /\ Ends("SetDescField", Success, TRUE)
    <3> DEFINE S == {m \in DOMAIN desc[d].records : m > value}
               R == Drop(desc[d].records, S)
    <3>1. Records(desc[d].records) /\ Attrs(desc[d].attrs)
      BY DEF TypeOK, DescriptorOK
    <3>2. Records(R)
      BY <3>1, DefaultIsRecord, RecordsPut
    <3>3. Role(d) # "Ird"
      BY <1>2, <2>2
    <3>4. desc' = [desc EXCEPT ![d].records = R] /\ stmt' = stmt
      BY <2>2 DEF WriteCount
    <3>. HIDE DEF R
    <3>5. Rewritten(desc', d, R, desc[d].attrs)
      BY <3>4, DescriptorRewritten
    <3>6. DescriptorsOK' /\ StatementsOK'
      BY <3>1, <3>2, <3>3, <3>4, <3>5, RewrittenOK, UnchangedOK
    <3>. QED  BY <2>2, <3>6
  <2>3. CASE refusal = Success /\ attr # None /\ WriteHeader(d, f, attr, value)
    <3> DEFINE stored == IF f = "ArraySize" THEN SupportedArraySize ELSE value
    <3>1. \/ <<Role(d), f, attr>> \in HeaderTable \/ <<Role(d), f, attr>> \in StatementTable
      BY <2>3, HeaderAttributeIs DEF attr
    <3>2. f \in HeaderField /\ value \in Int
      BY <3>1 DEF HeaderTable, StatementTable, HeaderField, FieldValue, TypeField, PointerField
    <3>3. stored \in Int /\ (f = "ArraySize" => stored = SupportedArraySize)
      BY <3>2 DEF SupportedArraySize
    <3>. HIDE DEF stored
    <3>4. /\ \/ /\ HeaderOwner(attr) # None /\ stmt' = stmt
                /\ desc' = [desc EXCEPT ![d].attrs = Put(@, f, stored)]
             \/ /\ HeaderOwner(attr) = None /\ desc' = desc
                /\ stmt' = [stmt EXCEPT ![d[1]].attrs = Put(@, attr, stored)]
          /\ Ends("SetDescField", Stores(value, stored), TRUE)
      BY <2>3 DEF WriteHeader, stored
    <3>5. Stores(value, stored) \in {Success, "01S02"}
      BY DEF Stores
    <3>6. CASE HeaderOwner(attr) # None
      <4>1. DescriptorsOK'
        BY <3>2, <3>3, <3>4, <3>6, HeaderWritten
      <4>. QED  BY <3>4, <3>5, <3>6, <4>1, UnchangedOK
    <3>7. CASE HeaderOwner(attr) = None
      <4>1. <<Role(d), f, attr>> \in StatementTable
        BY <3>1, <3>7, HeaderOwnerIs
      <4>2. attr \in KeptOnStmt /\ Role(d) # "App"
        BY <4>1 DEF StatementTable, KeptOnStmt
      <4>3. d[1] \in Stmt
        BY <4>2, RoleIs
      <4>4. StatementsOK'
        BY <3>3, <3>4, <3>7, <4>2, <4>3, AttributeKept
      <4>. QED  BY <3>4, <3>5, <3>7, <4>4, UnchangedOK
    <3>. QED  BY <3>6, <3>7
  <2>4. CASE refusal = Success /\ attr = None /\ WriteField(d, n, f, value)
    <3> DEFINE before == RecordAt(d, Key(n))
               after == SetRecordField(before, Role(d), f, value)
               written == IF after = None THEN before ELSE after
               answer == CASE after = None /\ ~Fits(f, value) -> "HY092"
                           [] after = None /\ Fits(f, value) -> "HY091"
                           [] OTHER -> IF f = "DataPtr" THEN Checked(after, Role(d)) ELSE Success
    <3>1. Role(d) # "Ird"
      BY <1>2, <2>4, IrdAttributes DEF attr
    <3>2. before \in Record /\ Key(n) \in Nat
      BY RecordThere DEF Key
    <3>. HIDE DEF before
    <3>3. after \in Record \cup {None}
      BY <3>2, RecordFieldSet
    <3>. HIDE DEF after
    <3>4. written \in Record
      BY <3>2, <3>3
    <3>5. answer \in {Success, "HY092", "HY091", "HY021"}
      BY DEF Checked
    <3>. HIDE DEF answer, written
    <3>6. WriteRecord(d, Key(n), written) /\ Ends("SetDescField", answer, TRUE) /\ stmt' = stmt
      BY <2>4 DEF WriteField, written, answer, after, before
    <3>7. DescriptorsOK' /\ StatementsOK'
      BY <3>1, <3>2, <3>4, <3>6, RecordWritten, UnchangedOK
    <3>. QED  BY <3>5, <3>6, <3>7
  <2>. QED  BY <1>4, <2>1, <2>2, <2>3, <2>4
<1>6. /\ TypeOK' /\ Halves' /\ Copied'
      /\ call'.name = "SetDescField" /\ call'.answer = answer
  BY <1>3, <1>5, DirectKeeps
<1>7. Honest
  BY <1>5, <1>6, ListedWhereWritten DEF Honest
<1>. QED  BY <1>6, <1>7 DEF Keeps

LEMMA SetDescRecKeeps ==
  ASSUME TypeOK, NEW d \in Desc, NEW n \in Int, NEW t \in Type, NEW code \in I16,
         NEW length \in Int, NEW precision \in Int, NEW scale \in Int,
         NEW data, NEW ind, Pointers(data, ind),
         SetDescRec(d, n, t, code, length, precision, scale, data, ind)
  PROVE  Keeps
<1> DEFINE after == WithRec(RecordAt(d, n), Role(d), t, code, length, precision, scale, data, ind)
<1>1. after \in Record
  <2>1. RecordAt(d, n) \in Record
    BY RecordThere
  <2>. QED  BY <2>1, RecIsRecord
<1>. HIDE DEF after
<1>2. UNCHANGED result
  BY DEF SetDescRec, Refused
<1>3. \/ Refused("SetDescRec", "07009", TRUE) \/ Refused("SetDescRec", "HY016", TRUE)
      \/ /\ n \in Nat /\ Role(d) # "Ird" /\ WriteRecord(d, n, after) /\ stmt' = stmt
         /\ Ends("SetDescRec", Checked(after, Role(d)), TRUE)
  <2>1. CASE n < 0 \/ (n = 0 /\ Role(d) = "Ipd")
    BY <2>1 DEF SetDescRec
  <2>2. CASE ~(n < 0 \/ (n = 0 /\ Role(d) = "Ipd")) /\ Role(d) = "Ird"
    BY <2>2 DEF SetDescRec
  <2>3. CASE ~(n < 0 \/ (n = 0 /\ Role(d) = "Ipd")) /\ Role(d) # "Ird"
    <3>1. n \in Nat
      BY <2>3
    <3>2. WriteRecord(d, n, after) /\ Ends("SetDescRec", Checked(after, Role(d)), TRUE)
          /\ UNCHANGED <<stmt, result>>
      BY <2>3, Zenon DEF SetDescRec, after
    <3>. QED  BY <2>3, <3>1, <3>2
  <2>. QED  BY <2>1, <2>2, <2>3
<1>4. Checked(after, Role(d)) \in {Success, "HY021"}
  BY DEF Checked
<1>5. SUFFICES ASSUME NEW answer \in {Success, "07009", "HY016", "HY021"},
                      Ends("SetDescRec", answer, TRUE), DescriptorsOK', StatementsOK'
               PROVE  Keeps
  <2>1. CASE Refused("SetDescRec", "07009", TRUE)
    BY <2>1, UnchangedOK DEF Refused
  <2>2. CASE Refused("SetDescRec", "HY016", TRUE)
    BY <2>2, UnchangedOK DEF Refused
  <2>3. CASE /\ n \in Nat /\ Role(d) # "Ird" /\ WriteRecord(d, n, after) /\ stmt' = stmt
             /\ Ends("SetDescRec", Checked(after, Role(d)), TRUE)
    BY <1>1, <1>4, <2>3, RecordWritten, UnchangedOK
  <2>. QED  BY <1>3, <2>1, <2>2, <2>3
<1>6. /\ TypeOK' /\ Halves' /\ Copied'
      /\ call'.name = "SetDescRec" /\ call'.answer = answer
  BY <1>2, <1>5, DirectKeeps
<1>7. Honest
  BY <1>5, <1>6, ListedWhereWritten DEF Honest
<1>. QED  BY <1>6, <1>7 DEF Keeps

(***************************************************************************)
(* SQLCopyDesc: what a source shows is well typed, and is what the target  *)
(* has after the copy.                                                     *)
(***************************************************************************)
LEMMA ShownRecords ==
  ASSUME TypeOK, NEW d \in Desc
  PROVE  Records(SnapshotRecords(d))
<1>1. CASE Role(d) = "Ird"
  <2> DEFINE R == SnapshotRecords(d)
             columns == result[d[1]]
  <2>1. d[1] \in Stmt
    BY <1>1, RoleIs
  <2>2. columns \in Seq(Column)
    BY <2>1, ResultsAssumption DEF TypeOK
  <2>3. DOMAIN columns \subseteq Nat /\ \A n \in DOMAIN columns : columns[n] \in Column
    BY <2>2
  <2>4. R = [n \in DOMAIN columns |-> RecordFromColumn(columns[n], DefaultRecord)]
    BY <1>1 DEF SnapshotRecords
  <2>. HIDE DEF columns, R
  <2>5. DOMAIN R = DOMAIN columns
        /\ \A n \in DOMAIN columns : R[n] = RecordFromColumn(columns[n], DefaultRecord)
    BY <2>4
  <2>6. \A n \in DOMAIN columns : RecordFromColumn(columns[n], DefaultRecord) \in Record
    BY <2>3, ColumnIsRecord
  <2>7. Records(R)
    BY <2>3, <2>5, <2>6 DEF Records
  <2>. QED  BY <2>7 DEF R
<1>2. CASE Role(d) # "Ird"
  BY <1>2 DEF SnapshotRecords, TypeOK, DescriptorOK
<1>. QED  BY <1>1, <1>2

LEMMA ShownAttrs ==
  ASSUME TypeOK, NEW d \in Desc
  PROVE  Attrs(SnapshotAttrs(d))
<1> DEFINE A == SnapshotAttrs(d)
           M == MergedFields(d)
<1>1. /\ DOMAIN A = DOMAIN desc[d].attrs \cup M
      /\ \A f \in DOMAIN A : A[f] = IF f \in M THEN stmt[d[1]].attrs[HeaderAttribute(Role(d), f)]
                                   ELSE desc[d].attrs[f]
  BY DEF SnapshotAttrs
<1>2. Attrs(desc[d].attrs)
  BY DEF TypeOK, DescriptorOK
<1>3. M \subseteq {"ArrayStatusPtr", "RowsProcessedPtr"}
  BY DEF MergedFields
<1>4. \A f \in M : stmt[d[1]].attrs[HeaderAttribute(Role(d), f)] \in Int
  <2>1. SUFFICES ASSUME NEW f \in M
                 PROVE  stmt[d[1]].attrs[HeaderAttribute(Role(d), f)] \in Int
    OBVIOUS
  <2>2. Role(d) \in {"Ird", "Ipd"} /\ HeaderAttribute(Role(d), f) \in DOMAIN stmt[d[1]].attrs
    BY <2>1 DEF MergedFields
  <2>3. d[1] \in Stmt
    BY <2>2, RoleIs
  <2>. QED  BY <2>2, <2>3 DEF TypeOK, StatementOK
<1>. HIDE DEF A, M
<1>5. DOMAIN A \subseteq HeaderField /\ \A f \in DOMAIN A : A[f] \in Int
  BY <1>1, <1>2, <1>3, <1>4 DEF Attrs, HeaderField
<1>6. "ArraySize" \in DOMAIN A => A["ArraySize"] = SupportedArraySize
  BY <1>1, <1>2, <1>3 DEF Attrs
<1>7. Attrs(A)
  BY <1>5, <1>6 DEF Attrs
<1>. QED  BY <1>7 DEF A

LEMMA CopyDescKeeps ==
  ASSUME TypeOK, NEW source \in Desc, NEW target \in Desc, CopyDesc(source, target)
  PROVE  Keeps
<1> DEFINE records == SnapshotRecords(source)
           attrs == SnapshotAttrs(source)
           moved == MovedFields(target, attrs)
           refusal == CopyRefusal(source, target, records)
<1>1. UNCHANGED result
  BY DEF CopyDesc, Refused
<1>2. CASE refusal # Success
  <2>1. Refused("CopyDesc", refusal, TRUE)
    BY <1>2 DEF CopyDesc
  <2>2. refusal \in {"HY016", "HY007", "HY021"}
    BY <1>2 DEF CopyRefusal
  <2>. HIDE DEF refusal
  <2>3. UNCHANGED <<desc, stmt>> /\ Ends("CopyDesc", refusal, TRUE)
    BY <2>1 DEF Refused
  <2>4. DescriptorsOK' /\ StatementsOK'
    BY <2>3, UnchangedOK
  <2>5. /\ TypeOK' /\ Halves' /\ Copied'
        /\ call'.name = "CopyDesc" /\ call'.answer = refusal
    BY <1>1, <2>3, <2>4, DirectKeeps
  <2>6. Honest
    BY <2>2, <2>3, <2>5, ListedWhereWritten DEF Honest
  <2>. QED  BY <2>5, <2>6 DEF Keeps
<1>3. CASE refusal = Success
  <2> DEFINE given == [a \in DOMAIN stmt[target[1]].attrs
                               \cup {HeaderAttribute("Ipd", f) : f \in moved} |->
                         IF \E f \in moved : a = HeaderAttribute("Ipd", f)
                         THEN attrs[CHOOSE f \in moved : a = HeaderAttribute("Ipd", f)]
                         ELSE stmt[target[1]].attrs[a]]
             left == Drop(attrs, moved)
  <2>1. /\ desc' = [desc EXCEPT ![target] = [records |-> records, attrs |-> left]]
        /\ stmt' = IF moved = {} THEN stmt ELSE [stmt EXCEPT ![target[1]].attrs = given]
        /\ call' = [name |-> "CopyDesc", answer |-> Success, count |-> call.count + 1,
                    direct |-> TRUE, copied |-> <<source, target>>]
    BY <1>3 DEF CopyDesc
  <2>2. Role(target) # "Ird" /\ (Role(source) = "Ird" => result[source[1]] # <<>>)
    BY <1>3 DEF CopyRefusal, Success, Populated
  <2>3. Records(records) /\ Attrs(attrs)
    BY ShownRecords, ShownAttrs
  <2>4. moved \subseteq {"ArrayStatusPtr", "RowsProcessedPtr"} \cap DOMAIN attrs
        /\ \A f \in moved : <<Role(target), f, HeaderAttribute(Role(target), f)>> \in StatementTable
    BY HeaderAttributeIs, HeaderOwnerIs DEF MovedFields
  <2>. HIDE DEF records, attrs, moved, refusal
  <2>5. Attrs(left)
    <3>1. DOMAIN left = DOMAIN attrs \ moved /\ \A f \in DOMAIN left : left[f] = attrs[f]
      BY DEF Drop, Restrict
    <3>. HIDE DEF left
    <3>. QED  BY <2>3, <3>1 DEF Attrs
  <2>. HIDE DEF left
  <2>6. Rewritten(desc', target, records, left)
    BY <2>1, DescriptorRewritten
  <2>7. DescriptorsOK'
    BY <2>2, <2>3, <2>5, <2>6, RewrittenOK
  <2>8. StatementsOK'
    <3>1. CASE moved = {}
      BY <2>1, <3>1, UnchangedOK
    <3>2. CASE moved # {}
      <4>1. Role(target) = "Ipd"
        BY <2>2, <2>4, <3>2 DEF StatementTable
      <4>2. target[1] \in Stmt
        BY <4>1, RoleIs
      <4>3. \A f \in moved : HeaderAttribute("Ipd", f) \in KeptOnStmt
        BY <2>4, <4>1 DEF StatementTable, KeptOnStmt
      <4>4. DOMAIN stmt[target[1]].attrs \subseteq KeptOnStmt
            /\ \A a \in DOMAIN stmt[target[1]].attrs : stmt[target[1]].attrs[a] \in Int
        BY <4>2 DEF TypeOK, StatementOK
      <4>5. DOMAIN given \subseteq KeptOnStmt
        BY <4>3, <4>4
      <4>6. ASSUME NEW a \in DOMAIN given PROVE given[a] \in Int
        <5>1. CASE \E f \in moved : a = HeaderAttribute("Ipd", f)
          <6> DEFINE g == CHOOSE f \in moved : a = HeaderAttribute("Ipd", f)
          <6>1. g \in moved
            BY <5>1
          <6>2. given[a] = attrs[g]
            BY <4>6, <5>1
          <6>. HIDE DEF g
          <6>. QED  BY <2>3, <2>4, <6>1, <6>2 DEF Attrs
        <5>2. CASE ~ \E f \in moved : a = HeaderAttribute("Ipd", f)
          <6>1. a \in DOMAIN stmt[target[1]].attrs /\ given[a] = stmt[target[1]].attrs[a]
            BY <4>6, <5>2
          <6>. QED  BY <4>4, <6>1
        <5>. QED  BY <5>1, <5>2
      <4>. HIDE DEF given
      <4>7. stmt' = [stmt EXCEPT ![target[1]].attrs = given]
        BY <2>1, <3>2
      <4>. QED  BY <4>2, <4>5, <4>6, <4>7, StatementRewritten
    <3>. QED  BY <3>1, <3>2
  <2>9. /\ call'.name = "CopyDesc" /\ call'.answer = Success /\ call'.direct = TRUE
        /\ call'.count \in Nat /\ call'.copied = <<source, target>>
    BY <2>1 DEF TypeOK
  <2>10. TypeOK'
    BY <1>1, <2>7, <2>8, <2>9 DEF TypeOK, DescriptorsOK, StatementsOK
  <2>11. Halves' /\ Honest
    BY <2>9 DEF Halves, Honest
  <2>12. desc'[target].records = SnapshotRecords(source)'
    <3>1. desc'[target].records = records
      BY <2>6 DEF Rewritten
    <3>2. CASE Role(source) = "Ird"
      BY <1>1, <3>1, <3>2 DEF SnapshotRecords, records
    <3>3. CASE Role(source) # "Ird"
      <4>1. records = desc[source].records /\ SnapshotRecords(source)' = desc'[source].records
        BY <3>3 DEF SnapshotRecords, records
      <4>2. source # target => desc'[source] = desc[source]
        BY <2>6 DEF Rewritten
      <4>. QED  BY <3>1, <4>1, <4>2
    <3>. QED  BY <3>2, <3>3
  <2>13. Copied'
    BY <1>1, <2>2, <2>9, <2>12 DEF Copied
  <2>. QED  BY <2>10, <2>11, <2>13 DEF Keeps
<1>. QED  BY <1>2, <1>3

-----------------------------------------------------------------------------
(***************************************************************************)
(* The calls that bind, unbind and set attributes.                         *)
(***************************************************************************)
\* A call that is no descriptor's own and succeeds.
LEMMA AsideSucceeds ==
  ASSUME TypeOK, Halves, NEW name, NEW answer \in {Success, "01S02"},
         answer = "01S02" => name = "SetStmtAttr", Ends(name, answer, FALSE),
         UNCHANGED result, DescriptorsOK', StatementsOK', Paired => Paired'
  PROVE  Keeps
<1>1. ~call.direct => Halves'
  BY Zenon DEF Halves
<1>2. /\ TypeOK' /\ Halves' /\ Copied' /\ call'.name = name /\ call'.answer = answer
  BY <1>1, AsideKeeps
<1>3. Honest
  <2>1. CASE answer = Success
    BY <1>2, <2>1 DEF Honest
  <2>2. CASE answer = "01S02"
    BY <1>2, <2>2, ListedWhereWritten DEF Honest
  <2>. QED  BY <2>1, <2>2
<1>. QED  BY <1>2, <1>3 DEF Keeps

LEMMA AsideRefused ==
  ASSUME TypeOK, Halves, NEW name, NEW answer, answer \in Listed(name),
         Refused(name, answer, FALSE)
  PROVE  Keeps
<1>1. UNCHANGED <<desc, stmt, result>> /\ Ends(name, answer, FALSE)
  BY DEF Refused
<1>2. DescriptorsOK' /\ StatementsOK'
  BY <1>1, UnchangedOK
<1>3. ~call.direct => Halves'
  <2>1. ASSUME ~call.direct PROVE Paired'
    BY <1>1, <2>1, Zenon DEF Halves, Paired
  <2>. QED  BY <2>1 DEF Halves
<1>4. /\ TypeOK' /\ Halves' /\ Copied' /\ call'.name = name /\ call'.answer = answer
  BY <1>1, <1>2, <1>3, AsideKeeps
<1>. QED  BY <1>1, <1>4 DEF Honest, Keeps

\* A C type with its own subcode is always consistent: SQLBindCol, whose page
\* has no HY021, cannot answer with it.
LEMMA CTypeConsistent ==
  ASSUME NEW t \in Type, IsCType(t), NEW data \in BOOLEAN, NEW ind \in BOOLEAN
  PROVE  Consistent(SetConciseType([DefaultRecord EXCEPT !.data = data, !.ind = ind], t), "Ard")
<1> DEFINE bound == [DefaultRecord EXCEPT !.data = data, !.ind = ind]
           r == SetConciseType(bound, t)
<1>1. bound \in Record
  BY BoundIsRecord, Zenon
<1>2. bound.precision = 0
  BY DEF DefaultRecord
<1>. HIDE DEF bound
<1>3. /\ r.concise = Promote(t) /\ r.code = DatetimeIntervalSubcode(Promote(t))
      /\ r.precision = 0
  BY <1>1, <1>2 DEF SetConciseType, Record
<1>. HIDE DEF r
<1>4. Promote(t) \in {"default", "integer", "date", "timestamp"}
  BY TypesOfType
<1>5. CASE Promote(t) \in {"default", "integer"}
  <2>1. VerboseType(Promote(t)) = Promote(t) /\ DatetimeIntervalSubcode(Promote(t)) = 0
    BY <1>5 DEF VerboseType, DatetimeIntervalSubcode, DatetimeType, IntervalType
  <2>. QED  BY <1>3, <1>5, <2>1 DEF r, bound, Consistent, IsCType, DecimalType
<1>6. CASE Promote(t) = "date"
  <2>1. VerboseType(Promote(t)) = "datetime" /\ DatetimeIntervalSubcode(Promote(t)) = 1
    BY <1>6 DEF VerboseType, DatetimeIntervalSubcode, DatetimeType, IntervalType
  <2>. QED  BY <1>3, <1>6, <2>1 DEF r, bound, Consistent, IsCType, DecimalType
<1>7. CASE Promote(t) = "timestamp"
  <2>1. VerboseType(Promote(t)) = "datetime" /\ DatetimeIntervalSubcode(Promote(t)) = 3
    BY <1>7 DEF VerboseType, DatetimeIntervalSubcode, DatetimeType, IntervalType
  <2>. QED  BY <1>3, <1>7, <2>1 DEF r, bound, Consistent, IsCType, DecimalType
<1>. QED  BY <1>4, <1>5, <1>6, <1>7

\* What is written of a statement's ARD is not its parameters.
LEMMA ArdIsNoParameter ==
  ASSUME TypeOK, Paired, NEW s \in Stmt, NEW R, stmt' = stmt,
         Rewritten(desc', DescriptorOf(s, "Ard"), R, desc[DescriptorOf(s, "Ard")].attrs)
  PROVE  Paired'
<1>1. DescriptorOf(s, "Ard") = <<s, "Ard">>
  BY DescriptorOfIs DEF Paired, AppRole
<1>2. ASSUME NEW t \in Stmt, NEW role \in {"Apd", "Ipd"} PROVE desc'[<<t, role>>] = desc[<<t, role>>]
  <2>1. <<t, role>> \in Desc
    BY ImplicitRole DEF AnyRole
  <2>2. <<t, role>> # <<s, "Ard">>
    OBVIOUS
  <2>. QED  BY <1>1, <2>1, <2>2 DEF Rewritten
<1>3. ASSUME NEW t \in Stmt
      PROVE  /\ stmt'[t].ard = None /\ stmt'[t].apd = None
             /\ DOMAIN desc'[<<t, "Apd">>].records = DOMAIN desc'[<<t, "Ipd">>].records
  <2>1. desc'[<<t, "Apd">>] = desc[<<t, "Apd">>]
    BY <1>2
  <2>2. desc'[<<t, "Ipd">>] = desc[<<t, "Ipd">>]
    BY <1>2
  <2>. QED  BY <2>1, <2>2 DEF Paired
<1>. QED  BY <1>3, Zenon DEF Paired

LEMMA BindColKeeps ==
  ASSUME TypeOK, Halves, NEW s \in Stmt, NEW n \in Int, NEW t \in Type,
         NEW data \in BOOLEAN, NEW ind \in BOOLEAN, BindCol(s, n, t, data, ind)
  PROVE  Keeps
<1> DEFINE ard == DescriptorOf(s, "Ard")
           record == SetConciseType([DefaultRecord EXCEPT !.data = data, !.ind = ind], t)
           refusal == BindColRefusal(n, t, record, data \/ ind)
           R == IF data \/ ind THEN Put(desc[ard].records, n, record)
                ELSE Drop(desc[ard].records, {n})
<1>1. record \in Record
  <2>1. [DefaultRecord EXCEPT !.data = data, !.ind = ind] \in Record
    BY BoundIsRecord, Zenon
  <2>. QED  BY <2>1, ConciseTypeSet
<1>2. IsCType(t) => Consistent(record, "Ard")
  BY CTypeConsistent, Zenon
<1>3. refusal \in {Success, "HYC00", "HY003"}
  <2>. HIDE DEF record
  <2>1. ASSUME n = 0 PROVE refusal = "HYC00"
    BY <2>1 DEF BindColRefusal
  <2>2. ASSUME n # 0, data \/ ind, ~IsCType(t) PROVE refusal = "HY003"
    BY <2>2 DEF BindColRefusal
  <2>3. ASSUME n # 0, ~((data \/ ind) /\ ~IsCType(t)) PROVE refusal = Success
    <3>1. refusal = IF data \/ ind THEN Checked(record, "Ard") ELSE Success
      BY <2>3 DEF BindColRefusal
    <3>. HIDE DEF refusal
    <3>. QED  BY <1>2, <2>3, <3>1 DEF Checked
  <2>. QED  BY <2>1, <2>2, <2>3
<1>4. UNCHANGED result
  BY DEF BindCol, Refused
<1>5. \/ refusal # Success /\ Refused("BindCol", refusal, FALSE)
      \/ /\ n >= 0 /\ desc' = [desc EXCEPT ![ard].records = R] /\ stmt' = stmt
         /\ Ends("BindCol", Success, FALSE)
  BY DEF BindCol
<1>. HIDE DEF record, refusal
<1>6. CASE refusal # Success /\ Refused("BindCol", refusal, FALSE)
  <2>1. refusal \in Listed("BindCol")
    BY <1>3, <1>6, ListedWhereWritten
  <2>. QED  BY <1>6, <2>1, AsideRefused
<1>7. CASE /\ n >= 0 /\ desc' = [desc EXCEPT ![ard].records = R] /\ stmt' = stmt
           /\ Ends("BindCol", Success, FALSE)
  <2>1. ard \in Desc /\ Role(ard) \in {"Ard", "App"}
    BY DescriptorOfIs DEF AppRole
  <2>. HIDE DEF ard
  <2>2. Records(desc[ard].records) /\ Attrs(desc[ard].attrs)
    <3>1. DescriptorOK(ard)
      BY <2>1 DEF TypeOK
    <3>. QED  BY <3>1 DEF DescriptorOK
  <2>3. Records(R)
    <3>1. n \in Nat
      BY <1>7
    <3>2. Records(Put(desc[ard].records, n, record)) /\ Records(Drop(desc[ard].records, {n}))
      BY <1>1, <2>2, <3>1, RecordsPut
    <3>. QED  BY <3>2, Zenon
  <2>. HIDE DEF R
  <2>4. Rewritten(desc', ard, R, desc[ard].attrs)
    BY <1>7, <2>1, DescriptorRewritten
  <2>5. DescriptorsOK' /\ StatementsOK'
    BY <1>7, <2>1, <2>2, <2>3, <2>4, RewrittenOK, UnchangedOK
  <2>6. ASSUME Paired PROVE Paired'
    BY <1>7, <2>4, <2>6, ArdIsNoParameter DEF ard
  <2>. QED  BY <1>4, <1>7, <2>5, <2>6, AsideSucceeds DEF Success
<1>. QED  BY <1>5, <1>6, <1>7

LEMMA DeclaredIsRecord ==
  ASSUME NEW direction \in Direction, NEW sqltype \in Type, NEW size \in Int, NEW digits \in Int
  PROVE  Declared(direction, sqltype, size, digits) \in Record
<1> DEFINE precision == IF sqltype \in DecimalType THEN SaturateI16(size) ELSE 0
           sized == [DefaultRecord EXCEPT !.length = size, !.scale = digits]
           directed == [sized EXCEPT !.direction = direction, !.precision = precision]
<1>1. precision \in Int
  BY ColumnAssumption DEF SaturateI16
<1>. HIDE DEF precision
<1>2. sized \in Record
  BY DefaultIsRecord DEF Record
<1>3. [DefaultRecord EXCEPT !.length = size, !.scale = digits, !.direction = direction,
                            !.precision = precision] = directed
  OBVIOUS
<1>. HIDE DEF sized
<1>4. directed \in Record
  BY <1>1, <1>2 DEF Record
<1>. HIDE DEF directed
<1>5. Declared(direction, sqltype, size, digits) = SetConciseType(directed, sqltype)
  BY <1>3, Zenon DEF Declared, precision
<1>. QED  BY <1>4, <1>5, ConciseTypeSet

\* The two descriptors of a statement's parameters, written together.
LEMMA ParametersRewritten ==
  ASSUME TypeOK, NEW s \in Stmt, NEW R, NEW Q, Records(R), Records(Q),
         Paired => DOMAIN R = DOMAIN Q, stmt' = stmt,
         desc' = [desc EXCEPT ![DescriptorOf(s, "Apd")].records = R,
                              ![<<s, "Ipd">>].records = Q]
  PROVE  DescriptorsOK' /\ StatementsOK' /\ (Paired => Paired')
<1> DEFINE apd == DescriptorOf(s, "Apd")
           ipd == <<s, "Ipd">>
<1>1. apd \in Desc /\ Role(apd) \in {"Apd", "App"} /\ (stmt[s].apd = None => apd = <<s, "Apd">>)
  BY DescriptorOfIs DEF AppRole
<1>2. ipd \in Desc /\ Role(ipd) = "Ipd"
  BY ImplicitRole DEF AnyRole
<1>. HIDE DEF apd
<1>3. desc' = [desc EXCEPT ![apd].records = R, ![ipd].records = Q]
  BY DEF apd
<1>. HIDE DEF ipd
<1>4. apd # ipd
  BY <1>1, <1>2
<1>5. /\ DescriptorsOK' /\ desc'[apd].records = R /\ desc'[ipd].records = Q
      /\ \A x \in Desc \ {apd, ipd} : desc'[x] = desc[x]
  BY <1>1, <1>2, <1>3, <1>4, TwoRewritten
<1>6. StatementsOK'
  BY UnchangedOK
<1>7. ASSUME Paired PROVE Paired'
  <2>1. ASSUME NEW t \in Stmt
        PROVE  /\ stmt'[t].ard = None /\ stmt'[t].apd = None
               /\ DOMAIN desc'[<<t, "Apd">>].records = DOMAIN desc'[<<t, "Ipd">>].records
    <3>1. stmt[t].ard = None /\ stmt[t].apd = None /\ stmt[s].apd = None
          /\ DOMAIN desc[<<t, "Apd">>].records = DOMAIN desc[<<t, "Ipd">>].records
      BY <1>7 DEF Paired
    <3>2. apd = <<s, "Apd">>
      BY <1>1, <3>1
    <3>3. CASE t = s
      <4>1. desc'[<<t, "Apd">>].records = R /\ desc'[<<t, "Ipd">>].records = Q
        BY <1>5, <3>2, <3>3 DEF ipd
      <4>. QED  BY <1>7, <3>1, <4>1
    <3>4. CASE t # s
      <4>1. <<t, "Apd">> \in Desc \ {apd, ipd}
        BY <3>2, <3>4, ImplicitRole DEF ipd, AnyRole
      <4>2. <<t, "Ipd">> \in Desc \ {apd, ipd}
        BY <3>2, <3>4, ImplicitRole DEF ipd, AnyRole
      <4>3. desc'[<<t, "Apd">>] = desc[<<t, "Apd">>] /\ desc'[<<t, "Ipd">>] = desc[<<t, "Ipd">>]
        BY <1>5, <4>1, <4>2
      <4>. QED  BY <3>1, <4>3
    <3>. QED  BY <3>3, <3>4
  <2>. QED  BY <2>1, Zenon DEF Paired
<1>. QED  BY <1>5, <1>6, <1>7

LEMMA BindParameterKeeps ==
  ASSUME TypeOK, Halves, NEW s \in Stmt, NEW n \in Int, NEW direction \in Direction \cup {None},
         NEW ctype \in Type, NEW sqltype \in Type, NEW size \in Int, NEW digits \in Int,
         NEW data, NEW ind, Pointers(data, ind),
         BindParameter(s, n, direction, ctype, sqltype, size, digits, data, ind)
  PROVE  Keeps
<1> DEFINE apd == DescriptorOf(s, "Apd")
           ipd == <<s, "Ipd">>
           here == SetConciseType([DefaultRecord EXCEPT !.data = data, !.ind = ind], ctype)
           declared == Declared(direction, sqltype, size, digits)
           refusal == BindParameterRefusal(n, direction, ctype, sqltype, here, declared, data \/ ind)
           R == IF data \/ ind THEN Put(desc[apd].records, n, here)
                ELSE Drop(desc[apd].records, {n})
           Q == IF data \/ ind THEN Put(desc[ipd].records, n, declared)
                ELSE Drop(desc[ipd].records, {n})
<1>1. apd \in Desc /\ ipd \in Desc /\ apd # ipd
  BY DescriptorOfIs, ImplicitRole DEF AppRole, AnyRole
<1>2. here \in Record
  <2>1. data \in BOOLEAN /\ ind \in BOOLEAN
    BY DEF Pointers, FieldValue, TypeField, PointerField
  <2>2. [DefaultRecord EXCEPT !.data = data, !.ind = ind] \in Record
    BY <2>1, BoundIsRecord, Zenon
  <2>. QED  BY <2>2, ConciseTypeSet
<1>3. direction # None => declared \in Record
  BY DeclaredIsRecord
<1>4. UNCHANGED result
  BY DEF BindParameter, Refused
<1>. HIDE DEF here, declared
<1>5. refusal \in {Success, "07009", "HY105", "HY003", "07006", "HY021"}
  BY DEF BindParameterRefusal, Checked
<1>6. refusal = Success => n # 0 /\ direction # None
  BY DEF BindParameterRefusal, Success
<1>. HIDE DEF refusal
<1>7. CASE refusal # Success
  <2>1. Refused("BindParameter", refusal, FALSE)
    BY <1>7, Zenon DEF BindParameter, refusal, here, declared
  <2>2. refusal \in Listed("BindParameter")
    BY <1>5, <1>7, ListedWhereWritten
  <2>. QED  BY <2>1, <2>2, AsideRefused
<1>8. CASE refusal = Success
  <2>1. n \in Nat
    BY DEF BindParameter
  <2>2. desc' = [desc EXCEPT
               ![apd].records = IF data \/ ind THEN Put(@, n, here) ELSE Drop(@, {n}),
               ![ipd].records = IF data \/ ind THEN Put(@, n, declared) ELSE Drop(@, {n})]
        /\ Ends("BindParameter", Success, FALSE) /\ stmt' = stmt
    BY <1>8, Zenon DEF BindParameter, refusal, here, declared
  <2>. HIDE DEF apd, ipd
  <2>3. desc' = [desc EXCEPT ![apd].records = R, ![ipd].records = Q]
    BY <1>1, <2>2
  <2>4. Records(desc[apd].records) /\ Records(desc[ipd].records)
    <3>1. DescriptorOK(apd) /\ DescriptorOK(ipd)
      BY <1>1 DEF TypeOK
    <3>. QED  BY <3>1 DEF DescriptorOK
  <2>5. /\ Records(Put(desc[apd].records, n, here)) /\ Records(Drop(desc[apd].records, {n}))
        /\ DOMAIN Put(desc[apd].records, n, here) = DOMAIN desc[apd].records \cup {n}
        /\ DOMAIN Drop(desc[apd].records, {n}) = DOMAIN desc[apd].records \ {n}
    BY <1>2, <2>1, <2>4, RecordsPut
  <2>6. /\ Records(Put(desc[ipd].records, n, declared)) /\ Records(Drop(desc[ipd].records, {n}))
        /\ DOMAIN Put(desc[ipd].records, n, declared) = DOMAIN desc[ipd].records \cup {n}
        /\ DOMAIN Drop(desc[ipd].records, {n}) = DOMAIN desc[ipd].records \ {n}
    BY <1>3, <1>6, <1>8, <2>1, <2>4, RecordsPut
  <2>7. Records(R) /\ Records(Q)
    BY <2>5, <2>6, Zenon
  <2>8. ASSUME Paired PROVE DOMAIN R = DOMAIN Q
    <3>1. stmt[s].apd = None
          /\ DOMAIN desc[<<s, "Apd">>].records = DOMAIN desc[<<s, "Ipd">>].records
      BY <2>8 DEF Paired
    <3>2. apd = <<s, "Apd">> /\ ipd = <<s, "Ipd">>
      BY <3>1, DescriptorOfIs DEF apd, ipd, AppRole
    <3>3. DOMAIN desc[apd].records = DOMAIN desc[ipd].records
      BY <3>1, <3>2
    <3>4. CASE data \/ ind
      BY <2>5, <2>6, <3>3, <3>4
    <3>5. CASE ~(data \/ ind)
      BY <2>5, <2>6, <3>3, <3>5
    <3>. QED  BY <3>4, <3>5
  <2>. HIDE DEF R, Q
  <2>9. DescriptorsOK' /\ StatementsOK' /\ (Paired => Paired')
    BY <2>2, <2>3, <2>7, <2>8, ParametersRewritten DEF apd, ipd
  <2>. QED  BY <1>4, <2>2, <2>9, AsideSucceeds DEF Success
<1>. QED  BY <1>7, <1>8

LEMMA UnbindColumnsKeeps ==
  ASSUME TypeOK, Halves, NEW s \in Stmt, UnbindColumns(s)
  PROVE  Keeps
<1> DEFINE ard == DescriptorOf(s, "Ard")
<1>1. ard \in Desc /\ Role(ard) \in {"Ard", "App"}
  BY DescriptorOfIs DEF AppRole
<1>2. desc' = [desc EXCEPT ![ard].records = Empty] /\ stmt' = stmt /\ UNCHANGED result
      /\ Ends("FreeStmt", Success, FALSE)
  BY DEF UnbindColumns
<1>. HIDE DEF ard
<1>3. Rewritten(desc', ard, Empty, desc[ard].attrs)
  BY <1>1, <1>2, DescriptorRewritten
<1>4. Attrs(desc[ard].attrs)
  BY <1>1 DEF TypeOK, DescriptorOK
<1>5. DescriptorsOK' /\ StatementsOK'
  BY <1>1, <1>2, <1>3, <1>4, EmptyIs, RewrittenOK, UnchangedOK
<1>6. ASSUME Paired PROVE Paired'
  BY <1>2, <1>3, <1>6, ArdIsNoParameter DEF ard
<1>. QED  BY <1>2, <1>5, <1>6, AsideSucceeds DEF Success

LEMMA ResetParamsKeeps ==
  ASSUME TypeOK, Halves, NEW s \in Stmt, ResetParams(s)
  PROVE  Keeps
<1>1. /\ desc' = [desc EXCEPT ![DescriptorOf(s, "Apd")].records = Empty,
                              ![<<s, "Ipd">>].records = Empty]
      /\ stmt' = stmt /\ UNCHANGED result /\ Ends("FreeStmt", Success, FALSE)
  BY DEF ResetParams
<1>2. DescriptorsOK' /\ StatementsOK' /\ (Paired => Paired')
  BY <1>1, EmptyIs, ParametersRewritten
<1>. QED  BY <1>1, <1>2, AsideSucceeds DEF Success

LEMMA SetAppDescriptorKeeps ==
  ASSUME TypeOK, Halves, NEW s \in Stmt, NEW role \in {"Ard", "Apd"},
         NEW d \in Explicit \cup {None}, SetAppDescriptor(s, role, d)
  PROVE  Keeps
<1>1. /\ stmt' = IF role = "Ard" THEN [stmt EXCEPT ![s].ard = d] ELSE [stmt EXCEPT ![s].apd = d]
      /\ Ends("SetStmtAttr", Success, d # None) /\ UNCHANGED <<desc, result>>
  BY DEF SetAppDescriptor
<1>2. DescriptorsOK'
  BY <1>1, UnchangedOK
<1>3. /\ StatementsOK'
      /\ \A t \in Stmt : /\ stmt'[t].ard \in {stmt[t].ard, d}
                         /\ stmt'[t].apd \in {stmt[t].apd, d}
  <2>1. DOMAIN stmt = Stmt /\ \A t \in Stmt : StatementOK(t)
    BY DEF TypeOK
  <2>2. DOMAIN stmt[s] = {"ard", "apd", "attrs"}
    BY <2>1 DEF StatementOK
  <2>3. /\ DOMAIN stmt' = Stmt /\ \A t \in Stmt \ {s} : stmt'[t] = stmt[t]
        /\ DOMAIN stmt'[s] = {"ard", "apd", "attrs"} /\ stmt'[s].attrs = stmt[s].attrs
        /\ stmt'[s].ard \in {stmt[s].ard, d} /\ stmt'[s].apd \in {stmt[s].apd, d}
    BY <1>1, <2>1, <2>2
  <2>4. ASSUME NEW t \in Stmt PROVE StatementOK(t)'
    BY <2>1, <2>3 DEF StatementOK
  <2>5. ASSUME NEW t \in Stmt
        PROVE  stmt'[t].ard \in {stmt[t].ard, d} /\ stmt'[t].apd \in {stmt[t].apd, d}
    BY <2>3
  <2>. QED  BY <2>3, <2>4, <2>5 DEF StatementsOK
<1>4. CASE d = None
  <2>1. Ends("SetStmtAttr", Success, FALSE)
    <3>1. (d # None) = FALSE
      BY <1>4
    <3>. QED  BY <1>1, <3>1, Zenon
  <2>2. ASSUME Paired PROVE Paired'
    <3>1. ASSUME NEW t \in Stmt
          PROVE  /\ stmt'[t].ard = None /\ stmt'[t].apd = None
                 /\ DOMAIN desc'[<<t, "Apd">>].records = DOMAIN desc'[<<t, "Ipd">>].records
      BY <1>1, <1>3, <1>4, <2>2 DEF Paired
    <3>. QED  BY <3>1, Zenon DEF Paired
  <2>. QED  BY <1>1, <1>2, <1>3, <2>1, <2>2, AsideSucceeds DEF Success
<1>5. CASE d # None
  <2>1. Ends("SetStmtAttr", Success, TRUE)
    <3>1. (d # None) = TRUE
      BY <1>5
    <3>. QED  BY <1>1, <3>1, Zenon
  <2>2. /\ TypeOK' /\ Halves' /\ Copied'
        /\ call'.name = "SetStmtAttr" /\ call'.answer = Success
    BY <1>1, <1>2, <1>3, <2>1, DirectKeeps
  <2>. QED  BY <2>2 DEF Honest, Keeps
<1>. QED  BY <1>4, <1>5

LEMMA SetStmtAttrKeeps ==
  ASSUME TypeOK, Halves, NEW s \in Stmt, NEW attr \in Attribute, NEW value \in Int,
         SetStmtAttr(s, attr, value)
  PROVE  Keeps
<1> DEFINE stored == IF attr \in {"RowArraySize", "ParamsetSize"} THEN SupportedArraySize ELSE value
           owner == HeaderOwner(attr)
           d == DescriptorOf(s, owner[1])
           answer == Stores(value, stored)
<1>1. stored \in Int /\ (attr \in {"RowArraySize", "ParamsetSize"} => stored = SupportedArraySize)
  BY DEF SupportedArraySize
<1>2. answer \in {Success, "01S02"}
  BY DEF Stores
<1>3. /\ IF owner = None
         THEN stmt' = [stmt EXCEPT ![s].attrs = Put(@, attr, stored)] /\ UNCHANGED desc
         ELSE desc' = [desc EXCEPT ![d].attrs = Put(@, owner[2], stored)] /\ UNCHANGED stmt
      /\ Ends("SetStmtAttr", answer, FALSE) /\ UNCHANGED result
  BY DEF SetStmtAttr
<1>. HIDE DEF stored, answer
<1>4. DescriptorsOK' /\ StatementsOK' /\ (Paired => Paired')
  <2>1. CASE attr \in KeptOnStmt
    <3>1. owner = None
      BY <2>1, HeaderOwnerIs DEF StatementTable, KeptOnStmt
    <3>2. /\ StatementsOK'
          /\ \A t \in Stmt : stmt'[t].ard = stmt[t].ard /\ stmt'[t].apd = stmt[t].apd
      BY <1>1, <1>3, <2>1, <3>1, AttributeKept
    <3>3. desc' = desc
      BY <1>3, <3>1
    <3>4. DescriptorsOK'
      BY <3>3, UnchangedOK
    <3>5. ASSUME Paired PROVE Paired'
      <4>1. ASSUME NEW t \in Stmt
            PROVE  /\ stmt'[t].ard = None /\ stmt'[t].apd = None
                   /\ DOMAIN desc'[<<t, "Apd">>].records = DOMAIN desc'[<<t, "Ipd">>].records
        BY <3>2, <3>3, <3>5 DEF Paired
      <4>. QED  BY <4>1, Zenon DEF Paired
    <3>. QED  BY <3>2, <3>4, <3>5
  <2>2. CASE attr \in KeptInHeader
    <3>1. PICK e \in HeaderTable : e[3] = attr
      BY <2>2 DEF HeaderTable, KeptInHeader
    <3>2. owner = <<e[1], e[2]>> /\ owner # None
      BY <3>1, HeaderOwnerIs
    <3>3. /\ e[1] \in AppRole /\ e[2] \in HeaderField
          /\ e[2] = "ArraySize" => attr \in {"RowArraySize", "ParamsetSize"}
      BY <3>1 DEF HeaderTable, AppRole, HeaderField
    <3>4. owner[1] = e[1] /\ owner[2] = e[2]
      BY <3>2
    <3>. HIDE DEF owner
    <3>5. d \in Desc
      BY <3>3, <3>4, DescriptorOfIs
    <3>. HIDE DEF d
    <3>6. desc' = [desc EXCEPT ![d].attrs = Put(@, e[2], stored)] /\ stmt' = stmt
      BY <1>3, <3>2, <3>4
    <3>7. DescriptorsOK' /\ \A x \in Desc : desc'[x].records = desc[x].records
      BY <1>1, <3>3, <3>5, <3>6, HeaderWritten
    <3>8. StatementsOK'
      BY <3>6, UnchangedOK
    <3>9. ASSUME Paired PROVE Paired'
      <4>1. ASSUME NEW t \in Stmt
            PROVE  /\ stmt'[t].ard = None /\ stmt'[t].apd = None
                   /\ DOMAIN desc'[<<t, "Apd">>].records = DOMAIN desc'[<<t, "Ipd">>].records
        <5>1. <<t, "Apd">> \in Desc /\ <<t, "Ipd">> \in Desc
          BY ImplicitRole DEF AnyRole
        <5>. QED  BY <3>6, <3>7, <3>9, <5>1 DEF Paired
      <4>. QED  BY <4>1, Zenon DEF Paired
    <3>. QED  BY <3>7, <3>8, <3>9
  <2>. QED  BY <2>1, <2>2 DEF Attribute
<1>. QED  BY <1>2, <1>3, <1>4, AsideSucceeds

-----------------------------------------------------------------------------
(***************************************************************************)
(* Every step keeps the invariant, and is honest.                          *)
(***************************************************************************)
LEMMA InitIInv == Init => IInv
<1> SUFFICES ASSUME Init PROVE IInv
  OBVIOUS
<1>1. /\ DOMAIN desc = Desc /\ \A d \in Desc : desc[d] = [records |-> Empty, attrs |-> Empty]
      /\ DOMAIN stmt = Stmt
      /\ \A s \in Stmt : stmt[s] = [ard |-> None, apd |-> None, attrs |-> Empty]
      /\ result \in [Stmt -> Results] /\ call.direct = FALSE /\ call.count = 0 /\ call.copied = None
  BY DEF Init
<1>2. Attrs(Empty)
  BY EmptyIs DEF Attrs
<1>3. ASSUME NEW d \in Desc PROVE DescriptorOK(d)
  BY <1>1, <1>2, EmptyIs DEF DescriptorOK
<1>4. ASSUME NEW s \in Stmt PROVE StatementOK(s)
  BY <1>1, EmptyIs DEF StatementOK
<1>5. TypeOK
  <2>1. call.direct \in BOOLEAN
    BY <1>1, Zenon
  <2>2. call.count \in Nat
    BY <1>1
  <2>. QED  BY <1>1, <1>3, <1>4, <2>1, <2>2 DEF TypeOK
<1>6. Paired
  <2>1. ASSUME NEW s \in Stmt
        PROVE  /\ stmt[s].ard = None /\ stmt[s].apd = None
               /\ DOMAIN desc[<<s, "Apd">>].records = DOMAIN desc[<<s, "Ipd">>].records
    <3>1. <<s, "Apd">> \in Desc /\ <<s, "Ipd">> \in Desc
      BY ImplicitRole DEF AnyRole
    <3>. QED  BY <1>1, <3>1
  <2>. QED  BY <2>1, Zenon DEF Paired
<1>. QED  BY <1>1, <1>5, <1>6 DEF IInv, Halves, Copied

LEMMA StepKeeps ==
  ASSUME IInv, Next
  PROVE  Keeps
<1>1. TypeOK /\ Halves
  BY DEF IInv
<1>2. ASSUME NEW d \in Desc, NEW c \in FieldCall, SetDescField(d, c[1], c[2][1], c[2][2])
      PROVE  Keeps
  <2>1. c[1] \in Int /\ FieldValue(c[2][1], c[2][2])
    BY FieldCallAssumption
  <2>. QED  BY <1>1, <1>2, <2>1, SetDescFieldKeeps
<1>3. ASSUME NEW d \in Desc, NEW n \in Number, NEW c \in RecCall,
             SetDescRec(d, n, c[1], c[2], c[3], c[4], c[5], c[6], c[7])
      PROVE  Keeps
  <2>1. /\ n \in Int /\ c[1] \in Type /\ c[2] \in I16 /\ c[3] \in Int /\ c[4] \in I16
        /\ c[5] \in I16 /\ c[6] \in BOOLEAN /\ c[7] \in BOOLEAN
    BY RecCallAssumption, DescriptorsAssumption
  <2>3. c[4] \in Int /\ c[5] \in Int
    BY <2>1, ColumnAssumption DEF I16
  <2>2. Pointers(c[6], c[7])
    BY <2>1 DEF Pointers, FieldValue, TypeField, PointerField
  <2>. QED  BY <1>1, <1>3, <2>1, <2>2, <2>3, SetDescRecKeeps
<1>4. ASSUME NEW source \in Desc, NEW target \in Desc, CopyDesc(source, target)
      PROVE  Keeps
  BY <1>1, <1>4, CopyDescKeeps
<1>5. ASSUME NEW s \in Stmt, NEW n \in Number, NEW c \in ColCall, BindCol(s, n, c[1], c[2], c[3])
      PROVE  Keeps
  <2>1. n \in Int /\ c[1] \in Type /\ c[2] \in BOOLEAN /\ c[3] \in BOOLEAN
    BY ColCallAssumption, DescriptorsAssumption
  <2>. QED  BY <1>1, <1>5, <2>1, BindColKeeps, Zenon
<1>6. ASSUME NEW s \in Stmt, NEW n \in Number, NEW c \in ParamCall,
             BindParameter(s, n, c[1], c[2], c[3], c[4], c[5], c[6], c[7])
      PROVE  Keeps
  <2>1. /\ n \in Int /\ c[1] \in Direction \cup {None} /\ c[2] \in Type /\ c[3] \in Type
        /\ c[4] \in Int /\ c[5] \in Int /\ c[6] \in BOOLEAN /\ c[7] \in BOOLEAN
    BY ParamCallAssumption, DescriptorsAssumption
  <2>2. Pointers(c[6], c[7])
    BY <2>1 DEF Pointers, FieldValue, TypeField, PointerField
  <2>. QED  BY <1>1, <1>6, <2>1, <2>2, BindParameterKeeps
<1>7. ASSUME NEW s \in Stmt, UnbindColumns(s) \/ ResetParams(s)
      PROVE  Keeps
  BY <1>1, <1>7, UnbindColumnsKeeps, ResetParamsKeeps
<1>8. ASSUME NEW s \in Stmt, NEW role \in {"Ard", "Apd"}, NEW d \in Explicit \cup {None},
             SetAppDescriptor(s, role, d)
      PROVE  Keeps
  BY <1>1, <1>8, SetAppDescriptorKeeps
<1>9. ASSUME NEW s \in Stmt, NEW c \in AttrCall, SetStmtAttr(s, c[1], c[2])
      PROVE  Keeps
  <2>1. c[1] \in Attribute /\ c[2] \in Int
    BY AttrCallAssumption
  <2>. QED  BY <1>1, <1>9, <2>1, SetStmtAttrKeeps
<1>. QED  BY <1>2, <1>3, <1>4, <1>5, <1>6, <1>7, <1>8, <1>9, Zenon DEF Next

LEMMA StutterKeeps ==
  ASSUME IInv, UNCHANGED vars
  PROVE  IInv'
<1>1. desc' = desc /\ stmt' = stmt /\ result' = result /\ call' = call
  BY DEF vars
<1>2. DescriptorsOK' /\ StatementsOK'
  BY <1>1, UnchangedOK DEF IInv
<1>3. TypeOK'
  BY <1>1, <1>2 DEF IInv, TypeOK, DescriptorsOK, StatementsOK
<1>4. Halves'
  BY <1>1, Zenon DEF IInv, Halves, Paired
<1>5. Copied'
  BY <1>1, Zenon DEF IInv, Copied, SnapshotRecords
<1>. QED  BY <1>3, <1>4, <1>5 DEF IInv

LEMMA Inductive == Spec => []IInv
<1>1. IInv /\ [Next]_vars => IInv'
  BY StepKeeps, StutterKeeps DEF Keeps, IInv
<1>. QED  BY <1>1, InitIInv, PTL DEF Spec

(***************************************************************************)
(* Every record and header is well typed, whichever call wrote it; the     *)
(* only array size kept is the one supported; an IRD holds no record; a    *)
(* statement's overrides are descriptors the application allocated.        *)
(***************************************************************************)
THEOREM TypeCorrect == Spec => []TypeOK
<1>1. IInv => TypeOK
  BY DEF IInv
<1>. QED  BY <1>1, Inductive, PTL

(***************************************************************************)
(* SQLBindCol, SQLBindParameter and SQLCopyDesc refuse before they write,  *)
(* and every SQLSTATE of a call on a descriptor, whichever shared check it *)
(* comes from, is one its page lists: no C type reaches the consistency    *)
(* check of SQLBindCol, whose page has no HY021, and fails it.             *)
(***************************************************************************)
THEOREM RefusalsChangeNothing == Spec => RefusalChangesNothing
<1>1. IInv /\ [Next]_vars => [Honest]_vars
  BY StepKeeps DEF Keeps
<1>. QED  BY <1>1, Inductive, PTL DEF Spec, RefusalChangesNothing, Honest

(***************************************************************************)
(* However binds, rebinds, refused binds, unbinds and resets of any        *)
(* statements follow each other, no parameter has half a binding while the *)
(* application leaves the descriptors alone: the internal error of         *)
(* ParamRecords::get needs SQLSetDescField, SQLSetDescRec, SQLCopyDesc or  *)
(* an explicit descriptor.                                                 *)
(***************************************************************************)
THEOREM HalvesAlwaysTogether == Spec => []BindsKeepHalvesTogether
<1>1. ASSUME IInv, ~call.direct, NEW s \in Stmt, NEW n \in Number
      PROVE  ParamState(s, n) # "split"
  <2> DEFINE apd == desc[DescriptorOf(s, "Apd")].records
             ipd == desc[<<s, "Ipd">>].records
  <2>1. stmt[s].apd = None
        /\ DOMAIN desc[<<s, "Apd">>].records = DOMAIN desc[<<s, "Ipd">>].records
    BY <1>1 DEF IInv, Halves, Paired
  <2>2. DescriptorOf(s, "Apd") = <<s, "Apd">>
    BY <1>1, <2>1, DescriptorOfIs DEF IInv, AppRole
  <2>3. DOMAIN apd = DOMAIN ipd
    BY <2>1, <2>2
  <2>4. CASE n \in DOMAIN apd
    <3>1. ParamState(s, n) = IF HasPointer(apd[n]) THEN "bound" ELSE "unbound"
      BY <2>3, <2>4 DEF ParamState
    <3>. QED  BY <3>1
  <2>5. CASE n \notin DOMAIN apd
    <3>1. ParamState(s, n) = "unbound"
      BY <2>3, <2>5 DEF ParamState
    <3>. QED  BY <3>1
  <2>. QED  BY <2>4, <2>5
<1>2. IInv => BindsKeepHalvesTogether
  BY <1>1 DEF BindsKeepHalvesTogether
<1>. QED  BY <1>2, Inductive, PTL

-----------------------------------------------------------------------------
(***************************************************************************)
(* Reading a header field as a descriptor's and as a statement's.          *)
(***************************************************************************)
LEMMA AttributeRead ==
  ASSUME TypeOK, NEW d \in Implicit, NEW f \in HeaderField,
         HeaderAttribute(Role(d), f) # None, DescriptorOf(d[1], Role(d)) = d
  PROVE  /\ ReadHeaderField(d, f) = GetStmtAttr(d[1], HeaderAttribute(Role(d), f))
         /\ ReadHeaderField(d, f) \in Int
         /\ ReadWrite(Role(d), f)
<1> DEFINE role == Role(d)
           attr == HeaderAttribute(role, f)
<1>1. d \in Desc /\ d[1] \in Stmt /\ f \notin {"AllocType", "Count"}
  BY DEF Desc, Implicit, HeaderField
<1>2. <<role, f, attr>> \in HeaderTable \/ <<role, f, attr>> \in StatementTable
  BY HeaderAttributeIs
<1>3. ReadWrite(role, f)
  <2>. HIDE DEF role, attr
  <2>1. \/ f \in {"ArraySize", "BindOffsetPtr"} /\ role \in {"Ard", "Apd"}
        \/ f = "ArrayStatusPtr"
        \/ f = "RowsProcessedPtr" /\ role \in {"Ird", "Ipd"}
    BY <1>2 DEF HeaderTable, StatementTable
  <2>2. ASSUME f \in {"ArraySize", "BindOffsetPtr"}, role \in {"Ard", "Apd"} PROVE ReadWrite(role, f)
    BY <2>2 DEF ReadWrite, Application
  <2>3. ASSUME f = "ArrayStatusPtr" PROVE ReadWrite(role, f)
    BY <2>3 DEF ReadWrite
  <2>4. ASSUME f = "RowsProcessedPtr", role \in {"Ird", "Ipd"} PROVE ReadWrite(role, f)
    BY <2>4 DEF ReadWrite
  <2>. QED  BY <2>1, <2>2, <2>3, <2>4
<1>4. ReadHeaderField(d, f) =
        IF HeaderOwner(attr) # None
        THEN IF f \in DOMAIN desc[d].attrs THEN desc[d].attrs[f] ELSE HeaderDefault(f)
        ELSE GetStmtAttr(d[1], attr)
  BY <1>1 DEF ReadHeaderField
<1>5. CASE <<role, f, attr>> \in HeaderTable
  <2>1. HeaderOwner(attr) = <<role, f>> /\ HeaderOwner(attr) # None
    <3>. HIDE DEF role, attr
    <3>. QED  BY <1>5, HeaderOwnerIs
  <2>2. GetStmtAttr(d[1], attr) =
          IF f \in DOMAIN desc[d].attrs THEN desc[d].attrs[f] ELSE HeaderDefault(f)
    <3>1. DescriptorOf(d[1], role) = d
      OBVIOUS
    <3>. HIDE DEF role, attr
    <3>. QED  BY <2>1, <3>1 DEF GetStmtAttr
  <2>3. Attrs(desc[d].attrs)
    BY <1>1 DEF TypeOK, DescriptorOK
  <2>4. ReadHeaderField(d, f) \in Int
    BY <1>4, <2>1, <2>3 DEF Attrs, HeaderDefault
  <2>. QED  BY <1>3, <1>4, <2>1, <2>2, <2>4
<1>6. CASE <<role, f, attr>> \in StatementTable
  <2>1. HeaderOwner(attr) = None
    <3>. HIDE DEF role, attr
    <3>. QED  BY <1>6, HeaderOwnerIs
  <2>2. StatementOK(d[1])
    BY <1>1 DEF TypeOK
  <2>. HIDE DEF role, attr
  <2>3. GetStmtAttr(d[1], attr) \in Int
    BY <2>1, <2>2 DEF GetStmtAttr, StatementOK
  <2>. QED  BY <1>3, <1>4, <2>1, <2>3 DEF role, attr
<1>. QED  BY <1>2, <1>5, <1>6

\* What SQLGetDescRec asks is no header field, and every answer it gets is one
\* of its own page's.
LEMMA GetDescRecAnswers ==
  ASSUME NEW d, NEW n, NEW f \in {"Type", "Nullable"}
  PROVE  ReadDescRecField(d, n, f)[1] \in {"value", "NoData", "07009", "HY007"}
<1>1. f \notin HeaderField \cup {"Count", "AllocType"} /\ f \notin HeaderField /\ f # "RowVer"
  BY DEF HeaderField
<1>2. CASE ~ReadWrite(Role(d), f) /\ ~ReadOnly(Role(d), f)
  BY <1>2 DEF ReadDescRecField
<1>3. CASE ~(~ReadWrite(Role(d), f) /\ ~ReadOnly(Role(d), f))
  <2>1. ReadDescRecField(d, n, f) = GetDescField(d, n, f)
    BY <1>3 DEF ReadDescRecField
  <2>2. \/ GetDescField(d, n, f) \in {<<"07009">>, <<"NoData">>}
        \/ GetDescField(d, n, f) = ReadIrdField(d[1], n, f)
        \/ GetDescField(d, n, f) = <<"value", GetRecordField(desc[d].records[Key(n)], Role(d), f)>>
    BY <1>1, <1>3 DEF GetDescField
  <2>3. \/ ReadIrdField(d[1], n, f) \in {<<"HY007">>, <<"07009">>}
        \/ ReadIrdField(d[1], n, f) =
             <<"value", ColumnAttribute(result[d[1]][n], Len(result[d[1]]), f)>>
    BY <1>1 DEF ReadIrdField
  <2>. QED  BY <2>1, <2>2, <2>3
<1>. QED  BY <1>2, <1>3

(***************************************************************************)
(* A header field reads the same through SQLGetDescField and through       *)
(* SQLGetStmtAttr, for every statement, field and history of writes; and   *)
(* SQLGetDescRec, though it reads by SQLGetDescField, answers only with    *)
(* the SQLSTATEs of its own page.                                          *)
(***************************************************************************)
THEOREM DoorsAlwaysAgree == Spec => []DoorsAgree
<1>1. ASSUME IInv, NEW d \in Implicit, NEW f \in HeaderField,
             HeaderAttribute(Role(d), f) # None, DescriptorOf(d[1], Role(d)) = d
      PROVE  GetDescField(d, 0, f) = <<"value", GetStmtAttr(d[1], HeaderAttribute(Role(d), f))>>
  <2>1. /\ ReadHeaderField(d, f) = GetStmtAttr(d[1], HeaderAttribute(Role(d), f))
        /\ ReadHeaderField(d, f) \in Int /\ ReadWrite(Role(d), f)
    BY <1>1, AttributeRead DEF IInv
  <2>2. ReadHeaderField(d, f) # None
    BY <2>1, NoneAssumption
  <2>. QED  BY <2>1, <2>2 DEF GetDescField
<1>2. ASSUME NEW d \in Desc, NEW n \in Number, NEW f \in {"Type", "Nullable"}
      PROVE  GetDescRec(d, n)[f][1] \in Listed("GetDescRec") \cup {"value", "NoData"}
  <2>1. GetDescRec(d, n)[f] = ReadDescRecField(d, n, f)
    BY DEF GetDescRec
  <2>. QED  BY <2>1, GetDescRecAnswers, ListedWhereWritten
<1>3. IInv => DoorsAgree
  BY <1>1, <1>2 DEF DoorsAgree
<1>. QED  BY <1>3, Inductive, PTL

-----------------------------------------------------------------------------
(***************************************************************************)
(* What a copy reads, and what its source does.                            *)
(***************************************************************************)
Defines(d, f) == ReadWrite(Role(d), f) \/ ReadOnly(Role(d), f)

LEMMA FieldRead ==
  ASSUME NEW d \in Desc, NEW n \in Int, n > 0, NEW f \in RecordField, Defines(d, f)
  PROVE  /\ Role(d) # "Ird" =>
              GetDescField(d, n, f) =
                IF n \in DOMAIN desc[d].records
                THEN <<"value", GetRecordField(desc[d].records[n], Role(d), f)>>
                ELSE <<"NoData">>
         /\ Role(d) = "Ird" => GetDescField(d, n, f) = ReadIrdField(d[1], n, f)
<1>1. f \notin HeaderField \cup {"Count", "AllocType"} /\ f \notin HeaderField
  BY DEF HeaderField, RecordField
<1>2. Key(n) = n /\ n # 0 /\ ~(n < 0)
  BY DEF Key
<1>3. ~(~ReadWrite(Role(d), f) /\ ~ReadOnly(Role(d), f))
  BY DEF Defines
<1>. QED  BY <1>1, <1>2, <1>3 DEF GetDescField

LEMMA IrdFields ==
  ASSUME NEW d, Role(d) = "Ird", NEW f \in RecordField, Defines(d, f)
  PROVE  f \notin {"DataPtr", "IndicatorPtr", "ParameterType"}
<1>1. ASSUME f = "DataPtr" PROVE FALSE
  BY <1>1 DEF Defines, ReadWrite, ReadOnly
<1>2. ASSUME f = "IndicatorPtr" PROVE FALSE
  BY <1>2 DEF Defines, ReadWrite, ReadOnly, Application
<1>3. ASSUME f = "ParameterType" PROVE FALSE
  BY <1>3 DEF Defines, ReadWrite, ReadOnly
<1>. QED  BY <1>1, <1>2, <1>3

\* A record made of a column reads as the column, if its size fits.
LEMMA ColumnReads ==
  ASSUME NEW col \in Column, col.precision <= MaxI16, NEW r, ColumnRecord(r, col),
         NEW role, NEW count, NEW f \in RecordField \ {"DataPtr", "IndicatorPtr", "ParameterType"}
  PROVE  GetRecordField(r, role, f) = ColumnAttribute(col, count, f)
<1>1. /\ col.precision \in Nat /\ col.scale \in Int /\ col.scale <= MaxI16
      /\ MaxI16 \in Nat /\ PrecisionUndeterminable \in Nat /\ PrecisionUndeterminable > MaxI16
  BY ColumnAssumption DEF Column
<1>2. ResolvePrecisionIsize(col.precision) = col.precision
  BY <1>1 DEF ResolvePrecisionIsize
<1>3. SaturateI16(PrecisionFor(col)) = PrecisionFor(col) /\ SaturateI16(col.scale) = col.scale
  BY <1>1, <1>2 DEF SaturateI16, PrecisionFor
<1>4. /\ r.concise = col.sql_type /\ r.verbose = VerboseType(col.sql_type)
      /\ r.code = DatetimeIntervalSubcode(col.sql_type)
      /\ r.length = col.precision /\ r.octet_length = OctetLengthFor(col)
      /\ r.precision = PrecisionFor(col) /\ r.scale = col.scale
  BY <1>1, <1>2, <1>3 DEF ColumnRecord
<1>5. CASE f = "ConciseType"
  BY <1>4, <1>5 DEF GetRecordField, ColumnAttribute
<1>6. CASE f = "Type"
  BY <1>4, <1>6 DEF GetRecordField, ColumnAttribute
<1>7. CASE f = "DatetimeIntervalCode"
  BY <1>4, <1>7 DEF GetRecordField, ColumnAttribute
<1>8. CASE f = "Length"
  BY <1>2, <1>4, <1>8 DEF GetRecordField, ColumnAttribute
<1>9. CASE f = "OctetLength"
  BY <1>4, <1>9 DEF GetRecordField, ColumnAttribute
<1>10. CASE f = "Precision"
  BY <1>4, <1>10 DEF GetRecordField, ColumnAttribute
<1>11. CASE f = "Scale"
  BY <1>4, <1>11 DEF GetRecordField, ColumnAttribute
<1>. QED  BY <1>5, <1>6, <1>7, <1>8, <1>9, <1>10, <1>11 DEF RecordField

(***************************************************************************)
(* A copy reads as its source does, whichever descriptors, result sets and *)
(* earlier writes: an IRD, whose fields are computed from the columns, too,*)
(* for every column whose size a record's own types hold.                  *)
(***************************************************************************)
THEOREM CopiesAlwaysRead == Spec => []CopyReadsLikeSource
<1>1. ASSUME IInv, NEW source \in Desc, NEW target \in Desc, Role(target) # "Ird",
             desc[target].records = SnapshotRecords(source),
             Role(source) = "Ird" => result[source[1]] # <<>>,
             NEW n \in Int, n > 0, NEW f \in RecordField, Defines(source, f), Defines(target, f),
             FitsRecord(source, n),
             GetDescField(source, n, f)[1] = "value" \/ GetDescField(target, n, f)[1] = "value"
      PROVE  GetDescField(target, n, f) = GetDescField(source, n, f)
  <2> DEFINE records == desc[target].records
  <2>1. GetDescField(target, n, f) =
          IF n \in DOMAIN records THEN <<"value", GetRecordField(records[n], Role(target), f)>>
          ELSE <<"NoData">>
    BY <1>1, FieldRead
  <2>2. CASE Role(source) # "Ird"
    <3>1. GetDescField(source, n, f) =
            IF n \in DOMAIN records THEN <<"value", GetRecordField(records[n], Role(source), f)>>
            ELSE <<"NoData">>
      BY <1>1, <2>2, FieldRead DEF SnapshotRecords
    <3>2. GetRecordField(records[n], Role(target), f) = GetRecordField(records[n], Role(source), f)
      BY DEF GetRecordField
    <3>. QED  BY <2>1, <3>1, <3>2
  <2>3. CASE Role(source) = "Ird"
    <3> DEFINE columns == result[source[1]]
    <3>1. source[1] \in Stmt
      BY <2>3, RoleIs
    <3>2. columns \in Seq(Column) /\ columns # <<>>
      BY <1>1, <2>3, <3>1, ResultsAssumption DEF IInv, TypeOK
    <3>3. records = [m \in DOMAIN columns |-> RecordFromColumn(columns[m], DefaultRecord)]
      BY <1>1, <2>3 DEF SnapshotRecords
    <3>4. GetDescField(source, n, f) = ReadIrdField(source[1], n, f)
      BY <1>1, <2>3, FieldRead
    <3>5. f # "RowVer"
      BY DEF RecordField
    <3>6. CASE n \in DOMAIN columns
      <4>1. columns[n] \in Column /\ columns[n].precision <= MaxI16
        BY <1>1, <2>3, <3>2, <3>6 DEF FitsRecord
      <4>2. records[n] = RecordFromColumn(columns[n], DefaultRecord) /\ n \in DOMAIN records
        BY <3>3, <3>6
      <4>3. ColumnRecord(records[n], columns[n])
        BY <4>1, <4>2, ColumnIsRecord
      <4>4. ReadIrdField(source[1], n, f) = <<"value", ColumnAttribute(columns[n], Len(columns), f)>>
        BY <3>2, <3>5, <3>6 DEF ReadIrdField
      <4>5. f \notin {"DataPtr", "IndicatorPtr", "ParameterType"}
        BY <1>1, <2>3, IrdFields
      <4>6. GetRecordField(records[n], Role(target), f) = ColumnAttribute(columns[n], Len(columns), f)
        BY <4>1, <4>3, <4>5, ColumnReads
      <4>. QED  BY <2>1, <3>4, <4>2, <4>4, <4>6
    <3>7. CASE n \notin DOMAIN columns
      <4>1. n \notin DOMAIN records
        BY <3>3, <3>7
      <4>2. ReadIrdField(source[1], n, f) = <<"07009">>
        BY <3>2, <3>7 DEF ReadIrdField
      <4>3. GetDescField(target, n, f)[1] = "NoData" /\ GetDescField(source, n, f)[1] = "07009"
        BY <2>1, <3>4, <4>1, <4>2
      <4>. QED  BY <1>1, <4>3
    <3>. QED  BY <3>6, <3>7
  <2>. QED  BY <2>2, <2>3
<1>2. ASSUME IInv, call.copied # None
      PROVE  LET source == call.copied[1]
                 target == call.copied[2]
                 both == {f \in RecordField : \A d \in {source, target} :
                            ReadWrite(Role(d), f) \/ ReadOnly(Role(d), f)}
             IN \A n \in Number \cup DOMAIN desc[target].records, f \in both :
                  /\ n > 0 /\ FitsRecord(source, n)
                  /\ "value" \in {GetDescField(d, n, f)[1] : d \in {source, target}}
                  => GetDescField(target, n, f) = GetDescField(source, n, f)
  <2>1. PICK source \in Desc, target \in Desc :
          /\ call.copied = <<source, target>> /\ Role(target) # "Ird"
          /\ desc[target].records = SnapshotRecords(source)
          /\ Role(source) = "Ird" => result[source[1]] # <<>>
    BY <1>2 DEF IInv, Copied
  <2>2. call.copied[1] = source /\ call.copied[2] = target
    BY <2>1
  <2>3. Number \cup DOMAIN desc[target].records \subseteq Int
    <3>1. DOMAIN desc[target].records \subseteq Nat
      BY <1>2 DEF IInv, TypeOK, DescriptorOK, Records
    <3>2. \A m \in Nat : m \in Int
      OBVIOUS
    <3>3. Number \subseteq Int
      BY DescriptorsAssumption
    <3>. QED  BY <3>1, <3>2, <3>3, Zenon
  <2>4. ASSUME NEW n \in Number \cup DOMAIN desc[target].records, NEW f \in RecordField,
               \A d \in {source, target} : ReadWrite(Role(d), f) \/ ReadOnly(Role(d), f),
               n > 0, FitsRecord(source, n),
               "value" \in {GetDescField(d, n, f)[1] : d \in {source, target}}
        PROVE  GetDescField(target, n, f) = GetDescField(source, n, f)
    <3>1. n \in Int
      BY <2>3
    <3>2. Defines(source, f) /\ Defines(target, f)
      BY <2>4 DEF Defines
    <3>3. GetDescField(source, n, f)[1] = "value" \/ GetDescField(target, n, f)[1] = "value"
      BY <2>4
    <3>. QED  BY <1>1, <1>2, <2>1, <2>4, <3>1, <3>2, <3>3
  <2>. QED  BY <2>2, <2>4
<1>3. IInv => CopyReadsLikeSource
  BY <1>2 DEF CopyReadsLikeSource
<1>. QED  BY <1>3, Inductive, PTL

=============================================================================
