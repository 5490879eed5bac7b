---------------------------- MODULE Descriptors ----------------------------
(***************************************************************************)
(* The descriptors of one connection's statements, implicit and explicit:  *)
(* their records and header fields, and the calls that write them, by      *)
(* column (SQLBindCol), by parameter (SQLBindParameter), by field          *)
(* (SQLSetDescField), by record (SQLSetDescRec), whole (SQLCopyDesc) or    *)
(* under another name (SQLSetStmtAttr).  Ownership, lifetime and locking   *)
(* are HandleTable and HandleCalls; a pointer is NULL or not.              *)
(***************************************************************************)
EXTENDS ColumnAttributes, FiniteSets, Functions, ListedStates, Sequences

CONSTANTS
  Stmt,       \* statements
  Explicit,   \* descriptors the application allocated
  Number,     \* record numbers a call may name
  FieldCall,  \* what SQLSetDescField is called with: number, <<field, value>>,
  RecCall,    \* SQLSetDescRec: type, code, length, precision, scale, data, ind
  ColCall,    \* SQLBindCol: type, data, ind
  ParamCall,  \* SQLBindParameter: direction, C type, SQL type, size, digits, data, ind
  AttrCall,   \* SQLSetStmtAttr: attributes and values
  Results,    \* the result sets a backend may produce: sequences of columns
  None,
  MaxCalls    \* bound: calls that may change a descriptor

Implicit == Stmt \X {"Ard", "Apd", "Ird", "Ipd"}
Desc == Implicit \cup Explicit
Role(d) == IF d \in Explicit THEN "App" ELSE d[2]
Application == {"Ard", "Apd", "App"}

HeaderField == {"ArraySize", "BindOffsetPtr", "ArrayStatusPtr", "RowsProcessedPtr"}
KeptOnStmt == {"RowStatusPtr", "RowsFetchedPtr", "ParamStatusPtr", "ParamsProcessedPtr"}
KeptInHeader == {"RowArraySize", "RowBindOffsetPtr", "RowOperationPtr",
                 "ParamsetSize", "ParamBindOffsetPtr", "ParamOperationPtr"}
Attribute == KeptOnStmt \cup KeptInHeader

(* Types.  "datetime" is SQL_DATETIME, a verbose type whose number is also  *)
(* that of the ODBC 2 C type for a date.                                    *)
Type == {"default", "integer", "decimal", "varchar", "date", "timestamp", "datetime"}
IsCType(t) == t \notin {"decimal", "varchar"}

I16 == -(MaxI16 + 1) .. MaxI16
Direction == {"Input", "InputOutput", "Output"}
Record ==
  [concise : Type, verbose : Type, code : Int, length : Int, octet_length : Int,
   precision : Int, scale : Int, data : BOOLEAN, ind : BOOLEAN, direction : Direction]
\* A column as a backend describes it, by a concise type.
Column == [sql_type : Type \ {"default", "datetime"}, precision : Nat,
           scale : {n \in Int : n <= MaxI16}, nullable : Int]

\* promote_deprecated_datetime: 9 was SQL_DATE.
Promote(t) == IF t = "datetime" THEN "date" ELSE t

-----------------------------------------------------------------------------
(***************************************************************************)
(* The arguments a call may have: a value of the type its field has, and,  *)
(* where no direction or handle is one, None.                              *)
(***************************************************************************)
TypeField == {"ConciseType", "Type"}
PointerField == {"DataPtr", "IndicatorPtr"}
FieldValue(f, v) ==
  CASE f \in TypeField -> v \in Type
    [] f \in PointerField -> v \in BOOLEAN
    [] f = "ParameterType" -> v \in Direction \cup {None}
    [] OTHER -> v \in Int

ASSUME DescriptorsAssumption == Number \subseteq Int /\ MaxCalls \in Nat
ASSUME HandlesAssumption == Explicit \cap (Implicit \cup {None}) = {}
ASSUME NoneAssumption ==
  /\ None \notin Type /\ None \notin Direction /\ None \notin BOOLEAN /\ None \notin Int
  /\ None \notin Record /\ None \notin Attribute /\ None \notin Desc \X Desc
  /\ None \notin {"Ard", "Apd"} \X HeaderField
ASSUME FieldCallAssumption ==
  \A c \in FieldCall : c[1] \in Int /\ FieldValue(c[2][1], c[2][2])
ASSUME RecCallAssumption ==
  RecCall \subseteq Type \X I16 \X Int \X I16 \X I16 \X BOOLEAN \X BOOLEAN
ASSUME ColCallAssumption == ColCall \subseteq Type \X BOOLEAN \X BOOLEAN
ASSUME ParamCallAssumption ==
  ParamCall \subseteq (Direction \cup {None}) \X Type \X Type \X Int \X Int \X BOOLEAN \X BOOLEAN
ASSUME AttrCallAssumption == AttrCall \subseteq Attribute \X Int
ASSUME ResultsAssumption == Results \subseteq Seq(Column)

-----------------------------------------------------------------------------
VARIABLES
  desc,     \* Descriptor: records by number, header attrs by field
  stmt,     \* ard_override, apd_override, and the attributes kept on the statement
  result,   \* external: the columns of each statement's result set
  call      \* history: the last call, its SQLSTATE, how many there were

vars == <<desc, stmt, result, call>>

Put(f, k, v) == [x \in DOMAIN f \cup {k} |-> IF x = k THEN v ELSE f[x]]
Drop(f, S) == Restrict(f, DOMAIN f \ S)
Empty == [x \in {} |-> 0]

DefaultRecord ==
  [concise |-> "default", verbose |-> "default", code |-> 0, length |-> 0,
   octet_length |-> 0, precision |-> 0, scale |-> 0, data |-> FALSE, ind |-> FALSE,
   direction |-> "Input"]

\* SQL_DESC_CONCISE_TYPE brings the verbose type and the subcode with it.
SetConciseType(r, t) ==
  [r EXCEPT !.concise = Promote(t), !.verbose = VerboseType(Promote(t)),
            !.code = DatetimeIntervalSubcode(Promote(t))]

\* A bound column may have either buffer, a bound parameter either pointer.
IsBound(r) == r.data
HasPointer(r) == r.data \/ r.ind

(***************************************************************************)
(* consistency_check (HY021), under the role a descriptor is used as.      *)
(***************************************************************************)
Consistent(r, role) ==
  /\ role \in Application => IsCType(r.concise)
  /\ IF VerboseType(r.concise) = "datetime" THEN r.code \in 1 .. 3
     ELSE VerboseType(r.concise) # "interval" => r.code = 0
  /\ r.concise \in DecimalType => 0 <= r.scale /\ r.scale <= r.precision
  /\ (VerboseType(r.concise) = "datetime" /\ r.code \in {2, 3}) => r.precision \in 0 .. 9

-----------------------------------------------------------------------------
(***************************************************************************)
(* field_access: what SQLSetDescField and SQLGetDescField may do with a    *)
(* field of a descriptor in this role.                                     *)
(***************************************************************************)
ReadWrite(role, f) ==
  CASE f \in {"ArraySize", "BindOffsetPtr", "IndicatorPtr"} -> role \in Application
    [] f = "ArrayStatusPtr" -> TRUE
    [] f = "RowsProcessedPtr" -> role \in {"Ird", "Ipd"}
    [] f \in {"ParameterType", "Name", "Unnamed"} -> role = "Ipd"
    [] f \in {"Nullable", "RowVer", "AllocType", "DisplaySize"} -> FALSE
    [] OTHER -> role # "Ird"

ReadOnly(role, f) ==
  \/ f = "AllocType"
  \/ role = "Ird" /\ f \in {"Count", "ConciseType", "Type", "DatetimeIntervalCode", "Length",
                            "OctetLength", "Precision", "Scale", "Name", "Unnamed",
                            "Nullable", "RowVer", "DisplaySize"}
  \/ role = "Ipd" /\ f \in {"Nullable", "RowVer"}

\* A fault: the two ends of a row's status, confused.
HeaderAttributeSwapped(role, f) ==
  CASE <<f, role>> = <<"ArrayStatusPtr", "Ird">> -> "RowOperationPtr"
    [] <<f, role>> = <<"ArrayStatusPtr", "Ard">> -> "RowOperationPtr"
    [] <<f, role>> = <<"RowsProcessedPtr", "Ird">> -> "RowsFetchedPtr"
    [] <<f, role>> = <<"RowsProcessedPtr", "Ipd">> -> "ParamsProcessedPtr"
    [] OTHER -> None

\* header_attribute: the statement attribute a header field is on this role.
\* It has no row for App.
HeaderAttribute(role, f) ==
  CASE <<f, role>> = <<"ArraySize", "Ard">> -> "RowArraySize"
    [] <<f, role>> = <<"ArraySize", "Apd">> -> "ParamsetSize"
    [] <<f, role>> = <<"BindOffsetPtr", "Ard">> -> "RowBindOffsetPtr"
    [] <<f, role>> = <<"BindOffsetPtr", "Apd">> -> "ParamBindOffsetPtr"
    [] <<f, role>> = <<"ArrayStatusPtr", "Ard">> -> "RowOperationPtr"
    [] <<f, role>> = <<"ArrayStatusPtr", "Apd">> -> "ParamOperationPtr"
    [] <<f, role>> = <<"ArrayStatusPtr", "Ird">> -> "RowStatusPtr"
    [] <<f, role>> = <<"ArrayStatusPtr", "Ipd">> -> "ParamStatusPtr"
    [] <<f, role>> = <<"RowsProcessedPtr", "Ird">> -> "RowsFetchedPtr"
    [] <<f, role>> = <<"RowsProcessedPtr", "Ipd">> -> "ParamsProcessedPtr"
    [] OTHER -> None

\* HeaderOwner::of, the other direction: whose header keeps an attribute, as
\* which field.  The others stay on the statement.
HeaderOwner(attr) ==
  CASE attr = "RowArraySize" -> <<"Ard", "ArraySize">>
    [] attr = "RowBindOffsetPtr" -> <<"Ard", "BindOffsetPtr">>
    [] attr = "RowOperationPtr" -> <<"Ard", "ArrayStatusPtr">>
    [] attr = "ParamsetSize" -> <<"Apd", "ArraySize">>
    [] attr = "ParamBindOffsetPtr" -> <<"Apd", "BindOffsetPtr">>
    [] attr = "ParamOperationPtr" -> <<"Apd", "ArrayStatusPtr">>
    [] OTHER -> None

HeaderDefault(f) == IF f = "ArraySize" THEN 1 ELSE 0
SupportedArraySize == 1

\* descriptor_token: the override, else the statement's own.
DescriptorOf(s, role) ==
  CASE role = "Ard" /\ stmt[s].ard # None -> stmt[s].ard
    [] role = "Apd" /\ stmt[s].apd # None -> stmt[s].apd
    [] OTHER -> <<s, role>>

-----------------------------------------------------------------------------
RecordField == {"ConciseType", "Type", "DatetimeIntervalCode", "Length", "OctetLength",
                "Precision", "Scale", "DataPtr", "IndicatorPtr", "ParameterType"}

\* narrow_i16, ULen::try_from, param_type_from_raw: what the field can hold.
Fits(f, v) ==
  /\ f \in {"DatetimeIntervalCode", "Precision", "Scale"} => v \in I16
  /\ f = "Length" => v >= 0
  /\ f = "ParameterType" => v # None

(***************************************************************************)
(* set_record_field: the record with one field written, or None when the   *)
(* field or the value is refused.  Setting SQL_DESC_TYPE moves the concise *)
(* type along when the verbose type is its own concise type, which for     *)
(* SQL_DATETIME it is.  An IPD's data pointer is not stored.               *)
(***************************************************************************)
SetRecordField(r, role, f, v) ==
  IF f \notin RecordField \/ ~ReadWrite(role, f) \/ ~Fits(f, v) THEN None ELSE
  CASE f = "ConciseType" -> SetConciseType(r, v)
    [] f = "Type" -> IF VerboseType(v) = v
                     THEN [r EXCEPT !.verbose = v, !.concise = v, !.code = 0]
                     ELSE [r EXCEPT !.verbose = v]
    [] f = "DatetimeIntervalCode" -> [r EXCEPT !.code = v]
    [] f = "Length" -> [r EXCEPT !.length = v]
    [] f = "OctetLength" -> [r EXCEPT !.octet_length = v]
    [] f = "Precision" -> [r EXCEPT !.precision = v]
    [] f = "Scale" -> [r EXCEPT !.scale = v]
    [] f = "DataPtr" -> IF role = "Ipd" THEN r ELSE [r EXCEPT !.data = v]
    [] f = "IndicatorPtr" -> [r EXCEPT !.ind = v]
    [] f = "ParameterType" -> [r EXCEPT !.direction = v]

\* The fields SQLSetDescRec sets, in its order; the ones the role does not
\* define are passed over.
SetIfDefined(r, role, f, v) ==
  IF ReadWrite(role, f) THEN SetRecordField(r, role, f, v) ELSE r
WithRec(r, role, t, code, length, precision, scale, data, ind) ==
  LET typed == SetIfDefined(r, role, "Type", t)
      coded == SetIfDefined(typed, role, "DatetimeIntervalCode", code)
      sized == [coded EXCEPT !.octet_length = length, !.precision = precision, !.scale = scale]
      bound == SetIfDefined(sized, role, "DataPtr", data)
  IN SetIfDefined(bound, role, "IndicatorPtr", ind)

RecordAt(d, n) == IF n \in DOMAIN desc[d].records THEN desc[d].records[n] ELSE DefaultRecord
Key(n) == IF n < 0 THEN 0 ELSE n   \* u16::try_from(..).unwrap_or(0)

Calling == call.count < MaxCalls
Ends(name, answer, direct) ==
  call' = [name |-> name, answer |-> answer, count |-> call.count + 1,
           direct |-> call.direct \/ direct, copied |-> None]
Refused(name, answer, direct) ==
  Ends(name, answer, direct) /\ UNCHANGED <<desc, stmt, result>>
Success == "00000"
Stores(value, stored) == IF stored = value THEN Success ELSE "01S02"
Checked(r, role) == IF Consistent(r, role) THEN Success ELSE "HY021"
WriteRecord(d, n, r) == desc' = [desc EXCEPT ![d].records = Put(@, n, r)]

-----------------------------------------------------------------------------
(***************************************************************************)
(* SQLSetDescField.  The checks on the role come before the field is       *)
(* routed: a header field to the descriptor or the statement, the count to *)
(* the record map, any other field to a record, which springs into being.  *)
(* A failure after that leaves the record as it is.                        *)
(***************************************************************************)
FieldRefusal(d, n, f) ==
  IF n < 0 /\ Role(d) \in {"Ard", "Apd"} THEN "07009"
  ELSE IF Role(d) = "Ird" /\ f \notin {"ArrayStatusPtr", "RowsProcessedPtr"} THEN "HY016"
  ELSE IF ~ReadWrite(Role(d), f) THEN "HY091"
  ELSE IF n = 0 /\ Role(d) = "Ipd" /\ f # "Count" /\ HeaderAttribute(Role(d), f) = None
       THEN "07009"
  ELSE Success

WriteCount(d, count) ==
  /\ desc' = [desc EXCEPT ![d].records = Drop(@, {n \in DOMAIN @ : n > count})]
  /\ UNCHANGED stmt

\* write_header_field: any array size becomes the one supported (01S02).
WriteHeader(d, f, attr, value) ==
  LET stored == IF f = "ArraySize" THEN SupportedArraySize ELSE value IN
  /\ IF HeaderOwner(attr) # None
     THEN desc' = [desc EXCEPT ![d].attrs = Put(@, f, stored)] /\ UNCHANGED stmt
     ELSE stmt' = [stmt EXCEPT ![d[1]].attrs = Put(@, attr, stored)] /\ UNCHANGED desc
  /\ Ends("SetDescField", Stores(value, stored), TRUE)

WriteField(d, n, f, value) ==
  LET role == Role(d)
      before == RecordAt(d, Key(n))
      after == SetRecordField(before, role, f, value)
      answer == CASE after = None /\ ~Fits(f, value) -> "HY092"
                  [] after = None /\ Fits(f, value) -> "HY091"
                  [] OTHER -> IF f = "DataPtr" THEN Checked(after, role) ELSE Success
  IN
  /\ WriteRecord(d, Key(n), IF after = None THEN before ELSE after)
  /\ Ends("SetDescField", answer, TRUE)
  /\ UNCHANGED <<stmt, result>>

SetDescField(d, n, f, value) ==
  /\ Calling
  /\ LET refusal == FieldRefusal(d, n, f)
         attr == HeaderAttribute(Role(d), f)
     IN
     \/ refusal # Success /\ Refused("SetDescField", refusal, TRUE)
     \/ /\ refusal = Success /\ f = "Count"
        /\ WriteCount(d, value)
        /\ Ends("SetDescField", Success, TRUE) /\ UNCHANGED result
     \/ /\ refusal = Success /\ attr # None
        /\ WriteHeader(d, f, attr, value)
        /\ UNCHANGED result
     \/ /\ refusal = Success /\ f # "Count" /\ attr = None
        /\ WriteField(d, n, f, value)

(***************************************************************************)
(* SQLSetDescRec: all of it at once, and one check at the end.             *)
(***************************************************************************)
SetDescRec(d, n, t, code, length, precision, scale, data, ind) ==
  /\ Calling
  /\ IF n < 0 \/ (n = 0 /\ Role(d) = "Ipd") THEN Refused("SetDescRec", "07009", TRUE)
     ELSE IF Role(d) = "Ird" THEN Refused("SetDescRec", "HY016", TRUE)
     ELSE LET after == WithRec(RecordAt(d, n), Role(d), t, code, length,
                                    precision, scale, data, ind) IN
          /\ WriteRecord(d, n, after)
          /\ Ends("SetDescRec", Checked(after, Role(d)), TRUE)
          /\ UNCHANGED <<stmt, result>>

-----------------------------------------------------------------------------
\* snapshot_descriptor: an IRD's records are computed from the result set's
\* columns, and an implementation descriptor's two pointers come from its
\* statement.
StoredRecords(d) == desc[d].records   \* A fault: what an IRD stores is nothing.
SnapshotRecords(d) ==
  IF Role(d) = "Ird"
  THEN [n \in DOMAIN result[d[1]] |-> RecordFromColumn(result[d[1]][n], DefaultRecord)]
  ELSE desc[d].records
MergedFields(d) ==
  IF Role(d) \notin {"Ird", "Ipd"} THEN {}
  ELSE {f \in {"ArrayStatusPtr", "RowsProcessedPtr"} :
          HeaderAttribute(Role(d), f) \in DOMAIN stmt[d[1]].attrs}
SnapshotAttrs(d) ==
  [f \in DOMAIN desc[d].attrs \cup MergedFields(d) |->
     IF f \in MergedFields(d) THEN stmt[d[1]].attrs[HeaderAttribute(Role(d), f)]
     ELSE desc[d].attrs[f]]
Populated(d) == Role(d) = "Ird" => result[d[1]] # <<>>

\* The header fields the target keeps on its statement, an IPD's pair.
MovedFields(d, attrs) ==
  {f \in {"ArrayStatusPtr", "RowsProcessedPtr"} \cap DOMAIN attrs :
     /\ HeaderAttribute(Role(d), f) # None
     /\ HeaderOwner(HeaderAttribute(Role(d), f)) = None}

(***************************************************************************)
(* SQLCopyDesc: a wholesale replacement from a snapshot, which is checked  *)
(* under the target's role before anything is written.                     *)
(***************************************************************************)
CopyRefusal(source, target, records) ==
  CASE Role(target) = "Ird" -> "HY016"
    [] Role(target) # "Ird" /\ ~Populated(source) -> "HY007"
    [] OTHER -> IF \E n \in DOMAIN records : IsBound(records[n])
                                             /\ ~Consistent(records[n], Role(target))
                THEN "HY021" ELSE Success
CopyDesc(source, target) ==
  /\ Calling
  /\ LET records == SnapshotRecords(source)
         attrs == SnapshotAttrs(source)
         moved == MovedFields(target, attrs)
     IN
     IF CopyRefusal(source, target, records) # Success
     THEN Refused("CopyDesc", CopyRefusal(source, target, records), TRUE)
     ELSE /\ desc' = [desc EXCEPT ![target] =
                        [records |-> records, attrs |-> Drop(attrs, moved)]]
          /\ stmt' = IF moved = {} THEN stmt
                     ELSE [stmt EXCEPT ![target[1]].attrs =
                             [a \in DOMAIN @ \cup {HeaderAttribute("Ipd", f) : f \in moved} |->
                                IF \E f \in moved : a = HeaderAttribute("Ipd", f)
                                THEN attrs[CHOOSE f \in moved : a = HeaderAttribute("Ipd", f)]
                                ELSE @[a]]]
          /\ call' = [name |-> "CopyDesc", answer |-> Success, count |-> call.count + 1,
                      direct |-> TRUE, copied |-> <<source, target>>]
          /\ UNCHANGED result

-----------------------------------------------------------------------------
(***************************************************************************)
(* SQLBindCol.  Only a call with neither buffer unbinds; the record is     *)
(* checked before it replaces the one there was.                           *)
(***************************************************************************)
BindColRefusal(n, t, record, binds) ==
  CASE n = 0 -> "HYC00"
    [] n # 0 /\ binds /\ ~IsCType(t) -> "HY003"
    [] OTHER -> IF binds THEN Checked(record, "Ard") ELSE Success
BindCol(s, n, t, data, ind) ==
  LET ard == DescriptorOf(s, "Ard")
      record == SetConciseType([DefaultRecord EXCEPT !.data = data, !.ind = ind], t)
  IN
  /\ Calling
  /\ n >= 0
  /\ IF BindColRefusal(n, t, record, data \/ ind) # Success
     THEN Refused("BindCol", BindColRefusal(n, t, record, data \/ ind), FALSE)
     ELSE /\ desc' = [desc EXCEPT ![ard].records =
                        IF data \/ ind THEN Put(@, n, record) ELSE Drop(@, {n})]
          /\ Ends("BindCol", Success, FALSE)
          /\ UNCHANGED <<stmt, result>>

\* binary_target_is_supported, numeric_pairing_is_supported and
\* parameter_c_type_is_marshalled, for the types here.
PairingSupported(ctype, sqltype) == ctype = "integer" => VerboseType(sqltype) # "datetime"

\* The IPD's half; ColumnSize is the precision of an exact numeric too.
Declared(direction, sqltype, size, digits) ==
  SetConciseType([DefaultRecord EXCEPT
    !.length = size, !.scale = digits, !.direction = direction,
    !.precision = IF sqltype \in DecimalType THEN SaturateI16(size) ELSE 0], sqltype)

\* A fault: the application's half is written before the declared one is checked.
BindParameterHalfChecked(s, n, direction, ctype, sqltype, size, digits, data, ind) ==
  LET apd == DescriptorOf(s, "Apd")
      here == SetConciseType([DefaultRecord EXCEPT !.data = data, !.ind = ind], ctype)
      declared == Declared(direction, sqltype, size, digits)
  IN
  /\ Calling /\ n > 0 /\ direction # None /\ (data \/ ind)
  /\ IsCType(ctype) /\ PairingSupported(ctype, sqltype)
  /\ desc' = IF Consistent(declared, "Ipd")
             THEN [desc EXCEPT ![apd].records = Put(@, n, here),
                               ![<<s, "Ipd">>].records = Put(@, n, declared)]
             ELSE [desc EXCEPT ![apd].records = Put(@, n, here)]
  /\ Ends("BindParameter", Checked(declared, "Ipd"), FALSE)
  /\ UNCHANGED <<stmt, result>>

(***************************************************************************)
(* SQLBindParameter: one call, two descriptors, written or removed under   *)
(* the same number, both halves checked before either is written.          *)
(***************************************************************************)
BindParameterRefusal(n, direction, ctype, sqltype, here, declared, binds) ==
  IF n = 0 THEN "07009"
  ELSE IF direction = None THEN "HY105"
  ELSE IF ~IsCType(ctype) THEN "HY003"
  ELSE IF ~binds THEN Success
  ELSE IF ~PairingSupported(ctype, sqltype) THEN "07006"
  ELSE IF Checked(here, "Apd") # Success THEN "HY021"
  ELSE Checked(declared, "Ipd")
BindParameter(s, n, direction, ctype, sqltype, size, digits, data, ind) ==
  LET apd == DescriptorOf(s, "Apd")
      ipd == <<s, "Ipd">>
      here == SetConciseType([DefaultRecord EXCEPT !.data = data, !.ind = ind], ctype)
      declared == Declared(direction, sqltype, size, digits)
      binds == data \/ ind
      refusal == BindParameterRefusal(n, direction, ctype, sqltype, here, declared, binds)
  IN
  /\ Calling
  /\ n >= 0
  /\ IF refusal # Success THEN Refused("BindParameter", refusal, FALSE)
     ELSE /\ desc' = [desc EXCEPT
               ![apd].records = IF binds THEN Put(@, n, here) ELSE Drop(@, {n}),
               ![ipd].records = IF binds THEN Put(@, n, declared) ELSE Drop(@, {n})]
          /\ Ends("BindParameter", Success, FALSE)
          /\ UNCHANGED <<stmt, result>>

\* SQLFreeStmt(SQL_UNBIND).
UnbindColumns(s) ==
  /\ Calling
  /\ desc' = [desc EXCEPT ![DescriptorOf(s, "Ard")].records = Empty]
  /\ Ends("FreeStmt", Success, FALSE)
  /\ UNCHANGED <<stmt, result>>

\* A fault: SQL_RESET_PARAMS clears the application's half only.
ResetOneHalf(s) ==
  /\ Calling
  /\ desc' = [desc EXCEPT ![DescriptorOf(s, "Apd")].records = Empty]
  /\ Ends("FreeStmt", Success, FALSE)
  /\ UNCHANGED <<stmt, result>>

\* SQLFreeStmt(SQL_RESET_PARAMS), clear_param_records: both halves.
ResetParams(s) ==
  /\ Calling
  /\ desc' = [desc EXCEPT ![DescriptorOf(s, "Apd")].records = Empty,
                          ![<<s, "Ipd">>].records = Empty]
  /\ Ends("FreeStmt", Success, FALSE)
  /\ UNCHANGED <<stmt, result>>

(***************************************************************************)
(* SQLSetStmtAttr: an application descriptor by its handle, or an          *)
(* attribute, to the storage HeaderOwner names.  The two array sizes are   *)
(* replaced by the one supported (01S02).                                  *)
(***************************************************************************)
SetAppDescriptor(s, role, d) ==
  /\ Calling
  /\ stmt' = IF role = "Ard" THEN [stmt EXCEPT ![s].ard = d] ELSE [stmt EXCEPT ![s].apd = d]
  /\ Ends("SetStmtAttr", Success, d # None)
  /\ UNCHANGED <<desc, result>>

SetStmtAttr(s, attr, value) ==
  LET stored == IF attr \in {"RowArraySize", "ParamsetSize"} THEN SupportedArraySize
                ELSE value
      owner == HeaderOwner(attr)
  IN
  /\ Calling
  /\ IF owner = None
     THEN stmt' = [stmt EXCEPT ![s].attrs = Put(@, attr, stored)] /\ UNCHANGED desc
     ELSE /\ desc' = [desc EXCEPT ![DescriptorOf(s, owner[1])].attrs =
                                    Put(@, owner[2], stored)]
          /\ UNCHANGED stmt
  /\ Ends("SetStmtAttr", Stores(value, stored), FALSE)
  /\ UNCHANGED result

-----------------------------------------------------------------------------
\* SQLGetStmtAttr of a header field, and of an attribute kept on the statement.
GetStmtAttr(s, attr) ==
  LET owner == HeaderOwner(attr)
      stored == IF owner = None THEN stmt[s].attrs ELSE desc[DescriptorOf(s, owner[1])].attrs
      key == IF owner = None THEN attr ELSE owner[2]
  IN IF key \in DOMAIN stored THEN stored[key]
     ELSE IF owner = None THEN 0 ELSE HeaderDefault(owner[2])

\* read_header_field; None when the field is no header field of this role.
ReadHeaderField(d, f) ==
  LET attr == HeaderAttribute(Role(d), f) IN
  CASE f = "AllocType" -> IF d \in Explicit THEN 2 ELSE 1
    [] f = "Count" -> IF Role(d) = "Ird" THEN Len(result[d[1]])
                      ELSE Cardinality(DOMAIN desc[d].records)
    [] f \notin {"AllocType", "Count"} /\ attr = None -> None
    [] OTHER -> IF HeaderOwner(attr) # None
                THEN IF f \in DOMAIN desc[d].attrs THEN desc[d].attrs[f] ELSE HeaderDefault(f)
                ELSE GetStmtAttr(d[1], attr)

\* get_record_field.
GetRecordField(r, role, f) ==
  CASE f = "ConciseType" -> r.concise
    [] f = "Type" -> r.verbose
    [] f = "DatetimeIntervalCode" -> r.code
    [] f = "Length" -> r.length
    [] f = "OctetLength" -> r.octet_length
    [] f = "Precision" -> r.precision
    [] f = "Scale" -> r.scale
    [] f = "DataPtr" -> r.data
    [] f = "IndicatorPtr" -> r.ind
    [] f = "ParameterType" -> r.direction
    [] f = "Nullable" -> 2   \* SQL_NULLABLE_UNKNOWN: core never populates an IPD
    [] f = "RowVer" -> 0

\* read_ird_field: the column itself, once there is a result set.
ReadIrdField(s, n, f) ==
  IF result[s] = <<>> THEN <<"HY007">>
  ELSE IF n \notin DOMAIN result[s] THEN <<"07009">>
  ELSE IF f = "RowVer" THEN <<"HYC00">>
  ELSE <<"value", ColumnAttribute(result[s][n], Len(result[s]), f)>>

(***************************************************************************)
(* SQLGetDescField: the value, "NoData", or the SQLSTATE.                  *)
(***************************************************************************)
GetDescField(d, n, f) ==
  LET role == Role(d) IN
  IF n < 0 /\ role \in {"Ard", "Apd"} THEN <<"07009">>
  ELSE IF ~ReadWrite(role, f) /\ ~ReadOnly(role, f) THEN <<"HY091">>
  ELSE IF f \in HeaderField \cup {"Count", "AllocType"} /\ ReadHeaderField(d, f) # None
       THEN <<"value", ReadHeaderField(d, f)>>
  ELSE IF role = "Ird" THEN ReadIrdField(d[1], n, f)
  ELSE IF n = 0 /\ role = "Ipd" THEN <<"07009">>
  ELSE IF Key(n) \notin DOMAIN desc[d].records THEN <<"NoData">>
  ELSE IF f \in HeaderField THEN <<"HY091">>
  ELSE <<"value", GetRecordField(desc[d].records[Key(n)], role, f)>>

\* SQLGetDescRec reads six numbers with SQLGetDescField, but a field the role
\* does not define is no error to it; SQL_DESC_TYPE decides about SQL_NO_DATA.
ReadDescRecField(d, n, f) ==
  IF ~ReadWrite(Role(d), f) /\ ~ReadOnly(Role(d), f)
  THEN <<"value", IF f = "Nullable" THEN 2 ELSE 0>>
  ELSE GetDescField(d, n, f)
GetDescRec(d, n) ==
  [f \in {"Type", "DatetimeIntervalCode", "OctetLength", "Precision", "Scale", "Nullable"} |->
     ReadDescRecField(d, n, f)]

\* collect_bindings: the columns a fetch writes to.
Bindings(s) == LET records == desc[DescriptorOf(s, "Ard")].records IN
               {n \in DOMAIN records : HasPointer(records[n])}

(***************************************************************************)
(* ParamRecords::get, for one parameter of a statement: not bound, bound,  *)
(* or split, which the code answers with an internal error.                *)
(***************************************************************************)
ParamState(s, n) ==
  LET apd == desc[DescriptorOf(s, "Apd")].records
      ipd == desc[<<s, "Ipd">>].records
  IN CASE n \in DOMAIN apd /\ n \in DOMAIN ipd ->
            IF HasPointer(apd[n]) THEN "bound" ELSE "unbound"
       [] n \notin DOMAIN apd /\ n \notin DOMAIN ipd -> "unbound"
       [] OTHER -> "split"

-----------------------------------------------------------------------------
Init ==
  /\ desc = [d \in Desc |-> [records |-> Empty, attrs |-> Empty]]
  /\ stmt = [s \in Stmt |-> [ard |-> None, apd |-> None, attrs |-> Empty]]
  /\ result \in [Stmt -> Results]
  /\ call = [name |-> None, answer |-> Success, count |-> 0, direct |-> FALSE, copied |-> None]

Next ==
  \/ \E d \in Desc, c \in FieldCall : SetDescField(d, c[1], c[2][1], c[2][2])
  \/ \E d \in Desc, n \in Number, c \in RecCall :
       SetDescRec(d, n, c[1], c[2], c[3], c[4], c[5], c[6], c[7])
  \/ \E source, target \in Desc : CopyDesc(source, target)
  \/ \E s \in Stmt, n \in Number :
       \/ \E c \in ColCall : BindCol(s, n, c[1], c[2], c[3])
       \/ \E c \in ParamCall : BindParameter(s, n, c[1], c[2], c[3], c[4], c[5], c[6], c[7])
  \/ \E s \in Stmt : UnbindColumns(s) \/ ResetParams(s)
  \/ \E s \in Stmt, role \in {"Ard", "Apd"}, d \in Explicit \cup {None} :
       SetAppDescriptor(s, role, d)
  \/ \E s \in Stmt, c \in AttrCall : SetStmtAttr(s, c[1], c[2])

Spec == Init /\ [][Next]_vars

-----------------------------------------------------------------------------
(***************************************************************************)
(* Every record and header is well typed, whichever call wrote it: no      *)
(* array size but 1 is stored, on the strength of which SQLFetch and       *)
(* SQLExecute report into the first element of a status array, and an IRD, *)
(* a view of the result set, holds no record (HY016).                      *)
(***************************************************************************)
Records(rs) == DOMAIN rs \subseteq Nat /\ \A n \in DOMAIN rs : rs[n] \in Record
Attrs(attrs) ==
  /\ DOMAIN attrs \subseteq HeaderField /\ \A f \in DOMAIN attrs : attrs[f] \in Int
  /\ "ArraySize" \in DOMAIN attrs => attrs["ArraySize"] = SupportedArraySize
DescriptorOK(d) ==
  /\ DOMAIN desc[d] = {"records", "attrs"}
  /\ Records(desc[d].records) /\ Attrs(desc[d].attrs)
  /\ Role(d) = "Ird" => desc[d].records = Empty
StatementOK(s) ==
  /\ DOMAIN stmt[s] = {"ard", "apd", "attrs"}
  /\ stmt[s].ard \in Explicit \cup {None} /\ stmt[s].apd \in Explicit \cup {None}
  /\ DOMAIN stmt[s].attrs \subseteq KeptOnStmt
  /\ \A a \in DOMAIN stmt[s].attrs : stmt[s].attrs[a] \in Int
TypeOK ==
  /\ DOMAIN desc = Desc /\ \A d \in Desc : DescriptorOK(d)
  /\ DOMAIN stmt = Stmt /\ \A s \in Stmt : StatementOK(s)
  /\ result \in [Stmt -> Results]
  /\ call.direct \in BOOLEAN /\ call.count \in Nat

(***************************************************************************)
(* SQLBindCol, SQLBindParameter and SQLCopyDesc refuse before they write:  *)
(* a call of theirs that fails leaves every descriptor and every statement *)
(* as it was, whatever bindings were there.  Every refusal, theirs or of a *)
(* call on a descriptor, whichever of the shared checks it comes from, is  *)
(* one the specification lists for the function that was called.           *)
(***************************************************************************)
RefusalChangesNothing ==
  [][/\ call'.name \in {"BindCol", "BindParameter", "CopyDesc"} /\ call'.answer # Success =>
          UNCHANGED <<desc, stmt>>
     /\ call'.answer # Success => call'.answer \in Listed(call'.name)]_vars

(***************************************************************************)
(* An application that binds with SQLBindParameter, and leaves the         *)
(* descriptors themselves alone, never has half a parameter: no sequence   *)
(* of binds, rebinds, refused binds, unbinds and resets produces the       *)
(* internal error of ParamRecords::get.                                    *)
(***************************************************************************)
BindsKeepHalvesTogether ==
  ~call.direct => \A s \in Stmt, n \in Number : ParamState(s, n) # "split"

(***************************************************************************)
(* A header field has one value: what SQLGetDescField reads on a           *)
(* statement's own descriptor is what SQLGetStmtAttr reads of the          *)
(* statement while that descriptor is the one in use, whichever of the two *)
(* wrote it, or a copy.  SQLGetDescRec, whose page has no HY091, answers   *)
(* with what its own page lists though it reads by SQLGetDescField.        *)
(***************************************************************************)
DoorsAgree ==
  /\ \A d \in Implicit, f \in HeaderField :
       LET attr == HeaderAttribute(Role(d), f) IN
       (attr # None /\ DescriptorOf(d[1], Role(d)) = d) =>
         GetDescField(d, 0, f) = <<"value", GetStmtAttr(d[1], attr)>>
  /\ \A d \in Desc, n \in Number, f \in {"Type", "Nullable"} :
       GetDescRec(d, n)[f][1] \in Listed("GetDescRec") \cup {"value", "NoData"}

\* A column whose size a record's own types can hold; RecordFromColumn clips
\* the others.
FitsRecord(d, n) ==
  (Role(d) = "Ird" /\ n \in DOMAIN result[d[1]]) => result[d[1]][n].precision <= MaxI16

(***************************************************************************)
(* After SQLCopyDesc, every record field both descriptors define reads the *)
(* same on the copy as on the source, a source that is a view included,    *)
(* for every column or parameter, numbered from 1, whose size fits a       *)
(* record.                                                                 *)
(***************************************************************************)
CopyReadsLikeSource ==
  call.copied # None =>
    LET source == call.copied[1]
        target == call.copied[2]
        both == {f \in RecordField : \A d \in {source, target} :
                   ReadWrite(Role(d), f) \/ ReadOnly(Role(d), f)}
    IN \A n \in Number \cup DOMAIN desc[target].records, f \in both :
         /\ n > 0 /\ FitsRecord(source, n)
         /\ "value" \in {GetDescField(d, n, f)[1] : d \in {source, target}}
         => GetDescField(target, n, f) = GetDescField(source, n, f)
=============================================================================
