--------------------------- MODULE CatalogArguments ---------------------------
(***************************************************************************)
(* What the catalog functions make of their arguments and of the rows the  *)
(* data source returns: the SQL_ATTR_METADATA_ID normalisation, the special*)
(* enumerations of SQLTables, its list of table types, and the sort.  Text *)
(* is a sequence of characters, NULL is Null.  A source is the data source *)
(* as its Backend hooks describe it: a record of the fields                *)
(*   case      identifier_case: "upper", "lower" or "mixed"                *)
(*   quotes    the pairs of escape_dialect().identifier_quotes()           *)
(*   escape    search_pattern_escape, empty when there is none             *)
(*   catalogs, schemas, nulls (null_collation: "low" or "high")            *)
(***************************************************************************)
EXTENDS Naturals, FiniteSets, SequencesExt

CONSTANT Collation  \* external: the characters of names, in the order they sort in
Character == {Collation[i] : i \in DOMAIN Collation}
ASSUME CollationAssumption ==
  /\ Collation \in Seq(Character) /\ "NULL" \notin Character
  /\ \A i, j \in DOMAIN Collation : Collation[i] = Collation[j] => i = j

Null == <<"NULL">>
Empty == <<>>
Wild == <<"%">>
Unterminated == <<"unterminated">>  \* a length neither positive nor SQL_NTS

\* External: to_uppercase and to_lowercase, over the letters used here.
Upper(ch) == CASE ch = "a" -> "A" [] ch = "b" -> "B" [] OTHER -> ch
Lower(ch) == CASE ch = "A" -> "a" [] ch = "B" -> "b" [] OTHER -> ch
Map(text, op(_)) == [i \in 1..Len(text) |-> op(text[i])]

Delimited(text, quotes) == Len(text) >= 2 /\ <<Head(text), Last(text)>> \in quotes
strip_delimiters(text, quotes) ==
  IF Delimited(text, quotes) THEN SubSeq(text, 2, Len(text) - 1) ELSE text

escape_pattern_metacharacters(text, escape) ==
  IF escape = Empty THEN text
  ELSE FlattenSeq([i \in 1..Len(text) |->
         IF text[i] \in {escape[1], "%", "_"} THEN <<escape[1], text[i]>> ELSE <<text[i]>>])

Fold(text, source) == CASE source.case = "upper" -> Map(text, Upper)
                        [] source.case = "lower" -> Map(text, Lower)
                        [] OTHER -> text

normalise_identifier(text, source) ==
  LET unwrapped == strip_delimiters(text, source.quotes)
  IN  escape_pattern_metacharacters(
        IF Delimited(text, source.quotes) THEN unwrapped ELSE Fold(unwrapped, source), source.escape)

\* A fault: the metacharacters of the identifier are left as they are.
UnescapedIdentifier(value, metadata_id, source) ==
  IF metadata_id /\ value # Null
  THEN normalise_identifier(value, [source EXCEPT !.escape = Empty]) ELSE value
normalise_catalog_arg(value, metadata_id, source) ==
  IF metadata_id /\ value # Null THEN normalise_identifier(value, source) ELSE value

-----------------------------------------------------------------------------
\* SQLTables: which argument alone is "%", the others being empty strings.
table_enumeration(args, types) ==
  CASE args = <<Wild, Empty, Empty>> -> "Catalogs"
    [] args = <<Empty, Wild, Empty>> -> "Schemas"
    [] args = <<Empty, Empty, Empty>> /\ types = Wild -> "TableTypes"
    [] OTHER -> "None"

\* Splits at the commas, trims blanks and single quotes, drops what is left
\* empty: the set of types asked for.  No element means no restriction.
SplitAt(text, ch) ==
  LET ends == {i \in 1..Len(text) : text[i] = ch} \cup {Len(text) + 1}
      Before(e) == {i \in ends : i < e}
      Start(e) == IF Before(e) = {} THEN 1 ELSE 1 + CHOOSE i \in Before(e) : \A j \in Before(e) : j <= i
  IN  {SubSeq(text, Start(e), e - 1) : e \in ends}
Trimmed(text, chars) ==
  LET kept == {i \in 1..Len(text) : text[i] \notin chars}
  IN  IF kept = {} THEN Empty
      ELSE SubSeq(text, CHOOSE i \in kept : \A j \in kept : i <= j,
                        CHOOSE i \in kept : \A j \in kept : j <= i)
parse_table_type_list(text) ==
  IF text = Null THEN {}
  ELSE {Trimmed(Trimmed(Trimmed(part, {" "}), {"'"}), {" "}) : part \in SplitAt(text, ",")} \ {Empty}

-----------------------------------------------------------------------------
\* External: the order of characters, and so of values.
Rank(ch) == CHOOSE i \in DOMAIN Collation : Collation[i] = ch
TextPrecedes(x, y) ==
  \E n \in 0..Len(x) : /\ n < Len(y) /\ SubSeq(x, 1, n) = SubSeq(y, 1, n)
                       /\ n = Len(x) \/ (n < Len(x) /\ Rank(x[n + 1]) < Rank(y[n + 1]))

\* compare_values: a NULL goes where null_collation puts it.
ValuePrecedes(x, y, nulls) ==
  CASE x = Null -> y # Null /\ nulls = "low"
    [] x # Null /\ y = Null -> nulls # "low"
    [] OTHER -> TextPrecedes(x, y)

RowPrecedes(r, s, keys, nulls) ==
  \E n \in 1..Len(keys) : /\ \A m \in 1..n - 1 : r[keys[m] + 1] = s[keys[m] + 1]
                          /\ ValuePrecedes(r[keys[n] + 1], s[keys[n] + 1], nulls)

\* sort_by and sort_rows: stable sorts.
Sorted(rows, Before(_, _)) ==
  LET Earlier(j, i) == Before(rows[j], rows[i]) \/ (~Before(rows[i], rows[j]) /\ j < i)
      Position(i) == 1 + Cardinality({j \in 1..Len(rows) : Earlier(j, i)})
  IN  [k \in 1..Len(rows) |-> rows[CHOOSE i \in 1..Len(rows) : Position(i) = k]]
sort_rows(rows, keys, nulls) == Sorted(rows, LAMBDA r, s : RowPrecedes(r, s, keys, nulls))

\* compare_type_info_rows.
TypePrecedes(a, b) ==
  CASE a.data_type # b.data_type -> TextPrecedes(a.data_type, b.data_type)
    [] a.data_type = b.data_type /\ a.preferred # b.preferred -> a.preferred
    [] OTHER -> TextPrecedes(a.name, b.name)
=============================================================================
