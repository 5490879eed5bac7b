--------------------------- MODULE ConnectionStrings ---------------------------
(***************************************************************************)
(* types/connect_params.rs and merge_dsn_params: the settings a connection *)
(* string asks for, and the string that asks for some settings.  A string  *)
(* is a sequence of tokens: the four marks, blanks and words.  Settings    *)
(* are a function from keywords, one word each and in lower case, to       *)
(* values.                                                                 *)
(***************************************************************************)
EXTENDS Naturals, FiniteSets, Functions, Sequences, SequencesExt

CONSTANTS
  Word,     \* the words of strings and files
  OdbcIni,  \* external: the sections of odbc.ini, settings by data source name
  Lower     \* to_lowercase of the words that have capitals

Mark == {";", "=", "{", "}"}
Token == Mark \cup {" "} \cup Word
\* What may stand before a "=", in lower case.
Keyword == (Token \ {";", "=", " "}) \ DOMAIN Lower
NoSettings == [k \in {} |-> <<>>]

ASSUME StringAssumption ==
  /\ \A word \in DOMAIN Lower : Lower[word] \in Keyword
  /\ \A dsn \in DOMAIN OdbcIni :
       /\ IsFiniteSet(DOMAIN OdbcIni[dsn]) /\ DOMAIN OdbcIni[dsn] \subseteq Keyword
       /\ \A k \in DOMAIN OdbcIni[dsn] : OdbcIni[dsn][k] \in Seq(Token)

\* The first place at or after i where a token of S stands, or the end.
FirstOf(text, i, S) ==
  LET at == {j \in i..Len(text) : text[j] \in S}
  IN  IF at = {} THEN Len(text) + 1 ELSE CHOOSE j \in at : \A k \in at : j <= k

Trimmed(text) ==
  LET kept == {j \in 1..Len(text) : text[j] # " "}
  IN  IF kept = {} THEN <<>>
      ELSE SubSeq(text, CHOOSE j \in kept : \A k \in kept : j <= k,
                        CHOOSE j \in kept : \A k \in kept : k <= j)

\* A closing brace ends a braced value unless it is doubled.
Closing(text, i) ==
  LET n == Len(text)
      Doubles(k) == k < n /\ text[k + 1] = "}"
      close[k \in 1..n + 1] ==
        IF k > n THEN n + 1
        ELSE IF text[k] # "}" THEN close[k + 1]
        ELSE IF Doubles(k) THEN close[k + 2] ELSE k
  IN  close[i]

\* What stands between the braces.
Undoubled(text) ==
  LET n == Len(text)
      out[k \in 1..n + 1] ==
        IF k > n THEN <<>>
        ELSE <<text[k]>> \o out[IF text[k] = "}" /\ k < n THEN k + 2 ELSE k + 1]
  IN  out[1]

\* ConnectParams::merge: what is there stays.
Merge(settings, more) ==
  [k \in DOMAIN settings \cup DOMAIN more |->
     IF k \in DOMAIN settings THEN settings[k] ELSE more[k]]

Setting(key, value) ==
  IF key = <<>> THEN NoSettings
  ELSE LET word == Trimmed(key)[1]
       IN  [k \in {IF word \in DOMAIN Lower THEN Lower[word] ELSE word} |-> value]

(***************************************************************************)
(* ConnectParams::parse.  A segment without "=" is passed over; a value in *)
(* braces is taken as it stands, up to the closing brace or the end; the   *)
(* first value of a keyword is the one that counts.                        *)
(***************************************************************************)
Parse(text) ==
  LET n == Len(text)
      settings[i \in 1..n + 1] ==
        IF i > n THEN NoSettings
        ELSE IF text[i] \in {";", " "} THEN settings[i + 1]
        ELSE
          LET stop == FirstOf(text, i, {"=", ";"})
              v == FirstOf(text, stop + 1, Range(text) \ {" "})
              braced == v <= n /\ text[v] = "{"
              close == IF braced THEN Closing(text, v + 1) ELSE FirstOf(text, v, {";"})
              value == IF braced THEN Undoubled(SubSeq(text, v + 1, close - 1))
                       ELSE Trimmed(SubSeq(text, v, close - 1))
          IN  IF stop > n THEN NoSettings
              ELSE IF text[stop] = ";" THEN settings[stop]
              ELSE Merge(Setting(SubSeq(text, i, stop - 1), value),
                         settings[FirstOf(text, close, {";"})])
  IN  settings[1]

-----------------------------------------------------------------------------
NeedsBraces(value) ==
  \/ \E i \in DOMAIN value : value[i] \in Mark
  \/ value # <<>> /\ " " \in {value[1], Last(value)}

Doubled(value) ==
  FlattenSeq([i \in 1..Len(value) |-> IF value[i] = "}" THEN <<"}", "}">> ELSE <<value[i]>>])

Rendered(key, value) ==
  <<key, "=">> \o IF NeedsBraces(value) THEN <<"{">> \o Doubled(value) \o <<"}">> ELSE value

\* to_connection_string, for the order the map is walked in.
ToConnectionString(settings, order) ==
  FlattenSeq([m \in 1..Len(order) |->
                (IF m = 1 THEN <<>> ELSE <<";">>) \o Rendered(order[m], settings[order[m]])])

\* read_dsn_keys: the driver's own entry is not a setting.
DsnKeys(dsn) ==
  IF dsn \notin DOMAIN OdbcIni THEN NoSettings
  ELSE Restrict(OdbcIni[dsn], DOMAIN OdbcIni[dsn] \ {"driver"})

\* A fault: the file beats the string.
FileFirst(settings) ==
  IF "dsn" \in DOMAIN settings THEN Merge(DsnKeys(settings["dsn"]), settings) ELSE settings
\* merge_dsn_params: the string beats the file.
MergeDsnParams(settings) ==
  IF "dsn" \in DOMAIN settings THEN Merge(settings, DsnKeys(settings["dsn"])) ELSE settings

\* ConnectParams::user and ::password: User before UID, Password before PWD.
Credential(settings, name, alias) ==
  settings[IF name \in DOMAIN settings THEN name ELSE alias]

\* SQLConnectW's three arguments, null or empty when None: they beat the file too.
Arguments(server, user, authentication) ==
  LET given == {a \in {<<"dsn", server>>, <<"user", user>>, <<"password", authentication>>} :
                  a[2] # <<>>}
  IN  [k \in {a[1] : a \in given} |-> (CHOOSE a \in given : a[1] = k)[2]]
=============================================================================
