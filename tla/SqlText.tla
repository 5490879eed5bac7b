------------------------------- MODULE SqlText -------------------------------
(***************************************************************************)
(* ODBC escape sequences (escape.rs) and parameter markers (count_params). *)
(* A text is a sequence of tokens: the marks the scanner stops at, the     *)
(* keywords of escapes, names and other words, blanks and line ends.       *)
(* Words stand next to marks as written; nothing depends on their letters. *)
(* A dialect is a record of the fields                                     *)
(*   quotes   the identifier quotes, a function from opening to closing    *)
(*   rewrites the functions rewrite_scalar_fn puts differently             *)
(***************************************************************************)
EXTENDS Naturals, FiniteSets, SequencesExt

CONSTANT MAX_ESCAPE_DEPTH

Blank == {" ", "\n"}
Keyword == {"fn", "d", "t", "ts", "oj", "escape", "call"}
Name == {"f", "g"}
Word == Keyword \cup Name \cup {"x"}
Mark == {"'", "q", "[", "]", "--", "/*", "*/", "{", "}", "(", ")", "?"}
Token == Blank \cup Word \cup Mark

Least(S) == CHOOSE i \in S : \A j \in S : i <= j
After(text, i, S) == {j \in i..Len(text) : text[j] \in S}

\* The positions a scan comes by that starts at i and goes on from k to next[k].
Visited(i, next) ==
  LET n == Len(next)
      from[k \in 1..n + 1] == IF k > n THEN {} ELSE {k} \cup from[next[k]]
  IN  from[i]

\* skip_string and skip_quoted_ident: to behind the closing quote, a doubled
\* one standing for itself where the quotes are the same.
Quoted(text, i, close, doubles) ==
  LET n == Len(text)
      Doubled(k) == doubles /\ k < n /\ text[k + 1] = close
      next == [k \in 1..n |-> IF text[k] = close /\ Doubled(k) THEN k + 2 ELSE k + 1]
      ends == {k \in Visited(i + 1, next) : text[k] = close /\ ~Doubled(k)}
  IN  IF ends = {} THEN n + 1 ELSE Least(ends) + 1

\* skip_line_comment, skip_block_comment: to behind what ends the comment.
Commented(text, i, end) == LET ends == After(text, i + 1, {end})
                           IN  IF ends = {} THEN Len(text) + 1 ELSE Least(ends) + 1

\* Behind the literal, quoted identifier or comment that begins at i; i where
\* none does.
Region(text, i, dialect) ==
  CASE text[i] = "'" -> Quoted(text, i, "'", TRUE)
    [] text[i] \in DOMAIN dialect.quotes \ {"'"} ->
         Quoted(text, i, dialect.quotes[text[i]], dialect.quotes[text[i]] = text[i])
    [] text[i] = "--" -> Commented(text, i, "\n")
    [] text[i] = "/*" -> Commented(text, i, "*/")
    [] OTHER -> i

\* Where the scan of a text goes on behind i, and the positions of the tokens
\* outside every region.
Behind(text, i, dialect) == LET r == Region(text, i, dialect) IN IF r > i THEN r ELSE i + 1
Code(text, dialect) ==
  {i \in Visited(1, [k \in 1..Len(text) |-> Behind(text, k, dialect)]) : Region(text, i, dialect) = i}

count_params(text, dialect) == Cardinality({i \in Code(text, dialect) : text[i] = "?"})

\* find_matching_brace, find_matching_paren: where as many are closed as were
\* opened among the positions of code, 0 when nowhere.
Balanced(text, code, opening, closing) ==
  LET Count(k, mark) == Cardinality({j \in code : j <= k /\ text[j] = mark})
      closed == {k \in code : text[k] = closing /\ Count(k, opening) = Count(k, closing)}
  IN  IF closed = {} THEN 0 ELSE Least(closed)
Matching(text, open, limit, opening, closing, dialect) ==
  Balanced(text, {open + i - 1 : i \in Code(SubSeq(text, open, Len(text)), dialect)} \cap open..limit - 1,
           opening, closing)
find_matching_brace(text, open, dialect) == Matching(text, open, Len(text) + 1, "{", "}", dialect)
find_matching_paren(text, open, limit, dialect) == Matching(text, open, limit, "(", ")", dialect)

SkipBlanks(text, i) == LET words == {j \in i..Len(text) : text[j] \notin Blank}
                       IN  IF words = {} THEN Len(text) + 1 ELSE Least(words)
At(text, i) == IF i <= Len(text) THEN text[i] ELSE "end"

TrimEnd(text) == LET kept == {i \in 1..Len(text) : text[i] \notin Blank}
                 IN  IF kept = {} THEN <<>> ELSE SubSeq(text, 1, CHOOSE i \in kept : \A j \in kept : j <= i)
Trim(text) == LET from == SkipBlanks(text, 1) IN TrimEnd(SubSeq(text, from, Len(text)))

-----------------------------------------------------------------------------
Translated(text) == [state |-> "00000", text |-> text]
Refused(state) == [state |-> state, text |-> <<>>]
Ok(result) == result.state = "00000"
\* The results one after the other, or the first refusal of them.
Both(first, second) == IF ~Ok(first) THEN first ELSE IF ~Ok(second) THEN second
                       ELSE Translated(first.text \o second.text)

\* The results of a scan from its start, piece[i] what comes of i.
Joined(piece, next) ==
  LET n == Len(next)
      from[i \in 1..n + 1] == IF i > n THEN Translated(<<>>) ELSE Both(piece[i], from[next[i]])
  IN  from[1]

\* A fault: what follows the arguments is lost.
PutCallAlone(function, name, args, tail, dialect) ==
  IF ~Ok(args) THEN args ELSE IF ~Ok(tail) THEN tail ELSE Translated(function \o args.text \o <<")">>)

\* {fn NAME(args)}: the arguments and what follows them are translated once;
\* the dialect then puts the call its own way or declines it.  {fn NAME ...}
\* without a call only has the rest translated.
PutCall(function, name, args, tail, dialect) ==
  LET Put(before, inside, behind) == Translated(before \o inside \o <<")">> \o behind)
  IN  IF ~Ok(args) THEN args ELSE IF ~Ok(tail) THEN tail
      ELSE IF name \in dialect.rewrites
           THEN Put(<<"g", "(">>, Trim(args.text), TrimEnd(tail.text))
           ELSE Put(function, args.text, tail.text)
translate_call(text, name, close, dialect, inner) ==
  LET p == SkipBlanks(text, name + 1)
      arg_close == IF p < close /\ text[p] = "(" THEN find_matching_paren(text, p, close, dialect) ELSE 0
      Inside(from, to) == inner[SubSeq(text, from, to)]
  IN  IF arg_close = 0
      THEN Both(Translated(<<text[name]>>), Inside(name + 1, close - 1))
      ELSE PutCall(SubSeq(text, name, p), text[name],
                   Inside(p + 1, arg_close - 1), Inside(arg_close + 1, close - 1), dialect)

\* translate_escape: what becomes of the escape between open and close.
translate_escape(text, open, close, dialect, inner) ==
  LET kw == SkipBlanks(text, open + 1)
      keyword == IF At(text, kw) \in Word THEN text[kw] ELSE "none"
      name == SkipBlanks(text, kw + 1)
      body == SubSeq(text, kw + 1, close - 1)
      Verbatim == Translated(SubSeq(text, open, close))
  IN  IF close = 0 THEN Refused("42000")
      ELSE
        CASE keyword = "fn" -> IF At(text, name) \in Word
                             THEN translate_call(text, name, close, dialect, inner) ELSE Verbatim
        [] keyword \in {"d", "t", "ts"} -> Translated(<<keyword>> \o Trim(body))
        [] keyword = "oj" -> [inner[body] EXCEPT !.text = Trim(@)]
        [] keyword = "escape" -> Translated(<<"escape", " ">> \o Trim(body))
        [] keyword = "call" \/ (keyword = "none" /\ At(text, kw) = "?") -> Refused("HYC00")
        [] OTHER -> Verbatim

\* translate_slice, where inner is what it makes of the text in an escape.
translate_slice(text, dialect, inner) ==
  LET Escape(i) == Region(text, i, dialect) = i /\ text[i] = "{"
      close(i) == find_matching_brace(text, i, dialect)
      next(i) == IF Escape(i) /\ close(i) # 0 THEN close(i) + 1 ELSE Behind(text, i, dialect)
  IN  Joined([i \in 1..Len(text) |-> IF Escape(i) THEN translate_escape(text, i, close(i), dialect, inner)
                                     ELSE Translated(SubSeq(text, i, next(i) - 1))],
             [i \in 1..Len(text) |-> next(i)])

\* The text of an escape is translated a level deeper, MAX_ESCAPE_DEPTH times.
translate_escapes(text, dialect) ==
  LET level[left \in 0..MAX_ESCAPE_DEPTH + 1] ==
        [part \in Seq(Token) |-> IF left = 0 THEN Refused("42000")
                                 ELSE translate_slice(part, dialect, level[left - 1])]
  IN  level[MAX_ESCAPE_DEPTH + 1][text]
=============================================================================
