------------------------ MODULE StatementMachineProofs ------------------------
(***************************************************************************)
(* Proofs about the statements of a connection, for every number of        *)
(* statements, texts, parameters and pieces of data, behind a Driver       *)
(* Manager.  An entry point changes one statement, or SQLEndTran all of    *)
(* them, so the invariant says of each statement what must hold between    *)
(* its fields and what the application and the backend know of it.         *)
(***************************************************************************)
EXTENDS StatementMachine, TLAPS, WellFoundedInduction

Statement ==
  [statement : Held \cup {None}, cursor_open : BOOLEAN, executed : BOOLEAN,
   prepared_sql : Text \cup {None}, param_count : (0 .. MaxMarks) \cup {None},
   data_at_exec : DataAtExec \cup {None},
   get_data_cursor : [column : Column, done : BOOLEAN] \cup {None}]
Sight ==
  [prepared : Text \cup {None}, asked : Text \cup {None},
   by : {"ExecDirect", "Execute", None},
   sent : UNION {[1 .. n -> Values] : n \in 0 .. MaxMarks},
   cursor : {"none", "open", "failed"}, moved : BOOLEAN]

\* Core and the backend agree about the cursor, and a position into a column
\* belongs to its row.
CursorKnown(r, saw) ==
  /\ r.cursor_open <=> saw.cursor = "open"
  /\ r.cursor_open => r.statement # None /\ HasColumns(r.statement)
  /\ r.get_data_cursor # None => r.cursor_open /\ ~saw.moved

\* A prepared text stays ready until something else replaces it.
PlanKept(r, saw) ==
  saw.prepared # None => /\ r.prepared_sql = saw.prepared
                         /\ r.param_count = Marks[saw.prepared]
                         /\ r.statement \in {None, saw.prepared}

\* What the buffer of the current parameter stands for.
Current(dae) == IF dae.put = "Null" THEN NullValue ELSE Sent(dae.buffer)

\* Each parameter is collected, current or pending, and only one of them; what
\* was sent for it is in its value, in the buffer, or nothing yet.
SentSoFar(dae, count, sent) ==
  /\ sent \in [1 .. count -> Values]
  /\ DOMAIN dae.values \subseteq 1 .. count
  /\ dae.pending \subseteq 1 .. count
  /\ dae.current \in (1 .. count) \cup {None}
  /\ \A p \in 1 .. count :
       \/ /\ p \in dae.pending /\ p # dae.current /\ p \notin DOMAIN dae.values
          /\ sent[p] = Sent(0)
       \/ /\ p \notin dae.pending /\ p = dae.current /\ p \notin DOMAIN dae.values
          /\ sent[p] = Current(dae)
       \/ /\ p \notin dae.pending /\ p # dae.current /\ p \in DOMAIN dae.values
          /\ sent[p] = dae.values[p]
  /\ dae.current = None \/ dae.put = "NotCalled" => dae.buffer = 0

\* While a call needs data, no cursor is open, and its text is the one meant.
SequenceKept(r, saw) ==
  r.data_at_exec # None =>
    /\ ~r.cursor_open
    /\ r.param_count \in 0 .. MaxMarks
    /\ SentSoFar(r.data_at_exec, r.param_count, saw.sent)
    /\ saw.prepared # None => r.data_at_exec.sql = saw.prepared
    /\ saw.by = "Execute" => saw.asked = saw.prepared /\ saw.prepared # None

Good(r, saw) == /\ r \in Statement /\ saw \in Sight
                /\ CursorKnown(r, saw) /\ PlanKept(r, saw) /\ SequenceKept(r, saw)

RanAsAsked ==
  /\ ran.params = ran.sent
  /\ ran.over # "open"
  /\ ran.by = "Execute" => ran.text = ran.asked

IInv == /\ stmt \in [Stmt -> Statement] /\ seen \in [Stmt -> Sight]
        /\ \A s \in Stmt : Good(stmt[s], seen[s])
        /\ RanAsAsked
        /\ EndTranLeavesNoCursor

-----------------------------------------------------------------------------
(***************************************************************************)
(* The names differ from None, and the bounds are numbers.                 *)
(***************************************************************************)
LEMMA NamesDiffer ==
  /\ None \notin Text /\ None \notin Nat /\ None \notin Held
  /\ None # "Execute" /\ None # "ExecDirect" /\ None # "Close" /\ None # "Delete"
  /\ MaxMarks \in Nat /\ MaxData \in Nat /\ Marks \in [Text -> 0 .. MaxMarks]
  /\ Columns \subseteq Text /\ "catalog" \notin Text /\ "synthetic" \notin Text
BY StatementAssumption DEF Held

(***************************************************************************)
(* The smallest number of a set is one of them.                            *)
(***************************************************************************)
LEMMA FirstIsOne ==
  ASSUME NEW numbers \in SUBSET Nat, numbers # {}
  PROVE  First(numbers) \in numbers
<1>. DEFINE Below == OpToRel(<, Nat)
<1>1. \E p \in numbers : \A q \in numbers : ~ (<<q, p>> \in Below)
  BY WFMin, NatLessThanWellFounded, Zenon
<1>2. \A p, q \in Nat : <<q, p>> \in Below <=> q < p
  BY DEF OpToRel
<1>. HIDE DEF Below
<1>3. PICK p \in numbers : \A q \in numbers : ~ (<<q, p>> \in Below)
  BY <1>1
<1>4. ASSUME NEW q \in numbers PROVE p <= q
  <2>1. p \in Nat /\ q \in Nat
    OBVIOUS
  <2>2. ~(q < p)
    BY <1>2, <1>3, <2>1, Zenon
  <2>. QED  BY <2>1, <2>2
<1>. QED  BY <1>4 DEF First

(***************************************************************************)
(* An entry point that leaves its own statement as it should be leaves all *)
(* of them so.                                                             *)
(***************************************************************************)
LEMMA SetKeeps ==
  ASSUME IInv, NEW s \in Stmt, NEW r, NEW saw, Set(s, r, saw), Good(r, saw), RanAsAsked'
  PROVE  IInv'
<1>1. /\ stmt' = [t \in Stmt |-> IF t = s THEN r ELSE stmt[t]]
      /\ seen' = [t \in Stmt |-> IF t = s THEN saw ELSE seen[t]]
  BY DEF Set, IInv
<1>2. \A t \in Stmt : Good(stmt'[t], seen'[t])
  BY <1>1 DEF IInv
<1>3. EndTranLeavesNoCursor'
  BY NamesDiffer DEF Set, EndTranLeavesNoCursor
<1>4. stmt' \in [Stmt -> Statement] /\ seen' \in [Stmt -> Sight]
  BY <1>1 DEF IInv, Good
<1>. QED  BY <1>2, <1>3, <1>4 DEF IInv

(***************************************************************************)
(* A call that has the backend execute nothing executes nothing else.      *)
(***************************************************************************)
LEMMA NothingRanIsAsAsked == ran' = NothingRan => RanAsAsked'
BY NamesDiffer DEF NothingRan, RanAsAsked

-----------------------------------------------------------------------------
(***************************************************************************)
(* The records each entry point builds are statements, and what the        *)
(* histories become are histories.                                         *)
(***************************************************************************)
LEMMA RecordsKeepTypes ==
  ASSUME NEW r \in Statement, NEW saw \in Sight, NEW held \in Held
  PROVE  /\ HasColumns(held) \in BOOLEAN
         /\ WithResult(r, held) \in Statement
         /\ WithPrepared(r, held) \in Statement
         /\ Discarded(r) \in Statement
         /\ Executed(saw, held) \in Sight
         /\ Dropped(saw) \in Sight
         /\ Over(saw) \in Sight
         /\ [r EXCEPT !.data_at_exec = None] \in Statement
<1>1. HasColumns(held) \in BOOLEAN
  BY DEF HasColumns
<1>2. WithResult(r, held) \in Statement
  BY <1>1 DEF WithResult, Statement
<1>3. ASSUME NEW any \in Held \cup {None} PROVE WithPrepared(r, any) \in Statement
  BY DEF WithPrepared, Statement
<1>4. Discarded(r) \in Statement
  BY <1>3 DEF Discarded
<1>5. Dropped(saw) \in Sight
  BY DEF Dropped, Sight
<1>6. Executed(saw, held) \in Sight
  BY <1>5 DEF Executed, Opened, Sight
<1>7. NoValues \in [1 .. 0 -> Values]
  BY DEF NoValues
<1>8. NoValues \in UNION {[1 .. n -> Values] : n \in 0 .. MaxMarks}
  BY <1>7, NamesDiffer
<1>9. Over(saw) \in Sight
  BY <1>8 DEF Over, Sight
<1>10. [r EXCEPT !.data_at_exec = None] \in Statement
  BY DEF Statement
<1>. QED  BY <1>1, <1>2, <1>3, <1>4, <1>5, <1>6, <1>9, <1>10

(***************************************************************************)
(* SQLPrepare, refused while a call needs data, replaces the statement and *)
(* its cursor.                                                             *)
(***************************************************************************)
LEMMA PrepareKeeps ==
  ASSUME Managed, IInv, NEW s \in Stmt, NEW text \in Text, NEW ok \in BOOLEAN,
         Prepare(s, text, ok)
  PROVE  IInv'
<1>. DEFINE r == [WithPrepared(stmt[s], text) EXCEPT
                    !.prepared_sql = text, !.param_count = Marks[text]]
            saw == [Dropped(seen[s]) EXCEPT !.prepared = text]
            kept == [seen[s] EXCEPT !.prepared = None]
<1>1. Good(stmt[s], seen[s]) /\ stmt[s].data_at_exec = None /\ RanAsAsked'
  BY NothingRanIsAsAsked DEF IInv, Prepare, ManagerAllows
<1>2. Good(r, saw)
  <2>1. r \in Statement
    BY <1>1, NamesDiffer DEF Good, Statement, WithPrepared, Held
  <2>2. saw \in Sight
    BY <1>1, NamesDiffer DEF Good, Sight, Dropped
  <2>3. CursorKnown(r, saw)
    BY <1>1, NamesDiffer DEF Good, Statement, Sight, CursorKnown, WithPrepared, Dropped
  <2>4. PlanKept(r, saw)
    BY <1>1, NamesDiffer DEF Good, Statement, Sight, PlanKept, WithPrepared, Dropped
  <2>5. SequenceKept(r, saw)
    BY <1>1, NamesDiffer DEF Good, Statement, Sight, SequenceKept, WithPrepared, Dropped
  <2>. QED  BY <2>1, <2>2, <2>3, <2>4, <2>5 DEF Good
<1>3. Good(stmt[s], kept)
  <2>1. stmt[s] \in Statement
    BY <1>1 DEF Good
  <2>2. kept \in Sight
    BY <1>1 DEF Good, Sight
  <2>3. CursorKnown(stmt[s], kept)
    BY <1>1, NamesDiffer DEF Good, Statement, Sight, CursorKnown
  <2>4. PlanKept(stmt[s], kept)
    BY <1>1, NamesDiffer DEF Good, Statement, Sight, PlanKept
  <2>5. SequenceKept(stmt[s], kept)
    BY <1>1, NamesDiffer DEF Good, Statement, Sight, SequenceKept
  <2>. QED  BY <2>1, <2>2, <2>3, <2>4, <2>5 DEF Good
<1>. QED  BY <1>1, <1>2, <1>3, SetKeeps DEF Prepare

(***************************************************************************)
(* SQLExecDirect replaces both, or leaves both and forgets what was        *)
(* prepared.                                                               *)
(***************************************************************************)
LEMMA ExecDirectKeeps ==
  ASSUME Managed, IInv, NEW s \in Stmt, NEW text \in Text, NEW ok \in BOOLEAN,
         ExecDirect(s, text, ok)
  PROVE  IInv'
<1>. DEFINE kept == [seen[s] EXCEPT !.prepared = None]
            r == WithResult(stmt[s], text)
            saw == Executed(kept, text)
<1>1. Good(stmt[s], seen[s]) /\ stmt[s].data_at_exec = None
  BY DEF IInv, ExecDirect, ManagerAllows
<1>2. RanAsAsked'
  BY NamesDiffer DEF ExecDirect, RanAsAsked
<1>3. kept \in Sight
  BY <1>1 DEF Good, Sight
<1>4. HasColumns(text) \in BOOLEAN
  BY RecordsKeepTypes, <1>1 DEF Good, Held
<1>5. Good(r, saw)
  <2>1. r \in Statement
    BY <1>1, <1>3, <1>4, NamesDiffer, RecordsKeepTypes DEF Good, Held
  <2>2. saw \in Sight
    BY <1>1, <1>3, RecordsKeepTypes DEF Good, Held
  <2>3. CursorKnown(r, saw)
    BY <1>1, <1>3, <1>4, NamesDiffer
    DEF Good, Statement, Sight, CursorKnown, WithResult, Executed, Opened, Dropped
  <2>4. PlanKept(r, saw)
    BY <1>1, <1>3, <1>4, NamesDiffer
    DEF Good, Statement, Sight, PlanKept, WithResult, Executed, Opened, Dropped
  <2>5. SequenceKept(r, saw)
    BY <1>1, <1>3, <1>4, NamesDiffer
    DEF Good, Statement, Sight, SequenceKept, WithResult, Executed, Opened, Dropped
  <2>. QED  BY <2>1, <2>2, <2>3, <2>4, <2>5 DEF Good
<1>6. Good(stmt[s], kept)
  <2>1. stmt[s] \in Statement
    BY <1>1 DEF Good
  <2>2. kept \in Sight
    BY <1>3
  <2>3. CursorKnown(stmt[s], kept)
    BY <1>1, NamesDiffer DEF Good, Statement, Sight, CursorKnown
  <2>4. PlanKept(stmt[s], kept)
    BY <1>1, NamesDiffer DEF Good, Statement, Sight, PlanKept
  <2>5. SequenceKept(stmt[s], kept)
    BY <1>1, NamesDiffer DEF Good, Statement, Sight, SequenceKept
  <2>. QED  BY <2>1, <2>2, <2>3, <2>4, <2>5 DEF Good
<1>. QED  BY <1>1, <1>2, <1>5, <1>6, SetKeeps DEF ExecDirect

(***************************************************************************)
(* The catalog functions and SQLGetTypeInfo open a cursor over their rows. *)
(***************************************************************************)
LEMMA CatalogKeeps ==
  ASSUME Managed, IInv, NEW s \in Stmt, NEW held \in {"catalog", "synthetic"}, Catalog(s, held)
  PROVE  IInv'
<1>. DEFINE r == WithResult(stmt[s], held)
            saw == [Executed(seen[s], held) EXCEPT !.prepared = None]
<1>1. Good(stmt[s], seen[s]) /\ stmt[s].data_at_exec = None /\ RanAsAsked'
  BY NothingRanIsAsAsked DEF IInv, Catalog, ManagerAllows
<1>2. HasColumns(held) /\ held \in Held /\ held # None
  BY NamesDiffer DEF HasColumns, Held
<1>3. Executed(seen[s], held) \in Sight
  BY <1>1, <1>2, RecordsKeepTypes DEF Good
<1>4. Good(r, saw)
  <2>1. r \in Statement
    BY <1>1, <1>2, <1>3, NamesDiffer, RecordsKeepTypes DEF Good, Held
  <2>2. saw \in Sight
    BY <1>3 DEF Sight
  <2>3. CursorKnown(r, saw)
    BY <1>1, <1>2, <1>3, NamesDiffer
    DEF Good, Statement, Sight, CursorKnown, WithResult, Executed, Opened, Dropped
  <2>4. PlanKept(r, saw)
    BY <1>1, <1>2, <1>3, NamesDiffer
    DEF Good, Statement, Sight, PlanKept, WithResult, Executed, Opened, Dropped
  <2>5. SequenceKept(r, saw)
    BY <1>1, <1>2, <1>3, NamesDiffer
    DEF Good, Statement, Sight, SequenceKept, WithResult, Executed, Opened, Dropped
  <2>. QED  BY <2>1, <2>2, <2>3, <2>4, <2>5 DEF Good
<1>. QED  BY <1>1, <1>4, SetKeeps DEF Catalog

(***************************************************************************)
(* Closing a cursor, and SQLMoreResults after the last result, drop the    *)
(* statement.                                                              *)
(***************************************************************************)
LEMMA CloseKeeps ==
  ASSUME IInv, NEW s \in Stmt, stmt[s].data_at_exec = None, CloseAndDiscard(s)
  PROVE  IInv'
<1>. DEFINE r == Discarded(stmt[s])
            saw == Dropped(seen[s])
<1>1. Good(stmt[s], seen[s]) /\ RanAsAsked'
  BY NothingRanIsAsAsked DEF IInv, CloseAndDiscard
<1>2. "catalog" \in Held
  BY DEF Held
<1>3. Good(r, saw)
  <2>1. r \in Statement
    BY <1>1, <1>2, NamesDiffer, RecordsKeepTypes DEF Good, Held
  <2>2. saw \in Sight
    BY <1>1, <1>2, NamesDiffer, RecordsKeepTypes DEF Good, Sight, Held
  <2>3. CursorKnown(r, saw)
    BY <1>1, <1>2, NamesDiffer
    DEF Good, Statement, Sight, CursorKnown, Discarded, WithPrepared, Dropped
  <2>4. PlanKept(r, saw)
    BY <1>1, <1>2, NamesDiffer
    DEF Good, Statement, Sight, PlanKept, Discarded, WithPrepared, Dropped
  <2>5. SequenceKept(r, saw)
    BY <1>1, <1>2, NamesDiffer
    DEF Good, Statement, Sight, SequenceKept, Discarded, WithPrepared, Dropped
  <2>. QED  BY <2>1, <2>2, <2>3, <2>4, <2>5 DEF Good
<1>. QED  BY <1>1, <1>3, SetKeeps DEF CloseAndDiscard

(***************************************************************************)
(* SQLFetch drops the position in the row it leaves; SQLGetData sets one in*)
(* the row the cursor is on.                                               *)
(***************************************************************************)
LEMMA ReadKeeps ==
  ASSUME Managed, IInv, NEW s \in Stmt,
         \/ Fetch(s)
         \/ \E column \in Column, part \in {"some", "last", "error"} : GetData(s, column, part)
  PROVE  IInv'
<1>. DEFINE Position == [column : Column, done : BOOLEAN]
<1>1. ASSUME NEW at \in Position \cup {None}, NEW r \in Statement
      PROVE  [r EXCEPT !.get_data_cursor = at] \in Statement
  BY DEF Statement
<1>2. CASE Fetch(s)
  <2>. DEFINE r == [stmt[s] EXCEPT !.get_data_cursor = None]
              saw == [seen[s] EXCEPT !.moved = TRUE]
  <2>1. Good(stmt[s], seen[s]) /\ stmt[s].data_at_exec = None /\ RanAsAsked'
    BY <1>2, NothingRanIsAsAsked DEF IInv, Fetch, ManagerAllows
  <2>2. Good(r, saw)
    <3>1. r \in Statement
      BY <1>1, <2>1 DEF Good
    <3>2. saw \in Sight
      BY <2>1 DEF Good, Sight
    <3>3. CursorKnown(r, saw)
      BY <2>1, NamesDiffer DEF Good, Statement, Sight, CursorKnown
    <3>4. PlanKept(r, saw)
      BY <2>1, NamesDiffer DEF Good, Statement, Sight, PlanKept
    <3>5. SequenceKept(r, saw)
      BY <2>1, NamesDiffer DEF Good, Statement, Sight, SequenceKept
    <3>. QED  BY <3>1, <3>2, <3>3, <3>4, <3>5 DEF Good
  <2>. QED  BY <1>2, <2>1, <2>2, SetKeeps DEF Fetch
<1>3. ASSUME NEW column \in Column, NEW part \in {"some", "last", "error"},
             GetData(s, column, part)
      PROVE  IInv'
  <2>. DEFINE at == stmt[s].get_data_cursor
              goes_on == at # None /\ at.column = column
              new == IF part = "error" THEN None ELSE [column |-> column, done |-> part = "last"]
              r == [stmt[s] EXCEPT !.get_data_cursor = new]
              saw == IF goes_on THEN seen[s] ELSE [seen[s] EXCEPT !.moved = FALSE]
  <2>1. /\ Good(stmt[s], seen[s]) /\ stmt[s].data_at_exec = None /\ RanAsAsked'
        /\ stmt[s].cursor_open
    BY <1>3, NothingRanIsAsAsked DEF IInv, GetData, ManagerAllows
  <2>2. new \in Position \cup {None}
    <3>1. (part = "last") \in BOOLEAN
      OBVIOUS
    <3>. QED  BY <3>1
  <2>3. Good(r, saw)
    <3>1. r \in Statement
      BY <1>1, <2>1, <2>2 DEF Good
    <3>2. saw \in Sight
      BY <2>1 DEF Good, Sight
    <3>3. CursorKnown(r, saw)
      BY <2>1, NamesDiffer DEF Good, Statement, Sight, CursorKnown
    <3>4. PlanKept(r, saw)
      BY <2>1, NamesDiffer DEF Good, Statement, Sight, PlanKept
    <3>5. SequenceKept(r, saw)
      BY <2>1, NamesDiffer DEF Good, Statement, Sight, SequenceKept
    <3>. QED  BY <3>1, <3>2, <3>3, <3>4, <3>5 DEF Good
  <2>. QED  BY <1>3, <2>1, <2>3, SetKeeps DEF GetData
<1>. QED  BY <1>2, <1>3

(***************************************************************************)
(* SQLCancel, and a value that does not convert, give the sequence up.     *)
(***************************************************************************)
LEMMA CancelKeeps ==
  ASSUME IInv, NEW s \in Stmt, Cancel(s) \/ ParamDataFails(s)
  PROVE  IInv'
<1>. DEFINE r == [stmt[s] EXCEPT !.data_at_exec = None]
            saw == Over(seen[s])
<1>1. Good(stmt[s], seen[s]) /\ RanAsAsked'
  BY NothingRanIsAsAsked DEF IInv, Cancel, ParamDataFails
<1>2. "catalog" \in Held
  BY DEF Held
<1>3. Good(r, saw)
  <2>1. r \in Statement
    BY <1>1, <1>2, NamesDiffer, RecordsKeepTypes DEF Good, Held
  <2>2. saw \in Sight
    BY <1>1, <1>2, NamesDiffer, RecordsKeepTypes DEF Good, Sight, Held
  <2>3. CursorKnown(r, saw)
    BY <1>1, <1>2, NamesDiffer DEF Good, Statement, Sight, CursorKnown, Over
  <2>4. PlanKept(r, saw)
    BY <1>1, <1>2, NamesDiffer DEF Good, Statement, Sight, PlanKept, Over
  <2>5. SequenceKept(r, saw)
    BY <1>1, <1>2, NamesDiffer DEF Good, Statement, Sight, SequenceKept, Over
  <2>. QED  BY <2>1, <2>2, <2>3, <2>4, <2>5 DEF Good
<1>. QED  BY <1>1, <1>3, SetKeeps DEF Cancel, ParamDataFails

-----------------------------------------------------------------------------
(***************************************************************************)
(* A call that needs data starts a sequence: the bound parameters are      *)
(* collected, the others wait.                                             *)
(***************************************************************************)
LEMMA AskingStartsSequence ==
  ASSUME NEW text \in Text, NEW count \in 0 .. MaxMarks, NEW needed \in SUBSET (1 .. count)
  PROVE  LET sent == NotYetSent(needed, count)
             dae == AskingFor(needed, count, text)
         IN /\ dae \in DataAtExec /\ dae.sql = text
            /\ SentSoFar(dae, count, sent)
            /\ sent \in UNION {[1 .. n -> Values] : n \in 0 .. MaxMarks}
<1>. DEFINE sent == NotYetSent(needed, count)
            dae == AskingFor(needed, count, text)
            known == (1 .. count) \ needed
<1>1. {Sent(0), Bound} \subseteq Values
  BY NamesDiffer DEF Values
<1>2. known \in SUBSET Numbers /\ needed \in SUBSET Numbers
  BY NamesDiffer DEF Numbers
<1>3. dae = [pending |-> needed, current |-> None, buffer |-> 0, put |-> "NotCalled",
             values |-> [p \in known |-> Bound], sql |-> text]
  BY DEF AskingFor
<1>4. [p \in known |-> Bound] \in Collected
  <2>1. [p \in known |-> Bound] \in [known -> Values]
    BY <1>1
  <2>. QED  BY <1>2, <2>1 DEF Collected
<1>5. dae \in DataAtExec /\ dae.sql = text
  <2>1. ASSUME NEW values \in Collected
        PROVE  [pending |-> needed, current |-> None, buffer |-> 0, put |-> "NotCalled",
                values |-> values, sql |-> text] \in DataAtExec
    BY <1>2, NamesDiffer DEF DataAtExec
  <2>. QED  BY <1>3, <1>4, <2>1
<1>6. /\ sent \in [1 .. count -> Values]
      /\ \A p \in 1 .. count : sent[p] = IF p \in needed THEN Sent(0) ELSE Bound
  BY <1>1 DEF NotYetSent
<1>7. SentSoFar(dae, count, sent)
  <2>. HIDE DEF sent, dae
  <2>. QED  BY <1>3, <1>6, NamesDiffer DEF SentSoFar
<1>. QED  BY <1>5, <1>6, <1>7

(***************************************************************************)
(* SQLPutData adds a piece, or a null, to what was sent for the current    *)
(* parameter alone.                                                        *)
(***************************************************************************)
LEMMA PieceIsSent ==
  ASSUME NEW dae \in DataAtExec, NEW count \in 0 .. MaxMarks, NEW sent,
         SentSoFar(dae, count, sent), dae.current # None
  PROVE  /\ LET new == [dae EXCEPT !.buffer = 0, !.put = "Null"]
            IN /\ new \in DataAtExec
               /\ SentSoFar(new, count, [sent EXCEPT ![dae.current] = NullValue])
         /\ dae.put # "Null" => \A piece \in {0, 1} : dae.buffer + piece <= MaxData =>
              LET new == [dae EXCEPT !.buffer = @ + piece, !.put = "Data"]
              IN /\ new \in DataAtExec
                 /\ SentSoFar(new, count, [sent EXCEPT ![dae.current] = Sent(@[2] + piece)])
<1>1. dae.current \in 1 .. count /\ sent[dae.current] = Current(dae)
  BY DEF SentSoFar
<1>2. NullValue \in Values /\ \A n \in 0 .. MaxData : Sent(n) \in Values
  BY DEF Values
<1>3. ASSUME NEW buffer \in 0 .. MaxData, NEW put \in {"Data", "Null"},
             NEW value \in Values, put = "Null" => value = NullValue,
             put = "Data" => value = Sent(buffer)
      PROVE  /\ [dae EXCEPT !.buffer = buffer, !.put = put] \in DataAtExec
             /\ SentSoFar([dae EXCEPT !.buffer = buffer, !.put = put], count,
                          [sent EXCEPT ![dae.current] = value])
  <2>. DEFINE new == [dae EXCEPT !.buffer = buffer, !.put = put]
              now == [sent EXCEPT ![dae.current] = value]
  <2>1. new \in DataAtExec
    BY <1>3 DEF DataAtExec
  <2>2. /\ new.pending = dae.pending /\ new.current = dae.current /\ new.values = dae.values
        /\ new.buffer = buffer /\ new.put = put
    BY DEF DataAtExec
  <2>3. Current(new) = value
    BY <1>3, <2>2 DEF Current
  <2>4. now \in [1 .. count -> Values] /\ now[dae.current] = value
        /\ \A p \in 1 .. count : p # dae.current => now[p] = sent[p]
    BY <1>1 DEF SentSoFar
  <2>5. SentSoFar(new, count, now)
    <3>. HIDE DEF new, now
    <3>. QED  BY <1>1, <1>3, <2>2, <2>3, <2>4 DEF SentSoFar
  <2>. QED  BY <2>1, <2>5
<1>4. dae.put # "Null" => sent[dae.current] = Sent(dae.buffer)
  BY <1>1 DEF Current
<1>5. 0 \in 0 .. MaxData /\ dae.buffer \in 0 .. MaxData
  BY NamesDiffer DEF DataAtExec
<1>6. ASSUME dae.put # "Null", NEW piece \in {0, 1}, dae.buffer + piece <= MaxData
      PROVE  Sent(sent[dae.current][2] + piece) = Sent(dae.buffer + piece)
  BY <1>4, <1>6 DEF Sent
<1>7. LET new == [dae EXCEPT !.buffer = 0, !.put = "Null"]
      IN /\ new \in DataAtExec
         /\ SentSoFar(new, count, [sent EXCEPT ![dae.current] = NullValue])
  <2>1. "Null" \in {"Data", "Null"} /\ "Null" # "Data"
    OBVIOUS
  <2>. QED  BY <1>2, <1>3, <1>5, <2>1, Zenon
<1>8. ASSUME dae.put # "Null", NEW piece \in {0, 1}, dae.buffer + piece <= MaxData
      PROVE  LET new == [dae EXCEPT !.buffer = @ + piece, !.put = "Data"]
             IN /\ new \in DataAtExec
                /\ SentSoFar(new, count, [sent EXCEPT ![dae.current] = Sent(@[2] + piece)])
  <2>1. dae.buffer + piece \in 0 .. MaxData
    BY <1>5, <1>8
  <2>2. [sent EXCEPT ![dae.current] = Sent(@[2] + piece)]
          = [sent EXCEPT ![dae.current] = Sent(dae.buffer + piece)]
    BY <1>6, <1>8
  <2>3. "Data" \in {"Data", "Null"} /\ "Null" # "Data"
    OBVIOUS
  <2>4. LET new == [dae EXCEPT !.buffer = dae.buffer + piece, !.put = "Data"]
        IN /\ new \in DataAtExec
           /\ SentSoFar(new, count, [sent EXCEPT ![dae.current] = Sent(dae.buffer + piece)])
    BY <1>2, <1>3, <2>1, <2>3, Zenon
  <2>. QED  BY <2>2, <2>4
<1>. QED  BY <1>7, <1>8

(***************************************************************************)
(* Finalising the current parameter turns its buffer into its value; the   *)
(* next one asked for starts with nothing.                                 *)
(***************************************************************************)
LEMMA FinalisedKeeps ==
  ASSUME NEW dae \in DataAtExec, NEW count \in 0 .. MaxMarks, NEW sent,
         SentSoFar(dae, count, sent)
  PROVE  /\ Finalised(dae) \in DataAtExec /\ SentSoFar(Finalised(dae), count, sent)
         /\ Finalised(dae).current = None /\ Finalised(dae).sql = dae.sql
         /\ Finalised(dae).pending = dae.pending
<1>1. CASE dae.current = None
  BY <1>1 DEF Finalised
<1>2. CASE dae.current # None
  <2>. DEFINE values == [p \in DOMAIN dae.values \cup {dae.current} |->
                           IF p # dae.current THEN dae.values[p]
                           ELSE IF dae.put = "Null" THEN NullValue ELSE Sent(dae.buffer)]
              new == [dae EXCEPT !.values = values, !.buffer = 0, !.current = None]
  <2>1. Finalised(dae) = new
    BY <1>2 DEF Finalised
  <2>2. dae.current \in 1 .. count /\ dae.current \in Numbers
    BY <1>2, NamesDiffer DEF SentSoFar, Numbers
  <2>3. Current(dae) \in Values
    BY <2>2 DEF SentSoFar
  <2>4. PICK known \in SUBSET Numbers : dae.values \in [known -> Values]
    BY DEF DataAtExec, Collected
  <2>5. values \in [known \cup {dae.current} -> Values]
    BY <2>3, <2>4 DEF Current
  <2>6. values \in Collected
    BY <2>2, <2>5 DEF Collected
  <2>7. new \in DataAtExec
    <3>1. ASSUME NEW any \in Collected
          PROVE  [dae EXCEPT !.values = any, !.buffer = 0, !.current = None] \in DataAtExec
      <4>1. 0 \in 0 .. MaxData
        BY NamesDiffer
      <4>. QED  BY <4>1 DEF DataAtExec
    <3>. HIDE DEF values
    <3>. QED  BY <2>6, <3>1, Zenon
  <2>8. /\ new.values = values /\ new.buffer = 0 /\ new.current = None /\ new.sql = dae.sql
        /\ new.pending = dae.pending /\ new.put = dae.put
    BY DEF DataAtExec
  <2>9. DOMAIN values = DOMAIN dae.values \cup {dae.current}
    OBVIOUS
  <2>10. \A p \in 1 .. count :
            \/ /\ p \in dae.pending /\ p \notin DOMAIN values /\ sent[p] = Sent(0)
            \/ /\ p \notin dae.pending /\ p \in DOMAIN values /\ sent[p] = values[p]
    BY <1>2, <2>2 DEF SentSoFar, Current
  <2>11. SentSoFar(new, count, sent)
    <3>1. \A p \in 1 .. count : p # None
      BY NamesDiffer
    <3>. HIDE DEF values, new
    <3>. QED  BY <2>2, <2>8, <2>9, <2>10, <3>1 DEF SentSoFar
  <2>. QED  BY <2>1, <2>7, <2>8, <2>11
<1>. QED  BY <1>1, <1>2

(***************************************************************************)
(* The next parameter asked for is no longer pending, and nothing of it    *)
(* was sent.                                                               *)
(***************************************************************************)
LEMMA NextIsAsked ==
  ASSUME NEW dae \in DataAtExec, NEW count \in 0 .. MaxMarks, NEW sent,
         SentSoFar(dae, count, sent), dae.current = None, NEW p \in dae.pending
  PROVE  LET new == [dae EXCEPT !.current = p, !.put = "NotCalled", !.pending = @ \ {p}]
         IN new \in DataAtExec /\ SentSoFar(new, count, sent) /\ new.sql = dae.sql
<1>. DEFINE new == [dae EXCEPT !.current = p, !.put = "NotCalled", !.pending = @ \ {p}]
<1>1. new \in DataAtExec
  BY DEF DataAtExec
<1>2. /\ new.current = p /\ new.put = "NotCalled" /\ new.pending = dae.pending \ {p}
      /\ new.buffer = dae.buffer /\ new.values = dae.values /\ new.sql = dae.sql
  BY DEF DataAtExec
<1>3. dae.buffer = 0 /\ p \in 1 .. count /\ p # None /\ Current(new) = Sent(0)
  BY <1>2, NamesDiffer DEF SentSoFar, Current
<1>4. SentSoFar(new, count, sent)
  <2>. HIDE DEF new
  <2>1. ASSUME NEW q \in 1 .. count
        PROVE  \/ /\ q \in new.pending /\ q # new.current /\ q \notin DOMAIN new.values
                  /\ sent[q] = Sent(0)
               \/ /\ q \notin new.pending /\ q = new.current /\ q \notin DOMAIN new.values
                  /\ sent[q] = Current(new)
               \/ /\ q \notin new.pending /\ q # new.current /\ q \in DOMAIN new.values
                  /\ sent[q] = new.values[q]
    <3>1. CASE q = p
      BY <1>2, <1>3, <3>1 DEF SentSoFar
    <3>2. CASE q # p
      BY <1>2, <1>3, <3>2, NamesDiffer DEF SentSoFar
    <3>. QED  BY <3>1, <3>2
  <2>. QED  BY <1>2, <1>3, <2>1 DEF SentSoFar
<1>. QED  BY <1>1, <1>2, <1>4

-----------------------------------------------------------------------------
(***************************************************************************)
(* SQLExecDirect and SQLExecute stop at SQL_NEED_DATA with the sequence of *)
(* their text.                                                             *)
(***************************************************************************)
LEMMA NeedsDataKeeps ==
  ASSUME Managed, IInv, NEW s \in Stmt, NEW needed \in SUBSET Numbers,
         \/ \E text \in Text : ExecDirectNeedsData(s, text, needed)
         \/ ExecuteNeedsData(s, needed)
  PROVE  IInv'
<1>1. Good(stmt[s], seen[s])
  BY DEF IInv
<1>2. ASSUME NEW text \in Text, ExecDirectNeedsData(s, text, needed) PROVE IInv'
  <2>. DEFINE count == Marks[text]
              dae == AskingFor(needed, count, text)
              sent == NotYetSent(needed, count)
              r == [stmt[s] EXCEPT !.param_count = count, !.data_at_exec = dae]
              asked == Asks(seen[s], "ExecDirect", text, needed, count)
              saw == [asked EXCEPT !.prepared = None]
  <2>1. /\ ManagerAllows(s) /\ ~stmt[s].cursor_open /\ needed \subseteq 1 .. count
        /\ Set(s, r, saw) /\ ran' = NothingRan
    BY <1>2, Zenon DEF ExecDirectNeedsData
  <2>2. count \in 0 .. MaxMarks /\ needed \in SUBSET (1 .. count)
    BY <2>1, NamesDiffer
  <2>3. /\ dae \in DataAtExec /\ dae.sql = text
        /\ SentSoFar(dae, count, sent)
        /\ sent \in UNION {[1 .. n -> Values] : n \in 0 .. MaxMarks}
    BY <2>2, AskingStartsSequence
  <2>. HIDE DEF dae, sent, count
  <2>4. stmt[s].data_at_exec = None
    BY <2>1 DEF ManagerAllows
  <2>5. /\ saw \in Sight /\ saw.prepared = None /\ saw.by = "ExecDirect" /\ saw.sent = sent
        /\ saw.cursor = seen[s].cursor /\ saw.moved = seen[s].moved
    BY <1>1, <2>3 DEF Good, Sight, Asks, sent
  <2>6. Good(r, saw)
    <3>1. r \in Statement
      BY <1>1, <2>2, <2>3 DEF Good, Statement
    <3>2. saw \in Sight
      BY <2>5
    <3>3. CursorKnown(r, saw)
      BY <1>1, <2>1, <2>2, <2>3, <2>4, <2>5, NamesDiffer
      DEF Good, Statement, Sight, CursorKnown
    <3>4. PlanKept(r, saw)
      BY <1>1, <2>1, <2>2, <2>3, <2>4, <2>5, NamesDiffer DEF Good, Statement, Sight, PlanKept
    <3>5. SequenceKept(r, saw)
      BY <1>1, <2>1, <2>2, <2>3, <2>4, <2>5, NamesDiffer
      DEF Good, Statement, Sight, SequenceKept
    <3>. QED  BY <3>1, <3>2, <3>3, <3>4, <3>5 DEF Good
  <2>. QED  BY <2>1, <2>6, SetKeeps, NothingRanIsAsAsked
<1>3. CASE ExecuteNeedsData(s, needed)
  <2>. DEFINE count == stmt[s].param_count
              text == stmt[s].prepared_sql
              dae == AskingFor(needed, count, text)
              sent == NotYetSent(needed, count)
              r == [stmt[s] EXCEPT !.data_at_exec = dae]
              saw == [seen[s] EXCEPT !.asked = seen[s].prepared, !.by = "Execute", !.sent = sent]
  <2>0. /\ ManagerAllowsExecute(s) /\ ~stmt[s].cursor_open /\ count # None
        /\ needed \subseteq 1 .. count /\ ran' = NothingRan
        /\ Set(s, r, Asks(seen[s], "Execute", seen[s].prepared, needed, count))
    BY <1>3, Zenon DEF ExecuteNeedsData
  <2>1. /\ count \in 0 .. MaxMarks /\ needed \in SUBSET (1 .. count) /\ text \in Text
        /\ seen[s].prepared # None /\ text = seen[s].prepared
    BY <1>1, <2>0 DEF ManagerAllowsExecute, Good, Statement, PlanKept
  <2>2. /\ dae \in DataAtExec /\ dae.sql = text
        /\ SentSoFar(dae, count, sent)
        /\ sent \in UNION {[1 .. n -> Values] : n \in 0 .. MaxMarks}
    BY <2>1, AskingStartsSequence
  <2>3. Set(s, r, saw)
    BY <2>0 DEF Asks
  <2>. HIDE DEF dae, sent, count, text
  <2>4. Good(r, saw)
    <3>1. r \in Statement
      BY <1>1, <2>1, <2>2 DEF Good, Statement
    <3>2. saw \in Sight
      BY <1>1, <2>1, <2>2 DEF Good, Sight
    <3>3. CursorKnown(r, saw)
      BY <1>1, <2>0, <2>1, <2>2, NamesDiffer
      DEF Good, Statement, Sight, CursorKnown, ManagerAllowsExecute, count, text
    <3>4. PlanKept(r, saw)
      BY <1>1, <2>0, <2>1, <2>2, NamesDiffer
      DEF Good, Statement, Sight, PlanKept, ManagerAllowsExecute, count, text
    <3>5. SequenceKept(r, saw)
      BY <1>1, <2>0, <2>1, <2>2, NamesDiffer
      DEF Good, Statement, Sight, SequenceKept, ManagerAllowsExecute, count, text
    <3>. QED  BY <3>1, <3>2, <3>3, <3>4, <3>5 DEF Good
  <2>. QED  BY <2>0, <2>3, <2>4, SetKeeps, NothingRanIsAsAsked
<1>. QED  BY <1>2, <1>3

(***************************************************************************)
(* SQLPutData keeps the buffer what was sent for the current parameter.    *)
(***************************************************************************)
LEMMA PutDataKeeps ==
  ASSUME IInv, NEW s \in Stmt, NEW piece \in {0, 1, None}, PutData(s, piece)
  PROVE  IInv'
<1>. DEFINE dae == stmt[s].data_at_exec
            count == stmt[s].param_count
            sent == seen[s].sent
            value == IF piece = None THEN NullValue ELSE Sent(sent[dae.current][2] + piece)
            new == IF piece = None THEN [dae EXCEPT !.buffer = 0, !.put = "Null"]
                   ELSE [dae EXCEPT !.buffer = @ + piece, !.put = "Data"]
            now == [sent EXCEPT ![dae.current] = value]
            r == [stmt[s] EXCEPT !.data_at_exec = new]
            saw == [seen[s] EXCEPT !.sent = now]
<1>1. Good(stmt[s], seen[s]) /\ dae # None /\ dae.current # None /\ RanAsAsked'
  BY NothingRanIsAsAsked DEF IInv, PutData
<1>2. /\ dae \in DataAtExec /\ count \in 0 .. MaxMarks /\ SentSoFar(dae, count, sent)
  BY <1>1 DEF Good, Statement, SequenceKept
<1>3. None \notin {0, 1}
  BY NamesDiffer
<1>4. new \in DataAtExec /\ SentSoFar(new, count, now)
  <2>1. CASE piece = None
    BY <1>1, <1>2, <2>1, PieceIsSent
  <2>2. CASE piece # None
    <3>1. piece \in {0, 1} /\ dae.put # "Null" /\ dae.buffer + piece <= MaxData
      BY <1>3, <2>2 DEF PutData
    <3>2. now = [sent EXCEPT ![dae.current] = Sent(@[2] + piece)]
      BY <2>2
    <3>. QED  BY <1>1, <1>2, <2>2, <3>1, <3>2, PieceIsSent
  <2>. QED  BY <2>1, <2>2
<1>5. new.sql = dae.sql
  BY <1>2 DEF DataAtExec
<1>6. now \in UNION {[1 .. n -> Values] : n \in 0 .. MaxMarks}
  BY <1>2, <1>4 DEF SentSoFar
<1>7. Set(s, r, saw)
  BY <1>1, <1>3 DEF PutData, Good, Sight
<1>. HIDE DEF new, now
<1>8. Good(r, saw)
  <2>1. r \in Statement
    BY <1>1, <1>4 DEF Good, Statement
  <2>2. saw \in Sight
    BY <1>1, <1>6 DEF Good, Sight
  <2>3. CursorKnown(r, saw)
    BY <1>1, <1>2, <1>4, <1>5, NamesDiffer DEF Good, Statement, Sight, CursorKnown
  <2>4. PlanKept(r, saw)
    BY <1>1, <1>2, <1>4, <1>5, NamesDiffer DEF Good, Statement, Sight, PlanKept
  <2>5. SequenceKept(r, saw)
    BY <1>1, <1>2, <1>4, <1>5, NamesDiffer DEF Good, Statement, Sight, SequenceKept
  <2>. QED  BY <2>1, <2>2, <2>3, <2>4, <2>5 DEF Good
<1>. QED  BY <1>1, <1>7, <1>8, SetKeeps

(***************************************************************************)
(* SQLParamData finalises the current parameter and asks for the next.     *)
(***************************************************************************)
LEMMA ParamDataAsksKeeps ==
  ASSUME IInv, NEW s \in Stmt, ParamDataAsks(s)
  PROVE  IInv'
<1>. DEFINE dae == stmt[s].data_at_exec
            count == stmt[s].param_count
            p == First(dae.pending)
            done == Finalised(dae)
            new == [done EXCEPT !.current = p, !.put = "NotCalled", !.pending = @ \ {p}]
            r == [stmt[s] EXCEPT !.data_at_exec = new]
<1>1. Good(stmt[s], seen[s]) /\ dae # None /\ dae.pending # {} /\ RanAsAsked'
  BY NothingRanIsAsAsked DEF IInv, ParamDataAsks
<1>2. /\ dae \in DataAtExec /\ count \in 0 .. MaxMarks /\ SentSoFar(dae, count, seen[s].sent)
  BY <1>1 DEF Good, Statement, SequenceKept
<1>3. /\ done \in DataAtExec /\ SentSoFar(done, count, seen[s].sent)
      /\ done.current = None /\ done.sql = dae.sql /\ done.pending = dae.pending
  BY <1>2, FinalisedKeeps
<1>4. p \in dae.pending
  <2>1. dae.pending \in SUBSET Nat
    BY <1>2, NamesDiffer DEF DataAtExec, Numbers
  <2>. QED  BY <1>1, <2>1, FirstIsOne
<1>5. new \in DataAtExec /\ SentSoFar(new, count, seen[s].sent) /\ new.sql = dae.sql
  <2>. HIDE DEF done, p
  <2>. QED  BY <1>2, <1>3, <1>4, NextIsAsked, Zenon
<1>6. Set(s, r, seen[s])
  BY DEF ParamDataAsks
<1>. HIDE DEF new
<1>7. Good(r, seen[s])
  <2>1. r \in Statement
    BY <1>1, <1>5 DEF Good, Statement
  <2>2. seen[s] \in Sight
    BY <1>1 DEF Good
  <2>3. CursorKnown(r, seen[s])
    BY <1>1, <1>2, <1>5, NamesDiffer DEF Good, Statement, Sight, CursorKnown
  <2>4. PlanKept(r, seen[s])
    BY <1>1, <1>2, <1>5, NamesDiffer DEF Good, Statement, Sight, PlanKept
  <2>5. SequenceKept(r, seen[s])
    BY <1>1, <1>2, <1>5, NamesDiffer DEF Good, Statement, Sight, SequenceKept
  <2>. QED  BY <2>1, <2>2, <2>3, <2>4, <2>5 DEF Good
<1>. QED  BY <1>1, <1>6, <1>7, SetKeeps

-----------------------------------------------------------------------------
(***************************************************************************)
(* Executing whatever statement is held, re-preparing the text if it was   *)
(* discarded, runs the text meant, over no open cursor, and leaves the     *)
(* statement as it should be.                                              *)
(***************************************************************************)
LEMMA RunKeeps ==
  ASSUME IInv, NEW s \in Stmt, NEW r, NEW saw, Good(r, saw),
         r.data_at_exec = None, ~r.cursor_open,
         NEW text \in Text \cup {None}, r.statement = None => text # None,
         saw.prepared # None => text = saw.prepared,
         NEW by, NEW asked, NEW sent,
         by = "Execute" => asked = saw.prepared /\ saw.prepared # None,
         NEW result,
         RunStatement(s, r, saw, text, result,
           [by |-> by, asked |-> asked, text |-> None, over |-> "none",
            sent |-> sent, params |-> sent])
  PROVE  IInv'
<1>. DEFINE run == [by |-> by, asked |-> asked, text |-> None, over |-> "none",
                    sent |-> sent, params |-> sent]
            ready == Reprepared(r, text)
            before == IF r.statement = None THEN Dropped(saw) ELSE saw
<1>1. /\ ready \in Statement /\ before \in Sight
      /\ ready.statement = IF r.statement = None THEN text ELSE r.statement
      /\ ready.statement \in Held /\ ready.statement # None
      /\ ready.data_at_exec = None /\ ready.get_data_cursor = None /\ ready.cursor_open = FALSE
      /\ ready.prepared_sql = r.prepared_sql /\ ready.param_count = r.param_count
  <2>1. r.get_data_cursor = None
    BY DEF Good, CursorKnown
  <2>2. CASE r.statement = None
    <3>1. text \in Held /\ text # None
      BY <2>2 DEF Held
    <3>2. ready = WithPrepared(r, text) /\ before = Dropped(saw)
      BY <2>2 DEF Reprepared
    <3>3. ready \in Statement /\ before \in Sight
      BY <3>1, <3>2, RecordsKeepTypes DEF Good
    <3>. QED  BY <2>2, <3>1, <3>2, <3>3 DEF WithPrepared, Good, Statement
  <2>3. CASE r.statement # None
    BY <2>1, <2>3 DEF Reprepared, Good, Statement
  <2>. QED  BY <2>2, <2>3
<1>2. /\ before.prepared = saw.prepared /\ before.cursor # "open"
  BY DEF Dropped, Good, Sight, CursorKnown
<1>3. Good(ready, before)
  <2>. HIDE DEF ready, before
  <2>. QED  BY <1>1, <1>2 DEF Good, CursorKnown, PlanKept, SequenceKept
<1>4. PlanKept(r, saw)
  BY DEF Good
<1>5. saw.prepared # None => ready.statement = saw.prepared
  <2>. HIDE DEF ready, before
  <2>. QED  BY <1>1, <1>4 DEF PlanKept
<1>6. CASE result = "unprepared" /\ Set(s, r, saw) /\ ran' = NothingRan
  BY <1>6, SetKeeps, NothingRanIsAsAsked
<1>7. CASE /\ result = "done" /\ ready.statement = "synthetic"
           /\ Set(s, ready, saw) /\ ran' = NothingRan
  <2>1. Good(ready, saw)
    <3>1. r.statement = None => text = "synthetic"
      BY <1>1, <1>7
    <3>2. r.statement # None
      BY <3>1, NamesDiffer
    <3>. QED  BY <1>3, <3>2
  <2>. QED  BY <1>7, <2>1, SetKeeps, NothingRanIsAsAsked
<1>8. CASE /\ IF result = "done"
              THEN Set(s, NoteExecuted(ready), Executed(saw, ready.statement))
              ELSE Set(s, ready, before)
           /\ ran' = [run EXCEPT !.text = ready.statement, !.over = before.cursor]
  <2>. HIDE DEF ready, before
  <2>1. RanAsAsked'
    <3>1. /\ ran'.by = by /\ ran'.asked = asked /\ ran'.text = ready.statement
          /\ ran'.over = before.cursor /\ ran'.sent = sent /\ ran'.params = sent
      BY <1>8
    <3>. QED  BY <1>2, <1>5, <3>1 DEF RanAsAsked
  <2>. DEFINE done == NoteExecuted(ready)
              now == Executed(saw, ready.statement)
  <2>2. Good(done, now)
    <3>1. HasColumns(ready.statement) \in BOOLEAN
      BY DEF HasColumns
    <3>2. done \in Statement
      BY <1>1, <3>1 DEF NoteExecuted, Statement
    <3>3. now \in Sight
      BY <1>1, RecordsKeepTypes DEF Good
    <3>4. /\ done.statement = ready.statement /\ done.cursor_open = HasColumns(ready.statement)
          /\ done.data_at_exec = None /\ done.get_data_cursor = None
          /\ done.prepared_sql = ready.prepared_sql /\ done.param_count = ready.param_count
      BY <1>1 DEF NoteExecuted, Statement
    <3>5. /\ now.cursor = IF HasColumns(ready.statement) THEN "open" ELSE "none"
          /\ now.prepared = saw.prepared
      BY DEF Executed, Opened, Dropped, Good, Sight
    <3>. HIDE DEF done, now
    <3>6. CursorKnown(done, now)
      BY <1>1, <3>1, <3>4, <3>5 DEF CursorKnown
    <3>7. PlanKept(done, now)
      BY <1>1, <1>4, <1>5, <3>4, <3>5 DEF PlanKept
    <3>8. SequenceKept(done, now)
      BY <3>4 DEF SequenceKept
    <3>. QED  BY <3>2, <3>3, <3>6, <3>7, <3>8 DEF Good
  <2>. QED  BY <1>3, <1>8, <2>1, <2>2, SetKeeps
<1>. QED  BY <1>6, <1>7, <1>8, Zenon DEF RunStatement

(***************************************************************************)
(* SQLExecute runs the text last prepared.                                 *)
(***************************************************************************)
LEMMA ExecuteKeeps ==
  ASSUME Managed, IInv, NEW s \in Stmt, NEW result, Execute(s, result)
  PROVE  IInv'
<1>. DEFINE text == stmt[s].prepared_sql
            sent == AllBound(stmt[s].param_count)
<1>1. /\ ManagerAllowsExecute(s) /\ ~stmt[s].cursor_open
      /\ stmt[s].statement = None => text # None
      /\ RunStatement(s, stmt[s], seen[s], text, result,
           [by |-> "Execute", asked |-> seen[s].prepared, text |-> None, over |-> "none",
            sent |-> sent, params |-> sent])
  BY Zenon DEF Execute
<1>2. /\ stmt[s].data_at_exec = None /\ seen[s].prepared # None
      /\ Good(stmt[s], seen[s])
  BY <1>1 DEF ManagerAllowsExecute, IInv
<1>3. text \in Text \cup {None} /\ (seen[s].prepared # None => text = seen[s].prepared)
  BY <1>2 DEF Good, Statement, PlanKept
<1>. HIDE DEF text, sent
<1>. QED  BY <1>1, <1>2, <1>3, RunKeeps, Zenon

(***************************************************************************)
(* The last SQLParamData executes each parameter with what was sent for it.*)
(***************************************************************************)
LEMMA ParamDataExecutesKeeps ==
  ASSUME IInv, NEW s \in Stmt, NEW result, ParamDataExecutes(s, result)
  PROVE  IInv'
<1>. DEFINE dae == stmt[s].data_at_exec
            count == stmt[s].param_count
            r == [stmt[s] EXCEPT !.data_at_exec = None]
            saw == Over(seen[s])
            sent == seen[s].sent
            by == seen[s].by
            asked == seen[s].asked
            assembled == Assembled(Finalised(dae).values, IF count = None THEN 0 ELSE count)
<1>1. /\ dae # None /\ dae.pending = {}
      /\ RunStatement(s, r, saw, dae.sql, result,
           [by |-> by, asked |-> asked, text |-> None, over |-> "none",
            sent |-> sent, params |-> assembled])
  BY Zenon DEF ParamDataExecutes
<1>2. /\ Good(stmt[s], seen[s]) /\ dae \in DataAtExec /\ count \in 0 .. MaxMarks /\ count # None
      /\ SentSoFar(dae, count, sent) /\ ~stmt[s].cursor_open
  BY <1>1, NamesDiffer DEF IInv, Good, Statement, SequenceKept
<1>3. assembled = sent
  <2>. DEFINE done == Finalised(dae)
  <2>1. /\ SentSoFar(done, count, sent) /\ done.current = None /\ done.pending = {}
    BY <1>1, <1>2, FinalisedKeeps
  <2>. HIDE DEF done
  <2>2. sent \in [1 .. count -> Values]
    BY <2>1 DEF SentSoFar
  <2>3. ASSUME NEW p \in 1 .. count PROVE p \in DOMAIN done.values /\ sent[p] = done.values[p]
    <3>1. p # None
      BY NamesDiffer
    <3>. QED  BY <2>1, <3>1 DEF SentSoFar
  <2>4. assembled = [p \in 1 .. count |-> IF p \in DOMAIN done.values THEN done.values[p]
                                         ELSE NullValue]
    BY <1>2 DEF Assembled, done
  <2>5. assembled = [p \in 1 .. count |-> sent[p]]
    BY <2>3, <2>4
  <2>. QED  BY <2>2, <2>5
<1>4. Good(r, saw) /\ r.data_at_exec = None /\ ~r.cursor_open /\ saw.prepared = seen[s].prepared
  <2>1. r \in Statement /\ saw \in Sight
    <3>1. "catalog" \in Held
      BY DEF Held
    <3>. QED  BY <1>2, <3>1, RecordsKeepTypes DEF Good
  <2>2. /\ r.statement = stmt[s].statement /\ r.cursor_open = stmt[s].cursor_open
        /\ r.prepared_sql = stmt[s].prepared_sql /\ r.param_count = stmt[s].param_count
        /\ r.get_data_cursor = stmt[s].get_data_cursor /\ r.data_at_exec = None
        /\ saw.prepared = seen[s].prepared /\ saw.cursor = seen[s].cursor
        /\ saw.moved = seen[s].moved
    BY <1>2 DEF Over, Good, Statement, Sight
  <2>. HIDE DEF r, saw
  <2>. QED  BY <1>2, <2>1, <2>2 DEF Good, CursorKnown, PlanKept, SequenceKept
<1>5. /\ dae.sql \in Text \cup {None} /\ dae.sql # None
      /\ saw.prepared # None => dae.sql = saw.prepared
      /\ by = "Execute" => asked = saw.prepared /\ saw.prepared # None
  <2>1. dae.sql \in Text
    BY <1>2 DEF DataAtExec
  <2>2. /\ seen[s].prepared # None => dae.sql = seen[s].prepared
        /\ by = "Execute" => asked = seen[s].prepared /\ seen[s].prepared # None
    BY <1>1, <1>2 DEF Good, SequenceKept
  <2>. HIDE DEF saw
  <2>. QED  BY <1>4, <2>1, <2>2, NamesDiffer
<1>6. RunStatement(s, r, saw, dae.sql, result,
        [by |-> by, asked |-> asked, text |-> None, over |-> "none",
         sent |-> sent, params |-> sent])
  BY <1>1, <1>3
<1>. HIDE DEF dae, r, saw, sent, by, asked, assembled
<1>. QED  BY <1>4, <1>5, <1>6, RunKeeps, Zenon

-----------------------------------------------------------------------------
(***************************************************************************)
(* SQLEndTran reaches every statement of the connection.                   *)
(***************************************************************************)
LEMMA EndTranKeeps ==
  ASSUME IInv,
         \/ EndTranPreserve \/ EndTranDelete
         \/ \E failing \in SUBSET Stmt : EndTranClose(failing)
  PROVE  IInv'
<1>1. RanAsAsked'
  BY NothingRanIsAsAsked DEF EndTranPreserve, EndTranDelete, EndTranClose
<1>2. CASE EndTranPreserve
  <2>1. EndTranLeavesNoCursor'
    BY <1>2 DEF EndTranPreserve, EndTranLeavesNoCursor
  <2>. QED  BY <1>1, <1>2, <2>1 DEF EndTranPreserve, IInv
<1>3. ASSUME NEW failing \in SUBSET Stmt, EndTranClose(failing) PROVE IInv'
  <2>1. ASSUME NEW s \in Stmt
        PROVE  /\ Good(stmt'[s], seen'[s]) /\ ~stmt'[s].cursor_open /\ seen'[s].cursor # "open"
    <3>. DEFINE r == ClosedBy(stmt[s])
                saw == SawClose(stmt[s], seen[s], s \in failing)
    <3>1. Good(stmt[s], seen[s]) /\ stmt'[s] = r /\ seen'[s] = saw
      BY <1>3 DEF IInv, EndTranClose
    <3>2. /\ r \in Statement
          /\ r.statement = stmt[s].statement /\ r.cursor_open = FALSE
          /\ r.prepared_sql = stmt[s].prepared_sql /\ r.param_count = stmt[s].param_count
          /\ r.get_data_cursor = None /\ r.data_at_exec = stmt[s].data_at_exec
      BY <3>1 DEF Good, Statement, ClosedBy
    <3>3. /\ saw \in Sight
          /\ saw.prepared = seen[s].prepared /\ saw.asked = seen[s].asked
          /\ saw.by = seen[s].by /\ saw.sent = seen[s].sent
          /\ saw.cursor # "open"
      BY <3>1 DEF Good, Sight, SawClose, CursorKnown
    <3>. HIDE DEF r, saw
    <3>4. Good(r, saw)
      BY <3>1, <3>2, <3>3 DEF Good, CursorKnown, PlanKept, SequenceKept
    <3>. QED  BY <3>1, <3>2, <3>3, <3>4
  <2>2. EndTranLeavesNoCursor'
    BY <1>3, <2>1 DEF EndTranClose, EndTranLeavesNoCursor
  <2>3. stmt' \in [Stmt -> Statement] /\ seen' \in [Stmt -> Sight]
    BY <1>3, <2>1 DEF EndTranClose, Good
  <2>. QED  BY <1>1, <2>1, <2>2, <2>3 DEF IInv
<1>4. CASE EndTranDelete
  <2>1. ASSUME NEW s \in Stmt
        PROVE  /\ Good(stmt'[s], seen'[s]) /\ stmt'[s] = Fresh
    <3>. DEFINE r == DeletedBy(stmt[s])
                over == Over(seen[s])
                saw == [Dropped(over) EXCEPT !.prepared = None]
    <3>1. Good(stmt[s], seen[s]) /\ stmt'[s] = r /\ seen'[s] = saw
      BY <1>4 DEF IInv, EndTranDelete
    <3>2. r = Fresh
      BY <3>1 DEF Good, Statement, DeletedBy, Discarded, WithPrepared, Fresh
    <3>3. saw \in Sight /\ saw.prepared = None /\ saw.cursor = "none"
      <4>1. "catalog" \in Held
        BY DEF Held
      <4>2. over \in Sight
        BY <3>1, <4>1, RecordsKeepTypes DEF Good
      <4>. HIDE DEF over
      <4>. QED  BY <4>2 DEF Dropped, Sight
    <3>4. Good(Fresh, saw)
      <4>. HIDE DEF saw
      <4>1. Fresh \in Statement
        BY DEF Fresh, Statement
      <4>. QED  BY <3>3, <4>1 DEF Good, Fresh, CursorKnown, PlanKept, SequenceKept
    <3>. QED  BY <3>1, <3>2, <3>4
  <2>2. EndTranLeavesNoCursor'
    BY <1>4, <2>1 DEF EndTranDelete, EndTranLeavesNoCursor
  <2>3. stmt' \in [Stmt -> Statement] /\ seen' \in [Stmt -> Sight]
    BY <1>4, <2>1 DEF EndTranDelete, Good
  <2>. QED  BY <1>1, <2>1, <2>2, <2>3 DEF IInv
<1>. QED  BY <1>2, <1>3, <1>4

(***************************************************************************)
(* The invariant holds when the statements are allocated, and in every state *)
(* of every behaviour behind a Driver Manager.                             *)
(***************************************************************************)
LEMMA IInvHolds ==
  ASSUME Managed
  PROVE  Spec => []IInv
<1>1. Init => IInv
  <2>. SUFFICES ASSUME Init PROVE IInv
    OBVIOUS
  <2>1. Fresh \in Statement
    BY DEF Fresh, Statement
  <2>2. Unseen \in Sight
    <3>1. NoValues \in [1 .. 0 -> Values]
      BY DEF NoValues
    <3>2. NoValues \in UNION {[1 .. n -> Values] : n \in 0 .. MaxMarks}
      BY <3>1, NamesDiffer
    <3>. QED  BY <3>2 DEF Unseen, Sight
  <2>3. Good(Fresh, Unseen)
    BY <2>1, <2>2 DEF Good, Fresh, Unseen, CursorKnown, PlanKept, SequenceKept
  <2>4. RanAsAsked /\ EndTranLeavesNoCursor
    BY NamesDiffer DEF Init, NothingRan, RanAsAsked, EndTranLeavesNoCursor
  <2>. QED  BY <2>1, <2>2, <2>3, <2>4 DEF Init, IInv
<1>2. IInv /\ [Next]_vars => IInv'
  <2>. SUFFICES ASSUME IInv, [Next]_vars PROVE IInv'
    OBVIOUS
  <2>1. CASE UNCHANGED vars
    BY <2>1 DEF vars, IInv, RanAsAsked, EndTranLeavesNoCursor
  <2>2. ASSUME NEW s \in Stmt, CloseCursor(s) \/ MoreResults(s) \/ FreeStmtClose(s) PROVE IInv'
    BY <2>2, CloseKeeps DEF CloseCursor, MoreResults, FreeStmtClose, ManagerAllows
  <2>3. CASE Next
    BY <2>2, <2>3, PrepareKeeps, ExecDirectKeeps, NeedsDataKeeps, ExecuteKeeps,
       ParamDataExecutesKeeps, CatalogKeeps, PutDataKeeps, ParamDataAsksKeeps, CancelKeeps,
       ReadKeeps, EndTranKeeps
    DEF Next
  <2>. QED  BY <2>1, <2>3
<1>. QED  BY <1>1, <1>2, PTL DEF Spec

-----------------------------------------------------------------------------
(***************************************************************************)
(* Behind a Driver Manager statements and histories stay well typed, and a *)
(* data-at-execution sequence knows each of its parameters exactly once.   *)
(***************************************************************************)
THEOREM TypeCorrect ==
  ASSUME Managed
  PROVE  Spec => []TypeOK
<1>1. IInv => TypeOK
  <2>1. ASSUME IInv, NEW s \in Stmt
        PROVE  /\ stmt[s].statement \in Held \cup {None}
               /\ {stmt[s].cursor_open, stmt[s].executed} \subseteq BOOLEAN
               /\ stmt[s].prepared_sql \in Text \cup {None}
               /\ stmt[s].param_count \in (0 .. MaxMarks) \cup {None}
               /\ stmt[s].data_at_exec \in DataAtExec \cup {None}
               /\ seen[s].cursor \in {"none", "open", "failed"}
    BY <2>1 DEF IInv, Good, Statement, Sight
  <2>2. ASSUME IInv, NEW s \in Stmt, stmt[s].data_at_exec # None
        PROVE  LET dae == stmt[s].data_at_exec
                   asked == IF dae.current = None THEN dae.pending
                            ELSE dae.pending \cup {dae.current}
               IN /\ DOMAIN dae.values \cap asked = {}
                  /\ dae.current \notin dae.pending
                  /\ DOMAIN dae.values \cup asked = 1 .. stmt[s].param_count
    <3>1. /\ stmt[s].param_count \in 0 .. MaxMarks
          /\ SentSoFar(stmt[s].data_at_exec, stmt[s].param_count, seen[s].sent)
      BY <2>2 DEF IInv, Good, SequenceKept
    <3>2. \A p \in 1 .. stmt[s].param_count : p # None
      BY <3>1, NamesDiffer
    <3>. QED  BY <3>1, <3>2 DEF SentSoFar
  <2>3. ASSUME IInv, NEW s \in Stmt PROVE DOMAIN seen[s].sent \subseteq Numbers
    <3>1. PICK n \in 0 .. MaxMarks : seen[s].sent \in [1 .. n -> Values]
      BY <2>3 DEF IInv, Sight
    <3>. QED  BY <3>1, NamesDiffer DEF Numbers
  <2>. QED  BY <2>1, <2>2, <2>3 DEF TypeOK
<1>. QED  BY <1>1, IInvHolds, PTL

(***************************************************************************)
(* Every parameter is executed with the data, the null or the bound value  *)
(* that was sent for it, and with no other's (SQLPutData, SQLParamData).   *)
(***************************************************************************)
THEOREM DataAlwaysReachesItsParameter ==
  ASSUME Managed
  PROVE  Spec => []DataReachesItsParameter
<1>1. IInv => DataReachesItsParameter
  BY DEF IInv, RanAsAsked, DataReachesItsParameter
<1>. QED  BY <1>1, IInvHolds, PTL

(***************************************************************************)
(* SQLExecute runs the text last prepared, and what the statement tells of *)
(* its parameters and columns is of that text.                             *)
(***************************************************************************)
THEOREM ExecuteAlwaysRunsPreparedText ==
  ASSUME Managed
  PROVE  Spec => []ExecuteRunsPreparedText
<1>1. IInv => ExecuteRunsPreparedText
  <2>. SUFFICES ASSUME IInv PROVE ExecuteRunsPreparedText
    OBVIOUS
  <2>1. ran.by = "Execute" => ran.text = ran.asked
    BY DEF IInv, RanAsAsked
  <2>2. ASSUME NEW s \in Stmt, seen[s].prepared # None
        PROVE  /\ stmt[s].prepared_sql = seen[s].prepared
               /\ stmt[s].param_count = Marks[seen[s].prepared]
               /\ Marks[seen[s].prepared] \in Nat
               /\ stmt[s].statement # None => stmt[s].statement = seen[s].prepared
    BY <2>2, NamesDiffer DEF IInv, Good, PlanKept, Sight
  <2>3. ASSUME NEW s \in Stmt, seen[s].prepared # None
        PROVE  /\ NumParams(stmt[s]) = Marks[seen[s].prepared]
               /\ \A p \in 1 .. Marks[seen[s].prepared] :
                    DescribeParam(stmt[s], p) = <<seen[s].prepared, p>>
               /\ stmt[s].statement # None =>
                    NumResultCols(stmt[s]) = Described(seen[s].prepared)
    <3>1. Marks[seen[s].prepared] # None
      BY <2>2, <2>3, NamesDiffer
    <3>. QED  BY <2>2, <2>3, <3>1 DEF NumParams, DescribeParam, NumResultCols
  <2>. QED  BY <2>1, <2>2, <2>3 DEF ExecuteRunsPreparedText
<1>. QED  BY <1>1, IInvHolds, PTL

(***************************************************************************)
(* Core believes a cursor open exactly when the backend has one, so that   *)
(* every 24000 guard is right, and never executes over an open one.        *)
(***************************************************************************)
THEOREM CursorOpenAlwaysMatches ==
  ASSUME Managed
  PROVE  Spec => []CursorOpenMatchesBackend
<1>1. IInv => CursorOpenMatchesBackend
  BY
  DEF IInv, RanAsAsked, Good, CursorKnown, NumResultCols, Described, CursorOpenMatchesBackend
<1>. QED  BY <1>1, IInvHolds, PTL

(***************************************************************************)
(* A position SQLGetData keeps is in the row the cursor is on.             *)
(***************************************************************************)
THEOREM PositionAlwaysInCurrentRow ==
  ASSUME Managed
  PROVE  Spec => []PositionInCurrentRow
<1>1. IInv => PositionInCurrentRow
  BY DEF IInv, Good, CursorKnown, PositionInCurrentRow
<1>. QED  BY <1>1, IInvHolds, PTL

(***************************************************************************)
(* SQLEndTran leaves no cursor open under SQL_CB_CLOSE, whichever closes   *)
(* fail, and nothing of any statement under SQL_CB_DELETE.                 *)
(***************************************************************************)
THEOREM EndTranAlwaysLeavesNoCursor ==
  ASSUME Managed
  PROVE  Spec => []EndTranLeavesNoCursor
<1>1. IInv => EndTranLeavesNoCursor
  BY DEF IInv
<1>. QED  BY <1>1, IInvHolds, PTL
=============================================================================
