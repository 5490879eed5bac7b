-------------------------- MODULE StatementMachine --------------------------
(***************************************************************************)
(* The statements of one open connection: preparing, executing, sending    *)
(* data at execution, reading, closing, and what SQLEndTran does to all of *)
(* them.  One action is one entry point; a call core refuses changes       *)
(* nothing and is no step.                                                 *)
(*                                                                         *)
(* Managed says whether a Driver Manager stands in front of core.  It is   *)
(* external, and refuses the calls the function tables in src/ mark (DM);  *)
(* core is also linked without one (params.rs, cursor.rs).                 *)
(***************************************************************************)
EXTENDS Naturals, FiniteSets

CONSTANTS
  Stmt,      \* statement handles of the connection
  Text,      \* SQL texts
  Columns,   \* the texts whose execution returns columns
  Marks,     \* count_params of each text
  MaxMarks,  \* bound on Marks
  Column,    \* result columns SQLGetData reads
  MaxData,   \* bound: pieces of data SQLPutData sends for one parameter
  Managed,
  None

ASSUME StatementAssumption ==
  /\ Columns \subseteq Text
  /\ MaxMarks \in Nat /\ MaxData \in Nat
  /\ Marks \in [Text -> 0 .. MaxMarks]
  /\ Managed \in BOOLEAN
  /\ None \notin Text \cup Nat
  /\ None \notin {"catalog", "synthetic", "Execute", "ExecDirect", "Close", "Delete"}
  /\ Text \cap {"catalog", "synthetic"} = {}

VARIABLES
  stmt,   \* StatementHandle: its statement-machine fields
  seen,   \* history: what the application and the backend know of each one
  ran,    \* history: what the last call had the backend execute
  ended   \* history: the cursor behaviour, if the last call was SQLEndTran

vars == <<stmt, seen, ran, ended>>

Numbers == 1 .. MaxMarks
\* StatementData: a prepared text, a catalog result, or core's own result set.
Held == Text \cup {"catalog", "synthetic"}
HasColumns(held) == held \in Columns \cup {"catalog", "synthetic"}

Bound == <<"bound">>          \* a value read from the bound buffer
NullValue == <<"null">>
Sent(pieces) == <<"data", pieces>>
Values == {Bound, NullValue} \cup {Sent(n) : n \in 0 .. MaxData}
NoValues == [p \in {} |-> None]

Fresh == [statement |-> None, cursor_open |-> FALSE, executed |-> FALSE,
          prepared_sql |-> None, param_count |-> None,
          data_at_exec |-> None, get_data_cursor |-> None]

\* prepared: the text SQLExecute means to the application.  asked, sent: the
\* text of the execution that needs data, by which call, and what was sent for
\* each parameter.  cursor: the backend's own.  moved: it moved since the
\* first part of the column being read.
Unseen == [prepared |-> None, asked |-> None, by |-> None, sent |-> NoValues,
           cursor |-> "none", moved |-> FALSE]

NothingRan == [by |-> None, asked |-> None, text |-> None, over |-> "none",
               sent |-> NoValues, params |-> NoValues]

\* A sequence that is over, or was given up.
Over(saw) == [saw EXCEPT !.asked = None, !.by = None, !.sent = NoValues]

Init == /\ stmt = [s \in Stmt |-> Fresh]
        /\ seen = [s \in Stmt |-> Unseen]
        /\ ran = NothingRan
        /\ ended = None

\* Every action on one statement: what becomes of it, and of what was seen.
Set(s, record, saw) == /\ stmt' = [stmt EXCEPT ![s] = record]
                       /\ seen' = [seen EXCEPT ![s] = saw]
                       /\ ended' = None

\* The Driver Manager's HY010 while a call needs data, and for SQLExecute on a
\* statement that is not prepared.
ManagerAllows(s) == Managed => stmt[s].data_at_exec = None
ManagerAllowsExecute(s) ==
  Managed => stmt[s].data_at_exec = None /\ seen[s].prepared # None

-----------------------------------------------------------------------------
\* set_result_set, set_prepared_statement, discard_result_set, note_executed.
WithResult(r, held) ==
  [r EXCEPT !.statement = held, !.cursor_open = HasColumns(held),
            !.executed = TRUE, !.get_data_cursor = None]
WithPrepared(r, held) ==
  [r EXCEPT !.statement = held, !.cursor_open = FALSE, !.executed = FALSE,
            !.get_data_cursor = None]
Discarded(r) == WithPrepared(r, None)
\* A fault: the cursor an execution opens is not noted.
NoteOnlyExecuted(r) == [r EXCEPT !.executed = TRUE]

NoteExecuted(r) == [r EXCEPT !.executed = TRUE, !.cursor_open = HasColumns(r.statement)]

Opened(held) == IF HasColumns(held) THEN "open" ELSE "none"

\* Replacing or dropping the backend statement drops its cursor.
Dropped(saw) == [saw EXCEPT !.cursor = "none", !.moved = TRUE]
Executed(saw, held) == [Dropped(saw) EXCEPT !.cursor = Opened(held)]

-----------------------------------------------------------------------------
\* A fault: the text is replaced and the backend statement is not.
PrepareTextOnly(s, text, ok) ==
  /\ ManagerAllows(s)
  /\ IF ok
     THEN Set(s, [stmt[s] EXCEPT !.prepared_sql = text, !.param_count = Marks[text]],
              [seen[s] EXCEPT !.prepared = text])
     ELSE Set(s, stmt[s], [seen[s] EXCEPT !.prepared = None])
  /\ ran' = NothingRan

\* A cursor still open goes with the statement it belongs to.
Prepare(s, text, ok) ==
  /\ ManagerAllows(s)
  /\ IF ok
     THEN Set(s, [WithPrepared(stmt[s], text) EXCEPT
                    !.prepared_sql = text, !.param_count = Marks[text]],
              [Dropped(seen[s]) EXCEPT !.prepared = text])
     ELSE Set(s, stmt[s], [seen[s] EXCEPT !.prepared = None])
  /\ ran' = NothingRan

\* DataAtExecState: the values read from bound buffers are already collected.
AskingFor(needed, count, text) ==
  [pending |-> needed, current |-> None, buffer |-> 0, put |-> "NotCalled",
   values |-> [p \in (1 .. count) \ needed |-> Bound], sql |-> text]

NotYetSent(needed, count) ==
  [p \in 1 .. count |-> IF p \in needed THEN Sent(0) ELSE Bound]
Asks(saw, by, text, needed, count) ==
  [saw EXCEPT !.asked = text, !.by = by, !.sent = NotYetSent(needed, count)]

\* SQLExecDirectW with data-at-execution parameters stops at SQL_NEED_DATA.
ExecDirectNeedsData(s, text, needed) ==
  /\ ManagerAllows(s)
  /\ ~stmt[s].cursor_open
  /\ needed # {} /\ needed \subseteq 1 .. Marks[text]
  /\ Set(s, [stmt[s] EXCEPT !.param_count = Marks[text],
               !.data_at_exec = AskingFor(needed, Marks[text], text)],
         [Asks(seen[s], "ExecDirect", text, needed, Marks[text]) EXCEPT
            !.prepared = None])
  /\ ran' = NothingRan

AllBound(count) == [p \in 1 .. count |-> Bound]

\* A failure drops the new backend statement and keeps the one held.
ExecDirect(s, text, ok) ==
  LET saw == [seen[s] EXCEPT !.prepared = None] IN
  /\ ManagerAllows(s)
  /\ ~stmt[s].cursor_open
  /\ IF ok THEN Set(s, WithResult(stmt[s], text), Executed(saw, text))
           ELSE Set(s, stmt[s], saw)
  /\ ran' = [by |-> "ExecDirect", asked |-> text, text |-> text, over |-> "none",
             sent |-> AllBound(Marks[text]), params |-> AllBound(Marks[text])]

\* The catalog functions and SQLGetTypeInfo.
Catalog(s, held) ==
  /\ ManagerAllows(s)
  /\ ~stmt[s].cursor_open
  /\ Set(s, WithResult(stmt[s], held),
         [Executed(seen[s], held) EXCEPT !.prepared = None])
  /\ ran' = NothingRan

-----------------------------------------------------------------------------
ExecuteNeedsData(s, needed) ==
  /\ ManagerAllowsExecute(s)
  /\ stmt[s].param_count # None
  /\ ~stmt[s].cursor_open
  /\ needed # {} /\ needed \subseteq 1 .. stmt[s].param_count
  /\ stmt[s].prepared_sql # None
  /\ LET text == stmt[s].prepared_sql
         count == stmt[s].param_count
     IN Set(s, [stmt[s] EXCEPT !.data_at_exec = AskingFor(needed, count, text)],
            Asks(seen[s], "Execute", seen[s].prepared, needed, count))
  /\ ran' = NothingRan

(***************************************************************************)
(* What SQLExecute and the last SQLParamData share: re-prepare the text if *)
(* the backend statement was discarded, refuse core's own result sets, and *)
(* execute whatever statement is held.  A failed execution leaves it.      *)
(***************************************************************************)
Reprepared(r, text) == IF r.statement = None THEN WithPrepared(r, text) ELSE r

RunStatement(s, r, saw, text, result, run) ==
  LET ready == Reprepared(r, text)
      before == IF r.statement = None THEN Dropped(saw) ELSE saw
  IN \/ /\ result = "unprepared" /\ r.statement = None
        /\ Set(s, r, saw)
        /\ ran' = NothingRan
     \/ /\ result = "done" /\ ready.statement = "synthetic"
        /\ Set(s, ready, saw)
        /\ ran' = NothingRan
     \/ /\ result # "unprepared" /\ ready.statement # "synthetic"
        /\ IF result = "done"
           THEN Set(s, NoteExecuted(ready), Executed(saw, ready.statement))
           ELSE Set(s, ready, before)
        /\ ran' = [run EXCEPT !.text = ready.statement, !.over = before.cursor]

Execute(s, result) ==
  /\ ManagerAllowsExecute(s)
  /\ stmt[s].param_count # None
  /\ ~stmt[s].cursor_open
  /\ stmt[s].statement = None => stmt[s].prepared_sql # None
  /\ RunStatement(s, stmt[s], seen[s], stmt[s].prepared_sql, result,
       [by |-> "Execute", asked |-> seen[s].prepared, text |-> None, over |-> "none",
        sent |-> AllBound(stmt[s].param_count),
        params |-> AllBound(stmt[s].param_count)])

-----------------------------------------------------------------------------
\* SQLPutData, one piece (or an empty one) or SQL_NULL_DATA.  HY020 refuses a
\* null after anything and anything after a null.
PutData(s, piece) ==
  LET dae == stmt[s].data_at_exec IN
  /\ dae # None
  /\ dae.current # None
  /\ dae.put # "NotCalled" => piece # None /\ dae.put # "Null"
  /\ IF piece = None
     THEN Set(s, [stmt[s] EXCEPT !.data_at_exec =
                    [dae EXCEPT !.buffer = 0, !.put = "Null"]],
              [seen[s] EXCEPT !.sent[dae.current] = NullValue])
     ELSE /\ dae.buffer + piece <= MaxData
          /\ Set(s, [stmt[s] EXCEPT !.data_at_exec =
                       [dae EXCEPT !.buffer = @ + piece, !.put = "Data"]],
                 [seen[s] EXCEPT !.sent[dae.current] = Sent(@[2] + piece)])
  /\ ran' = NothingRan

\* A fault: the next parameter starts with this one's data.
FinalisedOnly(dae) ==
  IF dae.current = None THEN dae
  ELSE [dae EXCEPT
          !.values = [p \in DOMAIN @ \cup {dae.current} |->
                        IF p # dae.current THEN @[p]
                        ELSE IF dae.put = "Null" THEN NullValue
                        ELSE Sent(dae.buffer)],
          !.current = None]

\* Finalising the current parameter: its buffer becomes its value.
Finalised(dae) ==
  IF dae.current = None THEN dae
  ELSE [dae EXCEPT
          !.values = [p \in DOMAIN @ \cup {dae.current} |->
                        IF p # dae.current THEN @[p]
                        ELSE IF dae.put = "Null" THEN NullValue
                        ELSE Sent(dae.buffer)],
          !.buffer = 0, !.current = None]

MayFinalise(dae) == dae.current # None => dae.put # "NotCalled"
First(numbers) == CHOOSE p \in numbers : \A q \in numbers : p <= q

ParamDataAsks(s) ==
  LET dae == stmt[s].data_at_exec
      p == First(dae.pending)
  IN /\ dae # None
     /\ MayFinalise(dae)
     /\ dae.pending # {}
     /\ Set(s, [stmt[s] EXCEPT !.data_at_exec =
                  [Finalised(dae) EXCEPT !.current = p, !.put = "NotCalled",
                                         !.pending = @ \ {p}]],
            seen[s])
     /\ ran' = NothingRan

\* The value does not convert: the sequence is lost.
ParamDataFails(s) ==
  LET dae == stmt[s].data_at_exec IN
  /\ dae # None
  /\ dae.current # None /\ dae.put = "Data"
  /\ Set(s, [stmt[s] EXCEPT !.data_at_exec = None], Over(seen[s]))
  /\ ran' = NothingRan

\* Parameters past those collected are null; those past param_count are left out.
Assembled(values, count) ==
  [p \in 1 .. count |-> IF p \in DOMAIN values THEN values[p] ELSE NullValue]

ParamDataExecutes(s, result) ==
  LET dae == stmt[s].data_at_exec
      count == IF stmt[s].param_count = None THEN 0 ELSE stmt[s].param_count
  IN /\ dae # None
     /\ MayFinalise(dae)
     /\ dae.pending = {}
     /\ RunStatement(s, [stmt[s] EXCEPT !.data_at_exec = None], Over(seen[s]), dae.sql, result,
          [by |-> seen[s].by, asked |-> seen[s].asked, text |-> None, over |-> "none",
           sent |-> seen[s].sent,
           params |-> Assembled(Finalised(dae).values, count)])

\* SQLCancel on an idle statement discards the sequence.
Cancel(s) ==
  /\ Set(s, [stmt[s] EXCEPT !.data_at_exec = None], Over(seen[s]))
  /\ ran' = NothingRan

-----------------------------------------------------------------------------
\* A fault: the position survives the row.
FetchKeepsPosition(s) ==
  /\ ManagerAllows(s)
  /\ stmt[s].cursor_open
  /\ Set(s, stmt[s], [seen[s] EXCEPT !.moved = TRUE])
  /\ ran' = NothingRan

\* The position SQLGetData is at is dropped before the backend moves.
Fetch(s) ==
  /\ ManagerAllows(s)
  /\ stmt[s].cursor_open
  /\ Set(s, [stmt[s] EXCEPT !.get_data_cursor = None], [seen[s] EXCEPT !.moved = TRUE])
  /\ ran' = NothingRan

\* One part of a column: the last one, an earlier one, or an error, which
\* loses the position.
GetData(s, column, part) ==
  LET at == stmt[s].get_data_cursor
      goes_on == at # None /\ at.column = column
  IN /\ ManagerAllows(s)
     /\ stmt[s].cursor_open
     /\ ~(goes_on /\ at.done)
     /\ Set(s, [stmt[s] EXCEPT !.get_data_cursor =
                  IF part = "error" THEN None
                  ELSE [column |-> column, done |-> part = "last"]],
            IF goes_on THEN seen[s] ELSE [seen[s] EXCEPT !.moved = FALSE])
     /\ ran' = NothingRan

\* close_cursor if one is open, then discard even if that fails.
CloseAndDiscard(s) == /\ Set(s, Discarded(stmt[s]), Dropped(seen[s]))
                      /\ ran' = NothingRan

CloseCursor(s) == ManagerAllows(s) /\ stmt[s].cursor_open /\ CloseAndDiscard(s)
MoreResults(s) == /\ ManagerAllows(s)
                  /\ stmt[s].cursor_open \/ stmt[s].executed
                  /\ CloseAndDiscard(s)
FreeStmtClose(s) == ManagerAllows(s) /\ CloseAndDiscard(s)

-----------------------------------------------------------------------------
(***************************************************************************)
(* What a statement tells of itself: SQLNumParams and SQLDescribeParam of  *)
(* the text, SQLNumResultCols of the backend statement.  The backend is    *)
(* asked to describe a parameter of one text; without any, every parameter *)
(* is a VARCHAR.                                                           *)
(***************************************************************************)
NumParams(r) == IF r.param_count = None THEN "HY010" ELSE r.param_count
DescribeParam(r, p) ==
  CASE r.param_count = None -> "HY010"
    [] r.param_count # None /\ p \notin 1 .. r.param_count -> "07009"
    [] OTHER -> IF r.prepared_sql = None THEN "varchar" ELSE <<r.prepared_sql, p>>
Described(held) == IF HasColumns(held) THEN "columns" ELSE "no columns"
NumResultCols(r) == IF r.statement = None THEN "HY010" ELSE Described(r.statement)

-----------------------------------------------------------------------------
(***************************************************************************)
(* apply_cursor_behavior, once the backend has ended the transaction.  The *)
(* walk reaches every statement, the ones whose close fails included.      *)
(***************************************************************************)
ClosedBy(r) == [r EXCEPT !.cursor_open = FALSE, !.get_data_cursor = None]
DeletedBy(r) == [Discarded(r) EXCEPT !.prepared_sql = None, !.param_count = None,
                                     !.data_at_exec = None]

SawClose(r, saw, failed) ==
  IF r.statement = None THEN saw
  ELSE [saw EXCEPT !.cursor = IF @ = "open" /\ failed THEN "failed"
                              ELSE IF failed THEN @ ELSE "none",
                   !.moved = TRUE]

EndTranPreserve == /\ ended' = "Preserve"
                   /\ ran' = NothingRan
                   /\ UNCHANGED <<stmt, seen>>

\* A fault: the walk ends at a statement whose close fails.
EndTranStops(failing) ==
  LET reached(s) == failing = {} \/ s \in failing IN
  /\ failing \subseteq {s \in Stmt : stmt[s].statement # None}
  /\ stmt' = [s \in Stmt |-> IF reached(s) THEN ClosedBy(stmt[s]) ELSE stmt[s]]
  /\ seen' = [s \in Stmt |->
                IF reached(s) THEN SawClose(stmt[s], seen[s], s \in failing) ELSE seen[s]]
  /\ ended' = "Close"
  /\ ran' = NothingRan

EndTranClose(failing) ==
  /\ failing \subseteq {s \in Stmt : stmt[s].statement # None}
  /\ stmt' = [s \in Stmt |-> ClosedBy(stmt[s])]
  /\ seen' = [s \in Stmt |-> SawClose(stmt[s], seen[s], s \in failing)]
  /\ ended' = "Close"
  /\ ran' = NothingRan

EndTranDelete ==
  /\ stmt' = [s \in Stmt |-> DeletedBy(stmt[s])]
  /\ seen' = [s \in Stmt |-> [Dropped(Over(seen[s])) EXCEPT !.prepared = None]]
  /\ ended' = "Delete"
  /\ ran' = NothingRan

-----------------------------------------------------------------------------
Next ==
  \/ \E s \in Stmt :
       \/ \E text \in Text :
            \/ \E ok \in BOOLEAN : Prepare(s, text, ok) \/ ExecDirect(s, text, ok)
            \/ \E needed \in SUBSET Numbers : ExecDirectNeedsData(s, text, needed)
       \/ \E needed \in SUBSET Numbers : ExecuteNeedsData(s, needed)
       \/ \E result \in {"done", "failed", "unprepared"} :
            Execute(s, result) \/ ParamDataExecutes(s, result)
       \/ \E held \in {"catalog", "synthetic"} : Catalog(s, held)
       \/ \E piece \in {0, 1} : PutData(s, piece)
       \/ PutData(s, None)
       \/ ParamDataAsks(s) \/ ParamDataFails(s) \/ Cancel(s)
       \/ Fetch(s)
       \/ \E column \in Column, part \in {"some", "last", "error"} : GetData(s, column, part)
       \/ CloseCursor(s) \/ MoreResults(s) \/ FreeStmtClose(s)
  \/ EndTranPreserve
  \/ \E failing \in SUBSET Stmt : EndTranClose(failing)
  \/ EndTranDelete

Spec == Init /\ [][Next]_vars
-----------------------------------------------------------------------------
Collected == UNION {[known -> Values] : known \in SUBSET Numbers}
DataAtExec ==
  [pending : SUBSET Numbers, current : Numbers \cup {None}, buffer : 0 .. MaxData,
   put : {"NotCalled", "Data", "Null"}, values : Collected, sql : Text]

(***************************************************************************)
(* Statements and histories are well typed, and a data-at-execution        *)
(* sequence knows each of its parameters exactly once.                     *)
(***************************************************************************)
TypeOK ==
  \A s \in Stmt :
    /\ stmt[s].statement \in Held \cup {None}
    /\ {stmt[s].cursor_open, stmt[s].executed} \subseteq BOOLEAN
    /\ stmt[s].prepared_sql \in Text \cup {None}
    /\ stmt[s].param_count \in (0 .. MaxMarks) \cup {None}
    /\ stmt[s].data_at_exec \in DataAtExec \cup {None}
    /\ stmt[s].data_at_exec # None =>
         LET dae == stmt[s].data_at_exec
             asked == IF dae.current = None THEN dae.pending
                      ELSE dae.pending \cup {dae.current}
         IN /\ DOMAIN dae.values \cap asked = {}
            /\ dae.current \notin dae.pending
            /\ DOMAIN dae.values \cup asked = 1 .. stmt[s].param_count
    /\ seen[s].cursor \in {"none", "open", "failed"}
    /\ DOMAIN seen[s].sent \subseteq Numbers

(***************************************************************************)
(* Core believes a cursor open exactly when the backend has one open that  *)
(* it was not asked to close (what every 24000 guard relies on,            *)
(* StatementHandle::cursor_open), and never asks the backend to execute    *)
(* over an open cursor, the last SQLParamData, which carries no such       *)
(* guard, included; and SQLNumResultCols tells of columns while one is.    *)
(***************************************************************************)
CursorOpenMatchesBackend ==
  /\ \A s \in Stmt : /\ stmt[s].cursor_open <=> seen[s].cursor = "open"
                     /\ stmt[s].cursor_open => NumResultCols(stmt[s]) = "columns"
  /\ ran.over # "open"

(***************************************************************************)
(* A SQLGetData position belongs to the row the cursor is on, and goes     *)
(* when the cursor moves ("a position into the previous row's value means  *)
(* nothing in the next one", StatementHandle::get_data_cursor).            *)
(***************************************************************************)
PositionInCurrentRow ==
  \A s \in Stmt : stmt[s].get_data_cursor # None =>
    stmt[s].cursor_open /\ ~seen[s].moved

(***************************************************************************)
(* SQLExecute executes the text last prepared, at once or through a        *)
(* data-at-execution sequence, whatever was discarded and re-prepared; and *)
(* that text stays ready, what the statement tells of its parameters and   *)
(* of its columns being of that text, until the application prepares or    *)
(* executes another one or a transaction discards the plans.               *)
(***************************************************************************)
ExecuteRunsPreparedText ==
  /\ ran.by = "Execute" => ran.text = ran.asked
  /\ \A s \in Stmt : seen[s].prepared # None =>
       /\ stmt[s].prepared_sql = seen[s].prepared
       /\ NumParams(stmt[s]) = Marks[seen[s].prepared]
       /\ \A p \in 1 .. Marks[seen[s].prepared] :
            DescribeParam(stmt[s], p) = <<seen[s].prepared, p>>
       /\ stmt[s].statement # None =>
            NumResultCols(stmt[s]) = Described(seen[s].prepared)

(***************************************************************************)
(* Every parameter is executed with what was sent for it: the pieces put   *)
(* for that parameter, a null, or its bound value, and none of another's.  *)
(***************************************************************************)
DataReachesItsParameter == ran.params = ran.sent

(***************************************************************************)
(* SQLEndTran leaves no cursor open on any statement of the connection     *)
(* under SQL_CB_CLOSE, though some fail to close, and returns every        *)
(* statement to the allocated state under SQL_CB_DELETE.                   *)
(***************************************************************************)
EndTranLeavesNoCursor ==
  /\ ended = "Close" => \A s \in Stmt : ~stmt[s].cursor_open /\ seen[s].cursor # "open"
  /\ ended = "Delete" => \A s \in Stmt : stmt[s] = Fresh

(***************************************************************************)
(* What DataAtExecState::sql says: the last SQLParamData executes the text *)
(* of the call that asked for data.                                        *)
(***************************************************************************)
DataAtExecRunsItsText == ran.asked # None => ran.text = ran.asked
=============================================================================
