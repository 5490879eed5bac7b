# A TLA+ verification of stackable-odbc-core

`stackable-odbc-core` is the database-independent half of an ODBC driver. A
driver is this crate plus a backend; an application, usually through a Driver
Manager, calls it from any number of threads with handles it may have freed
already. This directory holds TLA+ modules of the crate's stateful parts, the
configurations that check them with TLC, and proofs checked by TLAPS.

Source paths below are relative to `src/src/`.

## 1. The system

| Component | State | Operations | What makes it hard, what makes it correct |
|---|---|---|---|
| Handle registry (`handles/registry.rs`) | slots: generation, kind, address, lock group, parent, cancel token | register, unregister, resolve and the other lookups | slots and addresses are reused, generations run out: a dead token must never resolve |
| Handle lifetimes (`handles/mod.rs`, `ffi/handle.rs`) | heap structs and who owns them | SQLAllocHandle, SQLFreeHandle, the frees of SQLDisconnect | allocation fails half way; explicit descriptors are shared; parents must outlive children |
| Locking (`handles/scope.rs`, `panic.rs`) | one lock per environment and per connection, shared by all below it | `panic_safe`, `scope.get`, `with_child_group`, `with_group` | handles are freed between the lookup and the lock; one nested lock |
| Cancellation (`cancel.rs`, `query_timer.rs`, `ffi/cursor.rs`) | a token per execution, a thread per timed call | SQLCancel, `QueryTimer::arm`, `check`, `drop` | three threads race; failures must be labelled HY008 or HYT00 for the right reason |
| Statements (`ffi/execute.rs`, `params.rs`, `cursor.rs`, `fetch.rs`) | prepared text, backend statement, cursor, data-at-execution sequence, SQLGetData position | Prepare, ExecDirect, Execute, ParamData, PutData, Fetch, GetData, CloseCursor, MoreResults, FreeStmt, Cancel | long legal call sequences; copies of state the backend owns |
| Transactions (`ffi/tran.rs`) | manual-commit mark on each connection | SQLEndTran on a connection or an environment | partial failure, cursors of every statement |
| Connections (`ffi/connect.rs`, `connect_attr.rs`, `types/connect_params.rs`) | backend connection, pending attributes, browse request | Connect, DriverConnect, BrowseConnect, Disconnect, Set/GetConnectAttr | attributes set before a session exists; a connect that fails after the session is open; settings from a string, a file and earlier calls |
| Statement attributes and cursor names (`ffi/stmt_attr.rs`, `cursor.rs`) | limits, cursor name, one process-wide counter | Set/GetStmtAttr, Set/GetCursorName | limits are kept per statement and enforced per session |
| Descriptors (`descriptor.rs`, `ffi/desc.rs`, `bind.rs`) | records of bound columns and parameters | Get/SetDescField, Get/SetDescRec, CopyDesc, BindCol, BindParameter | two locks in SQLCopyDesc; consistency of a record |
| Diagnostics (`handles/diagnostics.rs`, `ffi/diag.rs`, `types/diagnostics_table.rs`) | a queue per handle | push, clear, GetDiagRec, GetDiagField | lifetime of records; which SQLSTATE a function may answer |
| Retrieval (`ffi/fetch.rs`, `column_value.rs`) | the row, its position for SQLGetData, a cached rendering | Fetch, FetchScroll, ExtendedFetch, GetData | a long value arrives in parts: no unit twice, none missing, and the return tells |
| Conversions (`column_value.rs`, `numeric_convert.rs`, `param_convert.rs`, ...) | none | pure functions, one table on the way in and another on the way out | range, sign, fractions and fields at the edge of the narrower type |
| Text (`escape.rs`, `utf16.rs`, `params.rs::count_params`) | none | pure scanners | quotes, comments and nesting; terminators and truncation |
| Catalog (`ffi/metadata.rs`, `info.rs`, `catalog_*.rs`) | SQL_ATTR_METADATA_ID, the result set they make | catalog functions, SQLGetTypeInfo, SQLGetInfo, SQLGetFunctions | what each argument means depends on the function, an attribute and the data source |

They interact by direct calls under a lock. An entry point reads the lock group
of its handle from the registry, locks it, resolves the handle again and works
on the structs it reached; a statement call also reaches its connection and the
descriptors it uses. Only `SQLCancel` and the timer thread act on a statement
while another thread is inside it, and they touch the cancel token alone. The
backend is called with the lock held, and may fail, block or panic.

The hazards this leaves, each at its line and with the properties that guard
it, are listed in `PROJECT.json`.

## 2. The modules

Handles and threads:

| Module | Models | Uses |
|---|---|---|
| `HandleSlots` | the slot table's operations, as operators on a table value | |
| `TokenLifecycle` | what the registry promises: a token is live at most once | |
| `HandleRegistry` | the registry alone, any caller in any order | `HandleSlots`; implements `TokenLifecycle` |
| `HandleTable`, `MCHandleTable` | every handle's allocation, ownership and release, one step per call | `HandleSlots` |
| `HandleCalls` | the same calls in flight on several threads, split where another thread can run | `HandleTable` |
| `HandleCallsProofs` | the theorems about the registry, the handles and the calls | `HandleCalls`, `HandleRegistry`, TLAPS |
| `CancelTimeout` | one statement's calls, their timers and SQLCancel | |
| `CancelTimeoutProofs` | the theorems about them | `CancelTimeout`, TLAPS |

Statements and their data:

| Module | Models | Uses |
|---|---|---|
| `StatementMachine`, `MCStatementMachine` | the statement handle under its whole call set | |
| `StatementMachineProofs` | the theorems about it | `StatementMachine`, TLAPS |
| `Descriptors`, `MCDescriptors` | descriptor records and header fields, and the calls that write them | `ColumnAttributes`, `ListedStates` |
| `DescriptorsProofs` | the theorems about them | `Descriptors`, TLAPS |
| `ColumnAttributes` | what core derives from a backend's description of a column | |
| `Retrieval`, `MCRetrieval` | rows into bound buffers, and SQLGetData in parts | `ListedStates` |
| `RetrievalProofs` | the theorems about them | `Retrieval`, TLAPS |
| `Conversions`, `MCConversions` | a value's way in, through the backend, and out | `ParameterConversions`, `ListedStates` |
| `ParameterConversions` | C type to SQL type | `ColumnConversions` |
| `ColumnConversions` | a column's value to a C type | |
| `ConversionsProofs` | the theorems about all three | `Conversions`, TLAPS |

Connections:

| Module | Models | Uses |
|---|---|---|
| `ConnectionSession` | one connection handle and its backend session | |
| `SessionAttributes` | catalog, access mode, timeouts, and the limits of the connection's statements | `ConnectionSession`, `ListedStates` |
| `CursorNames` | the cursor names of those statements | `SessionAttributes` |
| `ConnectionStrings` | connection strings and odbc.ini sections | |
| `ConnectRequests`, `MCSessionAttributes` | the three calls that connect, around all of the above | `CursorNames`, `ConnectionStrings` |
| `ConnectionSessionProofs` | the theorems about all of these | `ConnectRequests`, TLAPS |

Questions about the data source:

| Module | Models | Uses |
|---|---|---|
| `Metadata`, `MCMetadata` | a connection and a statement asked about the data source, and the diagnostics left | the modules below, `ColumnAttributes`, `ListedStates` |
| `MetadataProofs` | the theorems about all of these | `Metadata`, TLAPS |
| `CatalogArguments` | what a catalog function makes of its arguments; sorting | |
| `CatalogRows` | the columns of the catalog result sets and the values of their rows | |
| `Information` | SQLGetInfo, layer by layer | |
| `SupportedFunctions` | SQLGetFunctions in its three forms | |
| `SqlText` | escape translation, and counting parameter markers | |
| `TextBuffers` | text arguments and output buffers in UTF-16 | |
| `Diagnostics` | the queue of a handle, SQLGetDiagRec, SQLGetDiagField | `TextBuffers` |
| `ListedStates` | the SQLSTATEs the specification lists for each function | |

`map` in `PROJECT.json` gives the source lines of every definition.
`A fault:` marks a definition that is not part of a specification: it is a
plausible bug that replaces the definition after it to show that a property
notices. An `MC` module holds the values of a run's constants, and the
constraint or symmetry it uses. A variable marked *history* is not part of the
program; it remembers what a property needs of an earlier step.

**HandleSlots, HandleRegistry.** A slot is the code's `Slot`; a token is the
pair of slot index and generation. `EncodeToken` and `DecodeToken` do what the
shifts do, truncation included. `Registry::register` takes the lowest free slot
whose generation can still rise; `unregister` frees the slot and raises its
generation (saturating) in one critical section of the table's write lock,
which is why each is one step. The vector's growth is folded into a table of
`MaxSlotIndex + 1` slots that start at generation 0: an unused slot and a slot
not yet pushed receive generation 1 alike. Addresses are reused freely.

**HandleTable.** `heap` maps addresses to structs, and every struct carries in
`header` the token it was allocated for, so that a dangling token shows as a
mismatch. A call is an `Allowed` predicate (its early returns) and a `Result`
(what it does to the table): `HandleCalls` puts other threads' steps between the
two. `SQLAllocHandle` on a statement builds its descriptors one at a time and
undoes them if the registry runs out; `DisconnectInterrupted` is a panic in a
backend statement's `Drop`, caught by `panic_safe`. A statement has `Implicit`
descriptors; the code has four, the runs use the two that can be overridden.

**HandleCalls.** A thread goes through *enter* (the group is read from the
registry), *lock*, *check* (`scope.get` under the lock), *work* and *leave*.
`refs` holds the addresses it has turned into references. `SQLEndTran` on an
environment walks a snapshot of its connections, locking each in turn while it
holds the environment; `SQLCopyDesc` locks its source, lets go, and locks its
target; `SQLCancel` tries the lock. A `Work` step is atomic: it runs under the
lock, and whatever a thread holding no lock of the group could see is in the
registry, whose operations are critical sections of their own.
`Enter` skips tokens that are not live: `panic_safe` finds no group and the call
is refused before anything happens.

**CancelTimeout.** `Execute` mints a token, `UseCursor` reuses the one in force,
a timer goes from `Running` to `Finished` or `FiredCancel` under its mutex, and
the timer thread claims, marks and cancels in three steps. `by` records who
signalled a token; a backend call on a signalled token may fail because of it,
may succeed all the same, or may fail of itself. `exec` numbers executions
independently of their tokens, so that a token used twice would show.

**StatementMachine.** `stmt` holds the fields of `StatementHandle` that steer
calls. `seen` is what the application and the backend know: the text prepared,
what was sent for which parameter, the backend's own cursor. `ran` describes
the last execution. `Managed` puts a Driver Manager in front, which refuses
calls out of sequence; with `Managed` false core is called directly, as its
comments say it must also bear. Text is a model value with a number of
parameter markers and a flag for columns; a parameter's value is how many
pieces of data it was given. Actions that change nothing are left out.

**Descriptors.** `desc` is `Descriptor`: records by number and header fields by
name. An IRD stores no records; it is computed from the backend's columns, and
`SnapshotRecords` is what `SQLCopyDesc` makes of one. `HeaderOwner` decides
where a header field lives, and the five calls that write one go through it.
Every call first works out its SQLSTATE (`FieldRefusal`, `CopyRefusal`,
`BindColRefusal`, `BindParameterRefusal`), so that what a refusal leaves behind
can be stated. Pointers are NULL or not. `CopyReadsLikeSource` is about record
numbers from 1: a negative one is refused on an ARD or APD and taken for 0 on
any other descriptor, so there a copy and its source may well differ.

**Retrieval.** A row is what the writers ask of each value: how long its
character, wide and binary forms are, how many of those units are whole digits
that must not be cut, and how the C type of fixed width takes it. `position` is
`GetDataCursor`, with the rendering it caches; `memory` is what the application
finds in its buffers, `given` (history) the units it has had of the column.

**Conversions.** One value is bound, converted by `ReadParamValue`
(`collect_params`), stored, and converted back by `WriteColumnValue`. A number
is counted in tenths so that there is a fraction to lose; a date, a time of day
and a fraction are three numbers; an interval is a number of months or of
tenths of a second. Text keeps what it spells, and which grammar it spells
it in. `Today` is the date that a time read as a timestamp takes. `HalfRange` is
2^(bits - 1) of each integer width, a constant: the runs and the proofs do not
need the widths themselves. `IsParameter` and `IsColumnValue` say what a binding
and a backend's value may be, which `ValueAssumption` asks of the constants.

**ConnectionSession.** `conn` holds the handle's fields (`txn_dirty`, pending
autocommit and isolation, browse request); `session` is the backend's session
and whether a transaction is open in it. `Work` stands for a call that may open
one, `EndTranFails` for a commit whose outcome is unknown.

**SessionAttributes, CursorNames, ConnectRequests.** Each extends the one before
and puts its own state beside it, so that a step of the base is also a step of
the whole: `Carries` says what a connect takes along, `Disconnects` what is
dropped with it. `enforcer` is what the backend does with a limit: keeps it at
the data source (`set_query_timeout` and its like), leaves it to core's own
deadline, which there is for the query timeout only, or neither. `server` is
what the data source was told. `setter` (history) says whose limit it has.
`ConnectRequests` adds the settings: `request` is `browse_request`; `asked`
(history) is what the application itself gave in this sequence of calls, with
the data sources it named after each setting, and `opened` (history) what the
backend was given and what the call answered. `ConnectsAsAsked` is two things.
`RequestGranted`: every setting is one the application gave (`Given`) or one of
the file of a data source it named (`FileGives`), and a file never replaces what
the application gave, credentials under either of their keywords included
(`CredentialAskedFor`), but for the two exceptions that the comment on the
property names and section 6 reports. `AnswerConnectsAgain`: the string
SQLDriverConnect and SQLBrowseConnect return connects with the same settings. A
string is a sequence of tokens: the marks `;`, `=`, `{` and `}`, the blank, and
the words `Word`. A keyword is a single word in lower case, which
`StringAssumption` asks of the file (`OdbcIni`) too, and `TextsAssumption` says
that the strings given to the calls are such sequences.

**Metadata.** A source is the record of what a `Backend` declares: identifier
case, quotes, escape character, catalogs, schemas, order of NULLs. Every catalog
function has an action of its own; they differ in which arguments are
identifiers, patterns or lists, in what they check first and in their sort keys,
and share `Normalised` and `Answered`. `Backend` is the external search, which
understands patterns with the source's escape character. `answer` (history) is
what the last call told, and `Forget` clears it, so that the number of states is
the sum over the calls and not their product. `ended` (history) is which call
left the diagnostics of its handle, and what it returned. `Information` follows
an answer from the backend through core's derived answers to the default of its
shape. A text of `SqlText` is a sequence of tokens: the marks at which the
scanner stops, keywords, names, blanks and line ends. A scan is the positions it
comes by (`Visited`) or what it makes of them (`Joined`), from where it goes on
behind each position; `translate_escapes` is a function of the levels left.
`TranslationKeepsMarkers` is two things: the count of markers, and
`PlainTextUnchanged`, that a text without escapes is left alone.

**ListedStates.** The tables of `types/diagnostics_table.rs` for the functions
modelled elsewhere. The crate's tests compare the tables with the SQLSTATEs
spelled in the body of each function; the models compare them with what a call
answers in the end, a helper's SQLSTATEs included.

## 3. The runs

| Run | Asks | Properties |
|---|---|---|
| `HandleRegistry` | does a dead token stay dead, and does every live one encode, when slots wear out before the counter does? | `TokensResolveExactly`, `KeepsTokenLifecycle` |
| `HandleTable` | who owns what, through reuse, exhaustion, shared descriptors and an interrupted disconnect? | `AllocationsOwnedOnce`, `ParentsOutliveChildren`, `OverridesUsable`, `DieTogether` |
| `CallsInFlight` | can two threads reach a freed handle, or one handle at once? | `NoUseAfterFree`, `ExclusiveReferences`, `WalkCoversEnvironment` |
| `CallsReturn` | can the locks deadlock, or SQLCancel wait for the call it is to stop? | `EveryCallReturns`, `CancelNeverBlocks` |
| `CancelTimeout` | do failures carry the right label and reach the right execution, and do timer threads end? | `FailureNamesItsCause`, `NoCancelLeaks`, `TimerThreadsEnd` |
| `Statements` | does a statement run what was prepared, with the data sent, and know its cursor, whatever ends it? | `DataReachesItsParameter`, `ExecuteRunsPreparedText`, `CursorOpenMatchesBackend`, `PositionInCurrentRow`, `EndTranLeavesNoCursor` |
| `LeftoverStatement` | the finding of section 6; TLC is expected to find the violation | `DataAtExecRunsItsText` |
| `Descriptors` | do refused calls change nothing, do the doors to one field agree, is a copy a copy? | `BindsKeepHalvesTogether`, `DoorsAgree`, `CopyReadsLikeSource`, `RefusalChangesNothing` |
| `Retrieval` | do the parts of a value make up the value, and does the return tell what arrived? | `PartsAssemble`, `ReturnTellsWhatArrived` |
| `Conversions` | does a value survive its way in and out, or is its loss told? | `NumbersSurvive`, `DatetimesSurvive`, `IntervalsSurvive`, `RoutesAgree` |
| `ConnectionSession` | is what was asked for and what is reported what is in force? | `AttributesInForce`, `ConnectsAsAsked`, `ReportedInForce`, `CursorNamesDistinct`, `IsolationFixedInTransaction`, `CatalogHeldUnderResultSet` |
| `Metadata` | do the answers about the data source follow from the arguments, and agree with one another? | `AnswersItsArguments`, `DiagnosticsTellLastCall`, `AnswersAgree`, `TranslationKeepsMarkers`, `TextFits` |

The comment at each property states it in words and names the code. Every
property has a fault in `PROJECT.json`, `mutants`, that makes it fail under its
own run. The type invariants (`TypeOK`, `CallsTypeOK`) are stated for the proofs
and are no run's property.

**Bounds, and why they are enough.**

- `HandleRegistry`: three slots, one address, three generations that a token
  can encode and a counter that goes to seven, as a 32-bit build's counter is
  wider than its half of a token. A slot is used, reused and retired, and there
  is one address so that it is always reused.
- `HandleTable`: nine slots and nine handles issued, eight once a handle has
  been freed; two connections while at most seven are. That is two statements,
  an explicit descriptor that both use, a slot that is reused, and a table that
  fills up inside `SQLAllocHandle`.
- `CallsInFlight`: two threads, four calls, from two connections, one open with
  a statement, one closed with an explicit descriptor. A race needs two threads
  and one call more than there are threads. `CallsReturn`: three calls.
- `CancelTimeout`: two executions, three backend calls with a timer each, one
  SQLCancel. A timer and a cancel of the first execution can both be late for
  the second.
- `Statements`: two statements, interchangeable, three texts with none to two
  markers, one of them with columns, two columns, one piece of data per
  parameter; at most one of the two is in a data-at-execution sequence
  (`OneSequence`), the other may be in any other state.
- `Descriptors`: one statement, one explicit descriptor, record numbers 0 and 1,
  `MaxI16` = 30, a result set without columns and one of three, any three calls.
  A record is written, spoilt and read, or written, copied and compared.
- `Retrieval`: two columns, five rows that hold each kind of value and each way
  of failing, four sets of bindings, changed while there is no row, buffer
  lengths −1, 0, 2 and 4: less than a terminator, just more than one, and a
  value that takes three parts.
- `Conversions`: integers of 3, 4, 5 and 6 bits stand for 8 to 64, so that the
  edges of each width, and the neighbours of those edges, are all inputs to all
  the others; floats reach beyond every integer. The precision, scale and leading
  precision an ARD declares vary where a number or an interval is read; no other
  conversion looks at them. Byte order is little-endian;
  two layouts of one width are told apart for a bit and a tinyint only.
- `ConnectionSession`: three isolation levels of which two are supported, two
  browse keys, two catalogs, two statements, one limit with each of its three
  enforcers, four cursor names of which core generates two, seven connection
  strings, two odbc.ini sections, two sets of SQLConnect arguments. Attributes
  of the connection are varied while it has no statement, and statements exist
  while the connection's attributes are at their defaults, but for the catalog;
  an application that names cursors sets no limit and no isolation level; every
  string is tried on a handle nobody touched, one of them on any.
- `Metadata`: three sources that differ in every respect a source can, six
  objects whose names differ in case and hold metacharacters, arguments varied
  one at a time from three starting points, every SQLTables enumeration, about
  19,000 texts (every escape around and after every kind of quote, comment and
  marker), `MAX_ESCAPE_DEPTH` 2 where the code has 64, seven buffer sizes. A
  call is made with all its arguments from fresh handles, and with few of them
  from handles that have a result set or diagnostics; a call on one handle is
  made while the other has no diagnostics.

`CHECK_DEADLOCK FALSE` stands where a bound on calls, tokens or generations
stops the model, and where every step is bounded by design.

**Fairness.** `EveryCallReturns` assumes that every thread inside a call keeps
being scheduled and that backend calls return, and is stated as that
implication; entering a call is never assumed. A lock is a `Mutex`, which does
not promise fairness between waiters: weak fairness is enough because the
number of calls is bounded. `CancelSpec` assumes it of threads inside
`SQLCancel` only, so any other may sit in the backend for ever with the lock
held. `CancelTimeout`'s `FairSpec` schedules timer threads; no deadline need
ever pass, and callers need not return.

## 4. What is proved

Each theorem holds for every value of the constants that satisfies the named
assumptions of the module it is about. An assumption is either a bound the code
has (a slot index is a number, a generation is at least 1), the type of what a
call may be given, or that `None` is none of the values it is told apart from;
TLC evaluates each of them in the runs. The ones that say more are named below.
The argument is the same everywhere: an inductive invariant `IInv`, of named
parts; one lemma for every action, with a step for every part it can disturb;
and each property as a consequence of `IInv`, or of `IInv` and one step.

`HandleCallsProofs`, of the registry alone, from `SlotsAssumption`:
`RegistryTypeCorrect`, `DeadTokensNeverResolve`, `LiveTokensAreEncodable`,
`TokensAlwaysResolveExactly`, and `ImplementsTokenLifecycle`, that every step of
`RegistrySpec` is one of `TokenLifecycle` or a stutter. The invariant adds
`DeadBelowGeneration` (a dead token's generation is at most its slot's, and
equal only if the slot is retired for good: the saturating add at the counter's
limit would otherwise bring a dead token back) and `LiveEncodable` (a live
slot's generation is one a token can hold). That quotient and remainder are
unique is `QuotientRemainder`, from the axioms of integer arithmetic. The
argument is where the code's order matters: `register` refuses a slot at
`MAX_GENERATION` *before* it raises the generation.

The same module, of the handle tree (`HandleTable`) for every number of
slots and generations and two to four implicit descriptors:
`AllocationsAlwaysOwnedOnce`, `ParentsAlwaysOutliveChildren`,
`OverridesAlwaysUsable`, `AlwaysDieTogether`. `Memory` ties a live slot and the
struct at its address to each other, by the header the struct carries;
`Family` says of every live handle what its parent and its lock group are, and
what a statement may hold as an override: nothing, a live descriptor of its own
group, or a dead one that no application allocated; `Complete` that a statement
has exactly the descriptors it was allocated with. They are stated of a table
value, not of the variables, because `HandleCalls` applies the same results to a
table other threads have changed. `SQLAllocHandle`, which undoes itself when the
registry fills up, is followed one descriptor at a time: `Building` holds after
each of the at most four. `TableAssumption` wants an address for every slot and
one more: the allocator never returns one in use.

The same module, of the calls in flight, for any number of threads and calls and
any set of entry points: `NeverUsedAfterFree`, `ReferencesAlwaysExclusive`,
`WalkAlwaysCoversEnvironment`. `CallsInv` is the table's invariant and, for each
thread, what its place in the call entitles it to: the lock it holds (`Holds`),
the structs its references reach (`Protects`: live, and in a group it holds),
the answer of its check, still true when it acts (`Ready`), and the connections
its walk has still to see (`Walking`). The core is that a call frees, allocates
and writes only in the group of its handle (`Touches`), so that what another
thread's lock protects stays as it was checked. `CallsAssumption` asks for five
slots, which the initial handles take.

`CancelTimeoutProofs`, for any number of executions, backend calls, timers and
threads in SQLCancel: `FailureAlwaysNamesItsCause`, `CancelsNeverLeak`. What a
failure is called is decided in three separate looks at state that others write.
`TokensTellWhy` and `TimersMarkFirst` say that those writes come in an order (a
timer marks its token before it cancels) and are never taken back;
`LabelJustified` that the label follows them.

`StatementMachineProofs`, for any statements, texts, markers and pieces of data:
`DataAlwaysReachesItsParameter`, `ExecuteAlwaysRunsPreparedText`,
`CursorOpenAlwaysMatches`, `PositionAlwaysInCurrentRow`,
`EndTranAlwaysLeavesNoCursor`. All assume `Managed`, a Driver Manager in front:
what goes wrong without one is in section 6. `Good` relates one
statement's fields to what the application and the backend know of it; its
`SentSoFar` follows every parameter of a data-at-execution sequence from
pending, through the buffer, to collected.

`DescriptorsProofs`, for any statements, explicit descriptors, arguments and
result sets: `RefusalsChangeNothing`, `HalvesAlwaysTogether`,
`DoorsAlwaysAgree`, `CopiesAlwaysRead`. `Halves` says more than the property:
until the application touches a descriptor itself no statement has an override,
so SQLBindParameter's two halves go where SQL_RESET_PARAMS looks for them.
`Copied` says what a copy's records are: what its source showed, whether stored
or computed from columns. `CTypeConsistent` is why SQLBindCol, whose page
has no HY021, never answers it; `HeaderAttributeIs` and `HeaderOwnerIs`, that
the two tables of header fields are each other's inverse, why the doors agree.
The arguments of calls are assumed to be of the types of their fields.

`RetrievalProofs`, for any number of columns and any rows, buffers and order of
calls: `PartsAlwaysAssemble`, `ReturnAlwaysTells`. `Assembled` says that
`position` and what was given agree: the parts so far are a beginning of the
value in the current row, as long as `position` says, and the cached rendering
is of that value. `RowsAssumption` says of a value only that its whole digits
are no longer than it is.

`ConversionsProofs`, for any parameters, columns and targets, and any widths of
the integers: `NumbersSurviveAlways`, `DatetimesSurviveAlways`,
`IntervalsSurviveAlways`, `RoutesAgreeAlways`. The invariant `Made`
(`ConversionsMade`) keeps, of each variable, what it was made from; the rest is
about the tables. What a conversion delivers is either the value or a truncation
toward zero (`Kept`), and the state says which (`Delivers`, `SentNumber`). The
hard part is that a value is truncated twice, going in and coming out:
`KeptTwice` shows that dropping a fraction first and digits at a negative scale
afterwards loses what the second alone would lose, which needs that quotient and
remainder are unique (`Quotient`, `Remainder`). `WrappedIs` and `MemoryKeeps` say
that the bits of an integer, of any width and sign, are read as the integer.
`NumberOrText` compares the table for numbers with the one for text row by row:
they accept the same numbers unchanged, though one warns where the other
refuses. Powers of ten and counts of digits are recursive; `PowerOfTenIs` and
`DigitsAreNatural` show by well-foundedness of the naturals that they are
functions with the values meant. Two assumptions are about the code's types:
`ConversionAssumption`, that every integer of the four widths is within the
range of an f32 (64 bits are, by far); `ValueAssumption`, that a buffer holds a
value of its C type, that bytes bound are the image of the type they are
declared as or have another width, and that a column holds one of
`ColumnValue`'s variants, well formed.

`ConnectionSessionProofs`: of one connection `AttributesAlwaysInForce`,
`DirtyAlwaysCovers` and `IsolationNeverMovesInTransaction`, which hold only
together: that `txn_dirty` covers the transaction when a statement opens one
needs the handle and the session to agree on autocommit. `ImplementsSession`
carries these over to the connection with its attributes, statements, names and
strings: every step of `ConnectRequests` is one of `ConnectionSession` or leaves
it alone. Of the whole: `ReportedAlwaysInForce`, `CursorNamesAlwaysDistinct`,
`ConnectsAlwaysAsAsked` and `CatalogAlwaysHeld`. `AttrInv` follows each limit to
where it is enforced, and who set it last (`setter`), because two statements
overwrite each other's at the data source. `NamesInv` needs that a generated
name's number is at most the counter, and `NameAssumption` that generated names
differ, as the code's numbering makes them. That what is granted was asked for
goes by the calls: `CallAsksFor` for one call over what the sequence had before,
since a call's string comes before its file and its file before `request`;
`CredentialFollows` reads off the two keywords of a credential. `AnswersInv` is
what `AnswerConnectsAgain` rests on: `request` holds settings and is `Complete`,
that is, merging it with its data source's file adds nothing, so that the string
answered needs nothing from the file either. The rest is that `Parse` undoes
`ToConnectionString`, for any settings and in whatever order the keywords are
written (`ParseRendered`). `ScanRecursion` and `ScanInduction` make `Closing`,
`Undoubled` and `Parse` functions of a place in the text, reasoned about from
the end of it; a value in braces, each closing brace doubled, is read to its own
end (`Closing` passes over pairs) and comes out as it was (`Undoubled` undoes
`Doubled`), whatever marks are in it.

`MetadataProofs`, for any data sources, objects, types, calls, texts, buffers
and set of functions: `DiagnosticsHold`, `AnswersAlwaysItsArguments`,
`AnswersAlwaysAgree`, `TextAlwaysFits`, `MetadataTyped`,
`PlainTextStaysUnchanged` and `TranslationAlwaysKeepsMarkers`. The assumptions
are `MetadataAssumption` (there are finitely many objects), `LengthAssumption`
(the lengths of names are numbers), `CollationAssumption` (a collation has a
character once), `CatalogAssumption` (an object's names are texts, only its
other columns may lack a value, and the arguments given are texts, NULL or not
terminated) and `DelimiterAssumption` (the marks that delimit identifiers
delimit nothing else: the quotes of `EscapeDialect` are double quotes, or given
by `with_identifier_quotes`, in the crate's tests backquotes and brackets; they
are `q`, `[` and `]` here, never the marks of literals and comments). There is
an invariant for what the calls leave and one for what they tell.

- `RecordsRight` adds to `DiagnosticsTellLastCall` that a queue holds states
  some function lists. Every action goes through `Answers`, so there is one
  lemma for each way a call ends (refused by a check of core's, by the backend,
  with a warning, with success) and one for each function's list of states.
- `AnswersRight` takes the information types one by one: whichever layer
  answers, the shape is the specified one, and the group is consistent because
  each answer derived by core reads what the others read. The bitmap of
  SQL_API_ODBC3_ALL_FUNCTIONS agrees with the array and the single question
  because `FunctionId` is injective and a number is its quotient and remainder
  by 16.
- What a scan of SQLNativeSql computes rests on `ScanRecursion` and
  `ScanInduction`: a scan that always goes on further to the right, and at most
  one beyond the end, is a function and may be reasoned about from the end.
  With them `TranslationEnds` shows that no escape, closed or not, makes
  `translate_escapes` go back or beyond the end of a text, and
  `PlainTextStaysUnchanged` that the pieces of a text without escapes make up
  the text.
- `TranslationAlwaysKeepsMarkers` compares what two scans of two different
  texts come by, an escape's and its translation's, which no invariant of
  either relates. Both are related to a third reading of a text, token by
  token: in each mode (code, or on the way to the token that ends a literal, a
  delimited identifier or a comment) a text leads to a mode and passes markers
  (`End`, `Markers`). `count_params` is the markers passed from code, because
  the skips of the scanner end where the mode returns to code (`CountIs`).
  Joined texts are read one after the other, so a part may be replaced by one
  that is the `Same` to a reader in code. Trimming is such a replacement in a
  text that has no line comment, the one thing that a blank, the line end, can
  end: hence `Uncommented`. So is each escape's translation, of which the
  keyword and braces are read as nothing and the rest is kept (`EscapeKeeps`),
  provided that the translator of what is inside it `Keeps` that too.
  `EscapesWithin` goes up the levels of nesting, and along a text the pieces
  are joined.
- `AnswersItsArguments` compares a call's rows with a second definition of
  them, and needs nothing of the state but the answer; what it takes is about
  the operators. In order: texts are ordered lexicographically by `Rank` and
  values by texts and NULL, so rows are strictly and totally ordered by the
  values in their sort keys, and the number of rows before a row is a
  permutation (`SortsRows`). The keys that each function passes are at the
  columns it is documented to be ordered by (`Ordering`), and no column that
  may not be NULL lacks a value (`ColumnsAlike`). What the backend looks for is
  what is denoted (`AskedIsDenoted`): `escape_pattern_metacharacters` spells
  the identifier character by character, and a pattern that spells an
  identifier is `Like` it and nothing else, by induction from the end of the
  pattern (`SpelledIsLike`). Since each side lists a finite set in some order,
  the rows are as many as the objects.

Model-checked only:

- liveness and `ENABLED`, which the prover cannot treat (`EveryCallReturns`,
  `CancelNeverBlocks`, `TimerThreadsEnd`).

## 5. Plan

The model covers what core decides, and every invariant and action property that
a passing run checks is proved; what is left out is in section 7. Next would be
output parameters and the reports of an execution, as a part of
`StatementMachine` that writes the application's memory.

## 6. Where the documentation and the code differ

Shown by a run: `LeftoverStatement`. After `SQLPrepare`, an `SQLExecDirect` that
needs data at execution leaves the prepared backend statement in place, and the
final `SQLParamData` (`ffi/params.rs:2162`) executes that one with the new
statement's values. (`SQLExecDirect` also sets `param_count` for its own text
while `prepared_sql` stays, `ffi/execute.rs:328`.)

Noted while modelling, with no run of their own; the models do what the code
does.

Handles and attributes:

- the comment on `TOKEN_INDEX_BITS` counts one reuse per generation, and a life
  uses two, one in `register` and one in `unregister`;
- `ConnectionHandle::txn_dirty` is not cleared by `SQLDisconnect`, so it may be
  set with no session;
- the README says `SQLCancel` takes no lock; it takes the connection's, without
  waiting, when that is free;
- `backend.rs:361-363` says `set_max_rows` is never called with 0; a reset calls
  it with 0;
- a limit is kept per statement and offered to the session, so that two
  statements of a connection overwrite each other's at the data source;
- timeouts set after connecting are reported and never reach the backend;
  `SQL_ATTR_ROW_NUMBER` always reads 0.

Connecting:

- `ffi/connect.rs:852-856` promises that odbc.ini never replaces credentials
  the application supplied. A string with UID and PWD and a section with User
  and Password yields all four keys, and `params.user()` and `password()`
  (`connect_params.rs:248-259`) prefer the section's. A DSN given later in a
  browse also overrides values given before it (`connect.rs:711-716`). Both are
  written into `ConnectsAsAsked` as its exceptions, and both occur in its run.

Statements:

- `sql_param_data` documents HY008 for a sequence `SQLCancel` ended; it returns
  HY010;
- without a Driver Manager, finishing a data-at-execution sequence over an open
  cursor replaces the result set and keeps the `SQLGetData` position of the old
  row;
- `close_cursor`'s documentation names three callers with a cursor to close, and
  `SQLEndTran` calls it on any statement that has a backend statement;
- `SQLParamData` never writes output parameters nor turns a zero-row searched
  DML into SQL_NO_DATA (`ffi/params.rs:2184-2207`), as the two other executing
  calls do; the doc comment of `write_output_params` stands on
  `report_params_processed` (`ffi/params.rs:1301-1347`);
- when `write_output_params` fails, `SQLExecDirect` drops the statement it has
  executed (`ffi/execute.rs:372`), while `SQLExecute` has noted the execution
  first (`ffi/execute.rs:906-910`);
- a value sent at execution that does not convert answers SQLSTATEs that
  `SQLParamData`'s table does not list.

Descriptors:

- half a parameter, which `handles/mod.rs:620` calls unreachable, is reached by
  an application that writes the APD or the IPD itself;
- an explicit descriptor's header fields are the descriptor's own, and
  `SQLGetStmtAttr` does not read them (`DoorsAgree` is stated for a statement's
  own descriptors);
- `SQL_DESC_ROWVER` of an IRD answers HYC00 (`types/col_attr.rs:107`), which
  neither `field_access` nor `SQLGetDescField`'s table knows;
- a record number past the IRD's last column answers 07009 where the Returns
  note of `SQLGetDescField` promises SQL_NO_DATA; a negative one on another
  descriptor is taken for 0;
- `SQL_DESC_TYPE` = `SQL_DATETIME` makes the concise type 9, SQL_DATE of ODBC 2;
- `SQLCopyDesc` onto an IPD copies `data_ptr` and leaves the old status
  pointers; `record_from_column` clips lengths though its comment says the copy
  cannot differ; a `SQLSetDescField` that fails still creates the record.

Fetching:

- a bound-column fetch stops at the first column that warns 01S07
  (`ffi/fetch.rs:505`), though `errors.rs:54-57` says that 01S07 is no failure;
  `SQLGetData` of such a column loses its position
  (`ffi/fetch.rs:1306-1309`); a backend's value warning is not collected when
  the write errs, and a cached rendering posts it again with every part;
- `SQLExtendedFetch`'s doc has HY010 for a result set that is not open, which the
  code answers only where there is no statement (else 24000); a null
  `TargetValuePtr` answers success though `ffi/fetch.rs:983-984` says otherwise;
  a call that fails in the middle of a value starts over;
- a date or time read as SQL_C_BINARY is its text, which is refused as input
  (22003); an indicator larger than the bound buffer is silently clamped.

Conversions:

- "25:00:00" is 22018 because `to_time` discards its 22007, against
  `param_convert.rs:1218-1224`; a DECIMAL whose scale equals its precision
  renders longer than precision + 2; an infinity is "inf" as text and
  "Infinity" elsewhere; a time column read as a timestamp has a zero fraction.

Catalog, information and text:

- trimming an escape's body, and the rewriting of a call, can drop the line end
  that closes a comment in it, so that what follows is swallowed
  (`escape.rs:505`, `509`, `591`, against lines 3-5);
- trailing blanks of an identifier argument are not trimmed though
  `catalog_ident.rs:12-16` says so, doubled quotes in a delimited identifier are
  not undoubled, and an ordinary argument of an identifier under
  SQL_ATTR_METADATA_ID is ambiguous without an escape character;
- the SQLTables enumerations pass a backend's SQLSTATE on where the other
  functions answer HY008 or HYT00;
- `SQL_KEYWORDS` and `SQL_MULTIPLE_ACTIVE_TXN` have no shape before connecting
  and are answered with a 32-bit 0.

## 7. Not modelled

- *Environment attributes* (`ffi/env.rs`): a guard on the registry's children
  and two assignments, which a property would only restate.
- *Reports of an execution*: output parameters, SQL_NO_DATA of a searched DML,
  SQL_ATTR_PARAMS_PROCESSED_PTR and SQL_ATTR_PARAM_STATUS_PTR. They write
  application memory and change nothing of a handle.
- *Of the conversions*: float precision, exponents, digits below a nanosecond,
  intervals a backend returns malformed, a SQL_C_NUMERIC of more than one digit
  of scale, the byte order of a GUID.
- *Of the fetches*: splitting a surrogate pair or a UTF-8 sequence at the end of
  a part, cancelling and timing out (which is `CancelTimeout`).
- *Of the catalog*: column widths, integer sort keys other than one digit (they
  are compared as texts of one character), the row position inside a catalog
  result set, saturation of the lengths told in 16 bits, surrogate pairs cut by
  a buffer; the backend's pattern search and the dialect's rewriting functions
  are external and modelled as what the code relies on.
- *Of the descriptors*: SQL_DESC_NAME and the other character fields of an IPD,
  pointer values beyond NULL or not, a SQL_DESC_TYPE or SQL_DESC_CONCISE_TYPE
  that does not fit 16 bits (HY092, as for the fields that are modelled).
- *Of connecting*: the prompter's dialogs, the redaction of secrets in the log;
  a connection string's keywords are one word, its blanks one kind of blank.
- *The Driver Manager's marks* in the tables of SQLSTATEs, which the conformance
  tests read.
- *The setup library, logging, secrets and the macro that generates C entry
  points*: input, output and forwarding, no state that another part reads.

Memory ordering is not modelled: all shared state is behind a mutex or an
`RwLock`, or in atomics read after the lock that orders them. A poisoned lock is
entered by the code as if it were not poisoned, and so it is here.
