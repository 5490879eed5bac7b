---------------------------- MODULE ConnectRequests ----------------------------
(***************************************************************************)
(* The three calls that connect, with the settings they ask for: in one    *)
(* string (SQLDriverConnectW), as arguments (SQLConnectW), or over several *)
(* calls that are remembered between them (SQLBrowseConnectW), each with   *)
(* what odbc.ini has for the data source named.  Around them goes          *)
(* everything CursorNames lets the connection and its statements do.       *)
(* A string that is refused (HY009, HY090) changes nothing.                *)
(***************************************************************************)
EXTENDS CursorNames, ConnectionStrings

CONSTANTS
  Texts,     \* connection strings
  FewTexts,  \* bound: those of a handle whose attributes were set
  Argument   \* what SQLConnectW is given: server, user, authentication

ASSUME TextsAssumption == Texts \cup FewTexts \subseteq Seq(Token)

VARIABLES
  request,  \* browse_request, its settings
  asked,    \* history: what the calls of this sequence asked for themselves
  opened    \* history: the settings of the connect just made and its answer

requestVars == <<request, asked, opened>>

(***************************************************************************)
(* For each keyword the application gave in this sequence of calls: the    *)
(* value it gave last, and the data sources it has named in calls after    *)
(* that one; and all the data sources it has named.                        *)
(***************************************************************************)
NothingAsked == [value |-> NoSettings, later |-> NoSettings, sources |-> {}]
AskedBy(explicit, named, before) ==
  LET all == DOMAIN explicit \cup DOMAIN before.value
      New(k) == k \in DOMAIN explicit
  IN  [value   |-> [k \in all |-> IF New(k) THEN explicit[k] ELSE before.value[k]],
       later   |-> [k \in all |-> IF New(k) THEN {} ELSE before.later[k] \cup named],
       sources |-> before.sources \cup named]
Named(settings) == IF "dsn" \in DOMAIN settings THEN {settings["dsn"]} ELSE {}

RequestInit == NameInit /\ request = NoSettings /\ asked = NothingAsked /\ opened = None

Untouched == Defaults /\ conn.autocommit = None /\ conn.isolation = None /\ attrs.catalog = None
             /\ ~conn.txn_dirty /\ made = 0
Strings == IF Untouched THEN Texts ELSE FewTexts

Opened(settings, answers, browsed) ==
  /\ Opens
  /\ \E answer \in answers :
       opened' = [settings |-> settings, answer |-> answer, browsed |-> browsed]
  /\ request' = NoSettings
Forgotten == request' = NoSettings /\ asked' = NothingAsked /\ opened' = None

-----------------------------------------------------------------------------
\* SQLDriverConnectW answers with the string it was given.
DriverConnect(text) ==
  LET explicit == Parse(text) IN
  /\ Connect /\ Carries /\ NamesFollow
  /\ Opened(MergeDsnParams(explicit), {text}, FALSE)
  /\ asked' = AskedBy(explicit, Named(explicit), NothingAsked)

\* SQLConnectW answers with nothing.
ConnectWith(arguments) ==
  LET explicit == Arguments(arguments.server, arguments.user, arguments.authentication) IN
  /\ Connect /\ Carries /\ NamesFollow
  /\ Opened(Merge(explicit, DsnKeys(arguments.server)), {None}, FALSE)
  /\ asked' = AskedBy(explicit, {arguments.server}, NothingAsked)

(***************************************************************************)
(* SQLBrowseConnectW: the string, then its data source's file, then what   *)
(* the sequence had before.  The answer of the call that connects is the   *)
(* string that would connect the same way.                                 *)
(***************************************************************************)
BrowseConnect(text) ==
  LET explicit == Parse(text)
      merged == Merge(MergeDsnParams(explicit), request)
      orders == SetToSeqs(DOMAIN merged)
  IN
  /\ Browse(DOMAIN merged \cap Key) /\ Carries /\ NamesFollow
  /\ \/ /\ conn'.browse # None
        /\ request' = merged /\ opened' = None
        /\ asked' = AskedBy(explicit, Named(explicit), asked)
     \/ ~conn'.open /\ conn'.browse = None /\ Forgotten
     \/ /\ Opened(merged, {ToConnectionString(merged, order) : order \in orders}, TRUE)
        /\ asked' = AskedBy(explicit, Named(explicit), asked)

\* Every other call; SQLDisconnect before there is a connection ends a browse.
KeepsRequest ==
  /\ NameNext
  /\ IF conn'.browse = None THEN Forgotten ELSE UNCHANGED <<request, asked>> /\ opened' = None

RequestNext ==
  \/ \E text \in Strings : DriverConnect(text) \/ BrowseConnect(text)
  \/ \E arguments \in Argument : ConnectWith(arguments)
  \/ KeepsRequest

RequestSpec == RequestInit /\ [][RequestNext]_<<allVars, nameVars, requestVars>>

-----------------------------------------------------------------------------
Given(ask, k) == IF k \in DOMAIN ask.value THEN {ask.value[k]} ELSE {}

\* A file gives what the application did not, or gave before it named the data source.
FileGives(ask, k) ==
  LET May(d) == /\ k \in DOMAIN DsnKeys(d)
                /\ k \in DOMAIN ask.value => d \in ask.later[k]
  IN  {DsnKeys(d)[k] : d \in {source \in ask.sources : May(source)}}

SettingsAskedFor(settings, ask) ==
  /\ DOMAIN ask.value \subseteq DOMAIN settings
  /\ \A k \in DOMAIN settings : settings[k] \in Given(ask, k) \cup FileGives(ask, k)

\* Of the two keywords of a credential, name is the one that is read first.
CredentialAskedFor(settings, ask, name, alias) ==
  {name, alias} \cap DOMAIN ask.value # {} =>
    \/ Credential(settings, name, alias) = Credential(ask.value, name, alias)
    \/ Credential(settings, name, alias) \in FileGives(ask, name)
    \/ /\ name \notin DOMAIN ask.value
       /\ Credential(settings, name, alias) \in FileGives(ask, alias)

(***************************************************************************)
(* A connection is made with what was asked for.  Every setting is the     *)
(* last the application gave in this call or this browse sequence, or is   *)
(* in the file of a data source this sequence named, nothing being left    *)
(* over from an abandoned one; nothing required is missing when a browse   *)
(* ends; and the string it answers, given to SQLDriverConnectW, connects   *)
(* with the same settings again, whatever marks the values contain.  What  *)
(* the application gave is what the backend gets, with two exceptions, in  *)
(* which a file replaces it, against the comment at connect.rs:852-856:    *)
(*   - the file of a data source named in a LATER call of the browse       *)
(*     sequence than the setting (connect.rs:711-716);                     *)
(*   - a file's User or Password, when the application gave UID or PWD     *)
(*     only (connect_params.rs:248-259): user() and password() read the    *)
(*     file's keyword first.  The other way round a file never wins.       *)
(***************************************************************************)
RequestGranted ==
  opened # None =>
    /\ SettingsAskedFor(opened.settings, asked)
    /\ CredentialAskedFor(opened.settings, asked, "user", "uid")
    /\ CredentialAskedFor(opened.settings, asked, "password", "pwd")
    /\ opened.browsed => Key \subseteq DOMAIN opened.settings

AnswerConnectsAgain ==
  opened # None /\ opened.answer # None =>
    MergeDsnParams(Parse(opened.answer)) = opened.settings

ConnectsAsAsked == RequestGranted /\ AnswerConnectsAgain
=============================================================================
