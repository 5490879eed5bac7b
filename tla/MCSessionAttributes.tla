---- MODULE MCSessionAttributes ----
\* Two statements of one connection; the one limit all three enforcers exist for;
\* values that hold the marks of a connection string, in it and in a file.
EXTENDS ConnectRequests, TLC

MCLimit == {"query_timeout"}
MCConnStored == {"access_mode", "login_timeout"}
MCStmtVaried == {"query_timeout", "cursor_type", "use_bookmarks", "row_number"}
MCName == {"", "C1", "SQL_CURSR0000", "SQL_CURSR0001"}
MCGenerated == <<"SQL_CURSR0000", "SQL_CURSR0001">>

MCWord == {"user", "USER", "uid", "host", "dsn", "driver", "lib", "S", "T", "a", "b", "c", "g", "h", "x", "y"}
MCLower == "USER" :> "user"
MCOdbcIni ==
  <<"S">> :> ("driver" :> <<"lib">> @@ "host" :> <<"h", "}", ";", "user", "=", "b">>)
  @@ <<"T">> :> ("user" :> <<"b">>)
User == <<"user", "=", "a">>
MCTexts == {
  User,
  <<"host", "=", "{", "h", "}", "}", ";", "user", "=", "b", "}">>,
  <<"dsn", "=", "S">>,
  <<"dsn", "=", "S", ";", "user", "=", "c">>,
  <<"dsn", "=", "T", ";", "uid", "=", "c">>,
  <<";", " ", "USER", " ", "=", " ", "a", " ", ";", "user", "=", "b">>,
  <<"x", ";", ";", "=", "y", ";", "host", "=", "{", " ", "g">> }
MCFewTexts == {User \o <<";", "host", "=", "h">>}
MCArgument == { [server |-> <<"S">>, user |-> <<"c">>, authentication |-> <<>>],
                [server |-> <<"none">>, user |-> <<>>, authentication |-> <<"q">>] }
Symmetry == Permutations(Stmt)
====
