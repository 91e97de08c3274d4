------------------------ MODULE MCIncrementalEngines ------------------------
(* Two PostgreSQL servers whose names come out as the same stanza, two     *)
(* with the same name, and a MySQL server.                                 *)
EXTENDS IncrementalEngines, TLC

MCName == "pg1" :> <<"a", ".">> @@ "pg2" :> <<"a", " ", "?">> @@ "pg3" :> <<"b">> @@ "pg4" :> <<"b">> @@ "my" :> <<"b">>
MCDBType == "pg1" :> "postgresql" @@ "pg2" :> "postgresql" @@ "pg3" :> "postgresql" @@ "pg4" :> "postgresql" @@ "my" :> "mysql"

\* Three runs of one server; two of a server and one of its namesake;
\* namesakes and a stranger; the same name twice, next to a MySQL server.
MCPlans == {<<"pg1", "pg1", "pg1">>, <<"pg1", "pg1", "pg2">>,
            <<"pg1", "pg2", "pg3">>, <<"pg3", "pg4", "my">>}
=============================================================================
