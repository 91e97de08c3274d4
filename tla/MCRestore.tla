----------------------------- MODULE MCRestore -----------------------------
(* Two dumps of one PostgreSQL server, one of them sealed, a dump and an    *)
(* archive of a MySQL server, and a backup that pgBackRest keeps.           *)
EXTENDS Restore, TLC

MCDBType == "pg" :> "postgresql" @@ "my" :> "mysql"
MCSource == "b1" :> "pg" @@ "b2" :> "pg" @@ "b3" :> "my" @@ "b4" :> "pg" @@ "b5" :> "pg"
MCForm == "b1" :> "dump" @@ "b2" :> "dump" @@ "b3" :> "archive" @@ "b4" :> "sealed" @@ "b5" :> "nothing"
MCStatus == "b1" :> "success" @@ "b2" :> "success" @@ "b3" :> "success" @@ "b4" :> "success" @@ "b5" :> "failed"
=============================================================================
