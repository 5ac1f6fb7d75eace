---------------------------- MODULE MCSyncSheet ----------------------------
(***************************************************************************)
(* Files that may be under the sheet directory:                           *)
(*   devq    dev/db1/q.sql   sheet "q", database d1                         *)
(*   prodq   prod/db1/q.sql  sheet "q", database not found in prod          *)
(*   r       r.sql           sheet "r", no ENV_NAME and DB_NAME             *)
(*   readme  README.md       no sheet name: the request answers 400         *)
(* The repository holds one of three listings at each sync.              *)
(***************************************************************************)
EXTENDS SyncSheet

MCListings == {<<"devq", "prodq", "r">>, <<"prodq", "devq">>,
               <<"r", "readme">>}
MCSheetName == [f \in {"devq", "prodq", "r", "readme"} |->
                  CASE f \in {"devq", "prodq"} -> "q"
                    [] f = "r" -> "r"
                    [] OTHER -> ""]
MCPathDB == [f \in {"devq", "prodq", "r", "readme"} |->
               IF f = "devq" THEN "d1" ELSE NoDB]
=============================================================================
