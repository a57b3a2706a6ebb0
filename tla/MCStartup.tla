------------------------------ MODULE MCStartup ------------------------------
(* Two replicas, and a Store edited between the specs below.  The settings    *)
(* of both runs: without and with the two tables the Store cannot name.      *)
EXTENDS Startup, TLC

CONSTANTS r1, r2

MCNames == {"services", "flows", "media", "sources", "requests"}
MCIds == {"backend1", "backend2"}

Nothing == [type |-> Absent, tables |-> [role \in RoleSet |-> Absent], backends |-> Absent]

S3(id, default) == [id |-> id, type |-> "s3", default |-> default]

(* The example of the README.                                                *)
ReadmeStore ==
  [Nothing EXCEPT !.type = "dynamodb",
     !.tables = [@ EXCEPT !["service"] = "services", !["flow"] = "flows",
                          !["mediaObject"] = "media"],
     !.backends = <<S3("backend1", TRUE)>>]

MCReadme == {ReadmeStore}

(* Two defaults; one backend twice; memory with tables, which are dropped,   *)
(* and a backend that is not s3; a table named like another role's.          *)
MCStores ==
  {ReadmeStore,
   [ReadmeStore EXCEPT !.backends = <<S3("backend1", TRUE), S3("backend2", TRUE)>>],
   [ReadmeStore EXCEPT !.backends = <<S3("backend1", TRUE), S3("backend2", FALSE)>>,
                       !.tables["mediaObject"] = "sources"],
   [ReadmeStore EXCEPT !.type = "memory"]}

(* A Secret that also sets the TAMS_DATABASE_ variables of the two tables.   *)
Secret ==
  [Nothing EXCEPT !.type = "",
     !.tables = [@ EXCEPT !["source"] = "sources", !["flowDeleteRequests"] = "requests"]]

Bare == [arguments |-> Nothing, environment |-> Nothing]

(* Also: a list of backends that is none, and an empty name for a table      *)
(* given as an argument, which counts.                                       *)
MCInvocations ==
  {[Bare EXCEPT !.environment = Secret],
   [Bare EXCEPT !.environment = [Secret EXCEPT !.backends = NotAList]],
   [Bare EXCEPT !.environment = Secret, !.arguments.backends = <<S3("backend2", TRUE)>>,
                !.arguments.tables["flow"] = ""]}

MCNoSettings == {Bare}
=============================================================================
