-------------------------- MODULE MCDatasourceSync --------------------------
(* Two datasets, one of them pseudonymised, and one sync. *)
EXTENDS DatasourceSync
=============================================================================
