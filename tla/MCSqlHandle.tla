----------------------------- MODULE MCSqlHandle -----------------------------
(***************************************************************************)
(* The instance of SqlHandle for TLC.                                      *)
(***************************************************************************)
EXTENDS SqlHandle

\* database/sql asks for a connection again twice, and then for a new one.
maxBadConnRetries == 2
=============================================================================
