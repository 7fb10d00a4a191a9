---------------------------- MODULE MCDatabase ----------------------------
(* Instance of Database for TLC: two of the four foreign keys of version 4. *)
EXTENDS Database

CONSTANTS v1, v2, r1, r2

TwoKeys == <<"fk_credentials_user", "fk_preferences_user">>
=============================================================================
