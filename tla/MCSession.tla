----------------------------- MODULE MCSession -----------------------------
(* Constants for model checking Session: an admin, a second user, two secrets. *)
EXTENDS Session

MCNames == {"ann", "bob"}
MCSecrets == {"old", "new"}
=============================================================================
