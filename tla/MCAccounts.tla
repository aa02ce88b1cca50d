----------------------------- MODULE MCAccounts -----------------------------
(* Accounts for TLC: two spellings of one name, a name that is too short, and a
   password that is too short. *)
EXTENDS Accounts

MCNormalize == [s \in Spellings |-> IF s \in {"Ann", "ann "} THEN "ann" ELSE s]
=============================================================================
