------------------------------ MODULE MCSessions ------------------------------
(* Sessions for TLC: which requests run, and sets up to renaming. *)
EXTENDS Sessions, TLC

Everything == DOMAIN Script \ {"reuse"}
AllRows == {User, Credential, ResetLink, EmailLink} \cup Sessions \cup Tokens
Renaming == Permutations(Requests)
===============================================================================
