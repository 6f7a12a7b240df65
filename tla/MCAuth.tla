------------------------------- MODULE MCAuth -------------------------------
(* Instances of Auth: one request of a visitor beside one of an             *)
(* administrator.                                                           *)
EXTENDS Auth, TLC

CONSTANTS visitor, admin

MCMay == visitor :> {"register", "login", "verify", "logout"}
      @@ admin :> {"newuser", "register", "verify", "block", "unblock", "loginas", "leave"}

Symmetry == Permutations(Users) \cup Permutations(Logins) \cup Permutations(Keys)
            \cup Permutations(Tokens)
=============================================================================
