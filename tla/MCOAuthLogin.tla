----------------------------- MODULE MCOAuthLogin -----------------------------
(* Logins of one account, or of an account each. *)
EXTENDS OAuthLogin

OneAccount == [s \in Logins |-> "account"]
TwoAccounts == [s \in Logins |-> s]

=============================================================================
