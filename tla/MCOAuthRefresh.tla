--------------------------- MODULE MCOAuthRefresh ---------------------------
(* Two clients are enough for a race between two refreshes; a third actor,  *)
(* the login, can replace the account under both.                           *)
EXTENDS OAuthRefresh

CONSTANTS c1, c2

=============================================================================
