-------------------------- MODULE MCEmailIngestion --------------------------
(* Three mails: one that passes, and two whose SPF or DKIM verdict fails.  *)
EXTENDS EmailIngestion, TLC

CONSTANTS good, forwarded, forged

ThreeFailed == good :> {} @@ forwarded :> {"spf"} @@ forged :> {"dkim"}
=============================================================================
