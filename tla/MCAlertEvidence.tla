---------------------------- MODULE MCAlertEvidence ----------------------------
(***************************************************************************)
(* Two valid values, one that validation rewrites and one it refuses.      *)
(***************************************************************************)
EXTENDS AlertEvidence, TLC

MCNormal == ("seen" :> "seen") @@ ("other" :> "other") @@ ("odd" :> "other")
===============================================================================
