------------------------------ MODULE MCBleLive ------------------------------
(* Small instances of BleLive: one or two programs, a handful of ids.      *)
EXTENDS BleLive

OneP == {"p"}
TwoP == {"p", "q"}

=============================================================================
