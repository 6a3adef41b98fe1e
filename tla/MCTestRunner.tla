---------------------------- MODULE MCTestRunner ----------------------------
(***************************************************************************)
(* Two tests of up to two steps, under every interleaving of their         *)
(* goroutines.  Every step outcome occurs alone with every file check      *)
(* outcome, and before and after another that reports something.           *)
(***************************************************************************)
EXTENDS TestRunner

CONSTANTS t1, t2

MCTests == {t1, t2}

MCPlans ==
  [steps : {<<>>} \cup {<<s>> : s \in Steps}, files : FileChecks]
  \cup [steps : {<<"exit", "pass">>} \cup {"pass", "badOutput"} \X (Steps \ {"unread"}),
        files : {"none", "bad"}]
=============================================================================
