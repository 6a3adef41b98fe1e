----------------------------- MODULE TestRunner -----------------------------
(***************************************************************************)
(* frontend/test_runner.go with internal/testrunner: the tests of a spec.  *)
(* RunTests starts one goroutine per test.  Each has BuildKit run the      *)
(* test's steps, one container command after the other, then its file      *)
(* checks; the commands append what they found to an errors file, and the  *)
(* goroutine turns that file into the test's error.                        *)
(*                                                                         *)
(* What a command does is fixed when the tests are written: see Steps and  *)
(* FileChecks.  A text check is one of these outcomes, not a string.       *)
(***************************************************************************)
EXTENDS Naturals, Sequences, FiniteSets

CONSTANTS Tests,        \* spec.Tests and the tests of the target
          Plans         \* what a test may consist of

\* A step: its command and output checks pass, the command exits with an error,
\* an output check fails, or the runner cannot read the step it is to run.
Steps == {"pass", "exit", "badOutput", "unread"}

\* The file checks of a test: there are none, they pass, one fails, or a file
\* cannot be inspected.
FileChecks == {"none", "pass", "bad", "ioError"}

ASSUME TestsAssumption == IsFiniteSet(Tests)

ASSUME PlansAssumption == Plans \subseteq [steps : Seq(Steps), files : FileChecks]

VARIABLES plan,         \* what each test consists of
          skip,         \* DALEC_SKIP_TESTS: false or empty, true, or not a bool
          buildOk,      \* the package under test can be built
          main,         \* where RunTests is
          started,      \* the tests whose goroutine has been started
          at,           \* where each goroutine is
          done,         \* how many steps of each test have run
          output,       \* the errors file of each test
          result,       \* what the function of each goroutine returned
          group,        \* errGroup: the count of the WaitGroup, and errs
          outcome       \* what RunTests returned

vars == <<plan, skip, buildOk, main, started, at, done, output, result, group, outcome>>

Goroutine == {"none", "eval", "read", "add", "finish", "ended"}

Init ==
  /\ plan \in [Tests -> Plans]
  /\ skip \in {"no", "yes", "bad"}
  /\ buildOk \in BOOLEAN
  /\ main = "start"
  /\ started = {}
  /\ at = [t \in Tests |-> "none"]
  /\ done = [t \in Tests |-> 0]
  /\ output = [t \in Tests |-> <<>>]
  /\ result = [t \in Tests |-> "none"]
  /\ group = [count |-> 0, errs |-> <<>>]
  /\ outcome = "none"

-----------------------------------------------------------------------------
\* RunTests, up to its loop: skipping, and building what is tested.  The panic for
\* a client that does not know its frontend image is left out: it ends the process.
Begin ==
  /\ main = "start"
  /\ \/ /\ skip = "bad" \/ (skip # "yes" /\ Tests # {} /\ ~buildOk)
        /\ main' = "returned" /\ outcome' = "error"
     \/ /\ skip = "yes" \/ (skip # "bad" /\ Tests = {})
        /\ main' = "returned" /\ outcome' = "nil"
     \/ /\ skip = "no" /\ Tests # {} /\ buildOk
        /\ main' = "loop" /\ UNCHANGED outcome
  /\ UNCHANGED <<plan, skip, buildOk, started, at, done, output, result, group>>

\* Mutant of Start: the goroutine itself adds to the WaitGroup.
StartUncounted(t) ==
  /\ main = "loop" /\ t \notin started
  /\ started' = started \cup {t}
  /\ at' = [at EXCEPT ![t] = "eval"]
  /\ main' = IF started' = Tests THEN "wait" ELSE "loop"
  /\ group' = IF started = {} THEN [group EXCEPT !.count = @ + 1] ELSE group
  /\ UNCHANGED <<plan, skip, buildOk, done, output, result, outcome>>

\* One turn of the loop: group.Go.  The last turn leads to group.Wait.
Start(t) ==
  /\ main = "loop" /\ t \notin started
  /\ started' = started \cup {t}
  /\ at' = [at EXCEPT ![t] = "eval"]
  /\ main' = IF started' = Tests THEN "wait" ELSE "loop"
  /\ group' = [group EXCEPT !.count = @ + 1]
  /\ UNCHANGED <<plan, skip, buildOk, done, output, result, outcome>>

\* The function of the goroutine returns r.
Returns(t, r) ==
  /\ result' = [result EXCEPT ![t] = r]
  /\ at' = [at EXCEPT ![t] = "add"]

\* Mutant of RunStep: the evaluation goes on after a step that failed.
RunStepGoesOn(t) ==
  /\ at[t] = "eval" /\ done[t] < Len(plan[t].steps)
  /\ done' = [done EXCEPT ![t] = @ + 1]
  /\ UNCHANGED <<plan, skip, buildOk, main, started, at, output, result, group, outcome>>

\* StepCmd in the container of step done[t] + 1.  A step that exits with an error
\* ends the evaluation; any other appends its results, of which there are none
\* if it passed, unless the runner gave up before it ran the command.
RunStep(t) ==
  /\ at[t] = "eval" /\ done[t] < Len(plan[t].steps)
  /\ LET step == plan[t].steps[done[t] + 1] IN
     /\ done' = [done EXCEPT ![t] = @ + 1]
     /\ output' = [output EXCEPT ![t] =
          CASE step = "pass" -> Append(@, {})
            [] step = "badOutput" -> Append(@, {"stepCheck"})
            [] OTHER -> @]
     /\ IF step = "exit" THEN Returns(t, "error") ELSE UNCHANGED <<at, result>>
  /\ UNCHANGED <<plan, skip, buildOk, main, started, group, outcome>>

\* The error that one entry of the errors file adds to errs.  A failed check of a
\* step wraps the nil err of dec.Decode, which gives nil; a file that could not
\* be inspected is listed without a check.
EntryError(entry) == IF entry = "fileCheck" THEN "error" ELSE "nil"

\* Mutant of ErrorsOf: the "null" of a step without results ends the loop.
ErrorsOfToNull(file) ==
  UNION {{EntryError(e) : e \in file[i]} :
           i \in {j \in DOMAIN file : \A k \in 1..j : file[k] # {}}}

\* The loop over the arrays of the errors file.
ErrorsOf(file) == UNION {{EntryError(e) : e \in file[i]} : i \in DOMAIN file}

\* CheckFilesCmd in the container after the last step, if the test has files; it
\* appends only if it found something.  EvalFromState returns.
RunFileChecks(t) ==
  /\ at[t] = "eval" /\ done[t] = Len(plan[t].steps)
  /\ output' = [output EXCEPT ![t] =
       CASE plan[t].files = "bad" -> Append(@, {"fileCheck"})
         [] plan[t].files = "ioError" -> Append(@, {"fileNoCheck"})
         [] OTHER -> @]
  /\ at' = [at EXCEPT ![t] = "read"]
  /\ UNCHANGED <<plan, skip, buildOk, main, started, done, result, group, outcome>>

\* The errors file is read, if there is one, and its errors are joined.
ReadResults(t) ==
  /\ at[t] = "read"
  /\ Returns(t, IF "error" \in ErrorsOf(output[t]) THEN "error" ELSE "nil")
  /\ UNCHANGED <<plan, skip, buildOk, main, started, done, output, group, outcome>>

\* The evaluation fails for another reason, the errors file cannot be read, or the
\* function panics and recovers.
EvalFails(t) ==
  /\ at[t] \in {"eval", "read"}
  /\ Returns(t, "error")
  /\ UNCHANGED <<plan, skip, buildOk, main, started, done, output, group, outcome>>

\* Mutant of AddError: the mutex is not held and a concurrent append is lost.
AddErrorUnlocked(t) ==
  /\ at[t] = "add"
  /\ group' = [group EXCEPT !.errs = IF \E u \in Tests \ {t} : at[u] = "add" THEN @ ELSE Append(@, result[t])]
  /\ at' = [at EXCEPT ![t] = "finish"]
  /\ UNCHANGED <<plan, skip, buildOk, main, started, done, output, result, outcome>>

\* errGroup.Go: the error is appended, with the mutex held.
AddError(t) ==
  /\ at[t] = "add"
  /\ group' = [group EXCEPT !.errs = Append(@, result[t])]
  /\ at' = [at EXCEPT ![t] = "finish"]
  /\ UNCHANGED <<plan, skip, buildOk, main, started, done, output, result, outcome>>

\* Mutant of Finish: an early return skips it.
FinishUnlessError(t) ==
  /\ at[t] = "finish"
  /\ group' = IF result[t] = "error" THEN group ELSE [group EXCEPT !.count = @ - 1]
  /\ at' = [at EXCEPT ![t] = "ended"]
  /\ UNCHANGED <<plan, skip, buildOk, main, started, done, output, result, outcome>>

\* Mutant of Finish: it is called twice.
FinishTwice(t) ==
  /\ at[t] = "finish"
  /\ group' = [group EXCEPT !.count = @ - 2]
  /\ at' = [at EXCEPT ![t] = "ended"]
  /\ UNCHANGED <<plan, skip, buildOk, main, started, done, output, result, outcome>>

\* group.Done, deferred.
Finish(t) ==
  /\ at[t] = "finish"
  /\ group' = [group EXCEPT !.count = @ - 1]
  /\ at' = [at EXCEPT ![t] = "ended"]
  /\ UNCHANGED <<plan, skip, buildOk, main, started, done, output, result, outcome>>

\* errGroup.Wait: the WaitGroup is at zero; the errors are joined and dropped.
Wait ==
  /\ main = "wait" /\ group.count = 0
  /\ outcome' = IF \E i \in DOMAIN group.errs : group.errs[i] = "error" THEN "error" ELSE "nil"
  /\ group' = [group EXCEPT !.errs = <<>>]
  /\ main' = "returned"
  /\ UNCHANGED <<plan, skip, buildOk, started, at, done, output, result>>

Next ==
  \/ Begin
  \/ \E t \in Tests :
       \/ Start(t) \/ RunStep(t) \/ RunFileChecks(t) \/ ReadResults(t)
       \/ EvalFails(t) \/ AddError(t) \/ Finish(t)
  \/ Wait

Spec == Init /\ [][Next]_vars

\* The main goroutine and those of the tests are scheduled, and BuildKit
\* finishes what it runs.
Fairness ==
  /\ WF_vars(Begin) /\ WF_vars(Wait)
  /\ \A t \in Tests :
       /\ WF_vars(Start(t)) /\ WF_vars(AddError(t)) /\ WF_vars(Finish(t))
       /\ WF_vars(RunStep(t)) /\ WF_vars(RunFileChecks(t)) /\ WF_vars(ReadResults(t))

FairSpec == Spec /\ Fairness

-----------------------------------------------------------------------------
\* The values the variables can take; the WaitGroup never goes below zero, which
\* would panic.
TypeOK ==
  /\ plan \in [Tests -> Plans]
  /\ main \in {"start", "loop", "wait", "returned"}
  /\ started \in SUBSET Tests
  /\ at \in [Tests -> Goroutine]
  /\ done \in [Tests -> Nat]
  /\ \A t \in Tests : done[t] <= Len(plan[t].steps)
  /\ output \in [Tests -> Seq(SUBSET {"stepCheck", "fileCheck", "fileNoCheck"})]
  /\ result \in [Tests -> {"none", "nil", "error"}]
  /\ group \in [count : Nat, errs : Seq({"nil", "error"})]
  /\ outcome \in {"none", "nil", "error"}

\* The tests that the WaitGroup waits for.
Active == {t \in Tests : at[t] \in {"eval", "read", "add", "finish"}}

\* The group keeps its books: the WaitGroup counts the goroutines that are running,
\* each from before it starts; a goroutine has a result from the moment its
\* function returns; and until Wait takes them, errs holds an error exactly when
\* a goroutine that has added its result returned one.
GroupInv ==
  /\ \A t \in Tests : at[t] = "none" <=> t \notin started
  /\ \A t \in Tests : result[t] = "none" <=> at[t] \in {"none", "eval", "read"}
  /\ group.count = Cardinality(Active)
  /\ main = "start" => started = {}
  /\ main = "wait" => started = Tests
  /\ main # "returned" =>
       ((\E i \in DOMAIN group.errs : group.errs[i] = "error")
          <=> \E t \in Tests : at[t] \in {"finish", "ended"} /\ result[t] = "error")

\* RunTests returns only when every goroutine has ended, and it returns an error
\* exactly when the function of one of them did: whatever the order in which the
\* tests start and end, no error is lost and none is read too early.
NoErrorLost ==
  main = "returned" /\ started # {} =>
    /\ \A t \in Tests : at[t] = "ended"
    /\ outcome = "error" <=> \E t \in Tests : result[t] = "error"

\* A command that exits with an error, and a file check that fails, make RunTests
\* fail, after whatever other steps and whatever the steps before it reported.
FailureSurfaces ==
  main = "returned" /\ started # {} =>
    \A t \in Tests :
      (\E i \in DOMAIN plan[t].steps : plan[t].steps[i] = "exit") \/ plan[t].files = "bad"
        => outcome = "error"

\* No step of a test runs after one that exited with an error.
StopsAtExit == \A t \in Tests : \A i \in 1..done[t] : plan[t].steps[i] = "exit" => i = done[t]

\* RunTests returns.
RunTestsReturns == <>(main = "returned")

-----------------------------------------------------------------------------
\* "You can run a command in the container and check the stdout and/or stderr of
\* that command": a test one of whose output checks fails makes RunTests fail.
OutputCheckSurfaces ==
  main = "returned" /\ started # {} =>
    \A t \in Tests : (\E i \in 1..done[t] : plan[t].steps[i] = "badOutput") => outcome = "error"
=============================================================================
