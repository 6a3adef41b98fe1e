-------------------------- MODULE TestRunnerProofs --------------------------
(***************************************************************************)
(* RunTests loses no test's error and no failing command or file check     *)
(* passes unnoticed, for any finite set of tests and any number of steps   *)
(* in each.                                                                *)
(***************************************************************************)
EXTENDS TestRunner, FiniteSetTheorems, TLAPS

Inv == TypeOK /\ GroupInv /\ NoErrorLost

\* The tests waited for are finitely many.
LEMMA ActiveFinite == IsFiniteSet(Active) /\ Cardinality(Active) \in Nat
<1>1. Active \subseteq Tests
  BY DEF Active
<1> QED
  BY <1>1, TestsAssumption, FS_Subset, FS_CardinalityType

\* Starting a goroutine adds one test to those waited for.
LEMMA ActiveStart ==
  ASSUME NEW t \in Tests, TypeOK, at[t] = "none", at' = [at EXCEPT ![t] = "eval"]
  PROVE  Cardinality(Active') = Cardinality(Active) + 1
<1>1. Active' = Active \cup {t} /\ t \notin Active
  BY DEF Active, TypeOK
<1> QED
  BY <1>1, ActiveFinite, FS_AddElement

\* group.Done takes one away.
LEMMA ActiveFinish ==
  ASSUME NEW t \in Tests, TypeOK, at[t] = "finish", at' = [at EXCEPT ![t] = "ended"]
  PROVE  Cardinality(Active') = Cardinality(Active) - 1 /\ Cardinality(Active') \in Nat
<1>1. Active' = Active \ {t} /\ t \in Active
  BY DEF Active, TypeOK
<1>2. IsFiniteSet(Active \ {t}) /\ Cardinality(Active \ {t}) = Cardinality(Active) - 1
  BY <1>1, ActiveFinite, FS_RemoveElement
<1> QED
  BY <1>1, <1>2, FS_CardinalityType

\* In between, a goroutine that moves on is still waited for.
LEMMA ActiveSame ==
  ASSUME NEW t \in Tests, NEW s \in {"eval", "read", "add", "finish"}, TypeOK,
         at[t] \in {"eval", "read", "add", "finish"}, at' = [at EXCEPT ![t] = s]
  PROVE  Active' = Active
BY DEF Active, TypeOK

\* Two places of a goroutine that GroupInv does not tell apart.
LikeFor(x, y) ==
  /\ x = "none" <=> y = "none"
  /\ x \in {"none", "eval", "read"} <=> y \in {"none", "eval", "read"}
  /\ x \in {"finish", "ended"} <=> y \in {"finish", "ended"}

\* A goroutine that has ended counts for the group as one that is about to end.
LEMMA EndedLike ==
  ASSUME NEW x, NEW y, x = y \/ (x = "ended" /\ y = "finish")
  PROVE  LikeFor(x, y)
<1>1. CASE x = y
  BY <1>1 DEF LikeFor
<1>2. CASE x = "ended" /\ y = "finish"
  BY <1>2 DEF LikeFor
<1> QED
  BY <1>1, <1>2

LEMMA InitInv == Init => Inv
<1> SUFFICES ASSUME Init PROVE Inv
  OBVIOUS
<1>1. Active = {}
  BY DEF Init, Active
<1>2. GroupInv
  BY <1>1, FS_EmptySet DEF Init, GroupInv
<1>3. TypeOK
  <2>1. \A t \in Tests : Len(plan[t].steps) \in Nat
    BY PlansAssumption DEF Init
  <2> QED
    BY <2>1 DEF Init, TypeOK, Goroutine
<1> QED
  BY <1>2, <1>3 DEF Init, Inv, NoErrorLost

\* Every step keeps the variables in their types and the group's books right.
LEMMA StepInv == Inv /\ [Next]_vars => Inv'
<1> SUFFICES ASSUME Inv, [Next]_vars PROVE Inv'
  OBVIOUS
<1> USE DEF Inv
<1>t. \A t \in Tests : plan[t].steps \in Seq(Steps) /\ Len(plan[t].steps) \in Nat
  BY PlansAssumption DEF TypeOK
<1>1. CASE Begin
  <2>1. Active' = Active
    BY <1>1 DEF Begin, Active
  <2>2. TypeOK'
    BY <1>1 DEF Begin, TypeOK
  <2>3. GroupInv'
    BY <1>1, <2>1 DEF Begin, GroupInv, TypeOK
  <2>4. NoErrorLost'
    BY <1>1 DEF Begin, GroupInv, NoErrorLost
  <2> QED
    BY <2>2, <2>3, <2>4
<1>2. ASSUME NEW t \in Tests, Start(t) PROVE Inv'
  <2>1. Cardinality(Active') = Cardinality(Active) + 1
    BY <1>2, ActiveStart DEF Start, GroupInv
  <2>2. TypeOK'
    <3>1. group' \in [count : Nat, errs : Seq({"nil", "error"})]
      <4>1. group' = [group EXCEPT !.count = group.count + 1] /\ group.count + 1 \in Nat
        BY <1>2 DEF Start, TypeOK
      <4> QED
        BY <4>1 DEF TypeOK
    <3>2. at' \in [Tests -> Goroutine]
      BY <1>2 DEF Start, TypeOK, Goroutine
    <3> QED
      BY <1>2, <3>1, <3>2 DEF Start, TypeOK
  <2>3. GroupInv'
    <3>1. group'.count = Cardinality(Active')
      BY <1>2, <2>1 DEF Start, GroupInv, TypeOK
    <3>2. \A u \in Tests : at'[u] = "none" <=> u \notin started'
      BY <1>2 DEF Start, GroupInv, TypeOK
    <3>3. \A u \in Tests : result'[u] = "none" <=> at'[u] \in {"none", "eval", "read"}
      BY <1>2 DEF Start, GroupInv, TypeOK
    <3>4. group'.errs = group.errs /\ main' # "start" /\ (main' = "wait" => started' = Tests)
      BY <1>2 DEF Start, TypeOK
    <3>5. \A u \in Tests : (at'[u] \in {"finish", "ended"} /\ result'[u] = "error")
                             <=> (at[u] \in {"finish", "ended"} /\ result[u] = "error")
      BY <1>2 DEF Start, GroupInv, TypeOK
    <3> QED
      BY <1>2, <3>1, <3>2, <3>3, <3>4, <3>5 DEF Start, GroupInv
  <2>4. NoErrorLost'
    BY <1>2 DEF Start, NoErrorLost
  <2> QED
    BY <2>2, <2>3, <2>4
\* The function of a goroutine returns: nothing is added to errs yet.
<1>r. ASSUME NEW t \in Tests, NEW r \in {"nil", "error"}, at[t] \in {"eval", "read"}, Returns(t, r),
             UNCHANGED <<main, started, group, outcome>>
      PROVE  GroupInv' /\ NoErrorLost' /\ at' \in [Tests -> Goroutine]
             /\ result' \in [Tests -> {"none", "nil", "error"}]
  <2>1. Active' = Active
    BY <1>r, ActiveSame DEF Returns
  <2>2. GroupInv'
    BY <1>r, <2>1 DEF Returns, GroupInv, TypeOK
  <2> QED
    BY <1>r, <2>2 DEF Returns, NoErrorLost, TypeOK, Goroutine
<1>3. ASSUME NEW t \in Tests, RunStep(t) PROVE Inv'
  <2>d. /\ done' \in [Tests -> Nat]
        /\ \A u \in Tests : done'[u] <= Len(plan[u].steps)
    <3>1. done[t] + 1 \in Nat /\ done[t] + 1 <= Len(plan[t].steps)
      BY <1>3, <1>t DEF RunStep, TypeOK
    <3>2. done' = [done EXCEPT ![t] = done[t] + 1]
      BY <1>3 DEF RunStep
    <3> QED
      BY <3>1, <3>2 DEF TypeOK
  <2>o. output' \in [Tests -> Seq(SUBSET {"stepCheck", "fileCheck", "fileNoCheck"})]
    <3>1. PICK o \in {output[t], Append(output[t], {}), Append(output[t], {"stepCheck"})} :
            output' = [output EXCEPT ![t] = o]
      BY <1>3, Zenon DEF RunStep
    <3>2. o \in Seq(SUBSET {"stepCheck", "fileCheck", "fileNoCheck"})
      <4>1. output[t] \in Seq(SUBSET {"stepCheck", "fileCheck", "fileNoCheck"})
        BY DEF TypeOK
      <4>2. ASSUME NEW S, NEW q \in Seq(S), NEW e \in S
            PROVE  Append(q, e) \in Seq(S)
        OBVIOUS
      <4>3. /\ {} \in SUBSET {"stepCheck", "fileCheck", "fileNoCheck"}
            /\ {"stepCheck"} \in SUBSET {"stepCheck", "fileCheck", "fileNoCheck"}
        OBVIOUS
      <4> QED
        BY <3>1, <4>1, <4>2, <4>3, Zenon
    <3> HIDE DEF Inv
    <3>3. output \in [Tests -> Seq(SUBSET {"stepCheck", "fileCheck", "fileNoCheck"})]
      BY DEF Inv, TypeOK
    <3> QED
      BY <3>1, <3>2, <3>3, Zenon
  <2>1. CASE plan[t].steps[done[t] + 1] = "exit"
    <3>1. Returns(t, "error")
      BY <1>3, <2>1 DEF RunStep
    <3>2. UNCHANGED <<plan, main, started, group, outcome>> /\ at[t] = "eval"
      BY <1>3 DEF RunStep
    <3>3. /\ GroupInv' /\ NoErrorLost' /\ at' \in [Tests -> Goroutine]
          /\ result' \in [Tests -> {"none", "nil", "error"}]
      BY <1>r, <3>1, <3>2
    <3> QED
      BY <2>d, <2>o, <3>2, <3>3 DEF TypeOK
  <2>2. CASE plan[t].steps[done[t] + 1] # "exit"
    <3>1. UNCHANGED <<at, result, main, started, group, outcome, plan>>
      BY <1>3, <2>2 DEF RunStep
    <3>2. Active' = Active
      BY <3>1 DEF Active
    <3>3. GroupInv' /\ NoErrorLost'
      BY <3>1, <3>2 DEF GroupInv, NoErrorLost
    <3> QED
      BY <2>d, <2>o, <3>1, <3>3 DEF TypeOK
  <2> QED
    BY <2>1, <2>2
<1>4. ASSUME NEW t \in Tests, ReadResults(t) PROVE Inv'
  <2>1. PICK r \in {"nil", "error"} : Returns(t, r)
    BY <1>4 DEF ReadResults
  <2> QED
    BY <1>4, <1>r, <2>1 DEF ReadResults, TypeOK
<1>10. ASSUME NEW t \in Tests, RunFileChecks(t) PROVE Inv'
  <2>1. Active' = Active
    BY <1>10, ActiveSame DEF RunFileChecks
  <2>2. TypeOK'
    BY <1>10 DEF RunFileChecks, TypeOK, Goroutine
  <2>3. GroupInv'
    BY <1>10, <2>1 DEF RunFileChecks, GroupInv, TypeOK
  <2>4. NoErrorLost'
    BY <1>10 DEF RunFileChecks, NoErrorLost, TypeOK
  <2> QED
    BY <2>2, <2>3, <2>4
<1>5. ASSUME NEW t \in Tests, EvalFails(t) PROVE Inv'
  BY <1>5, <1>r DEF EvalFails, TypeOK
<1>6. ASSUME NEW t \in Tests, AddError(t) PROVE Inv'
  <2>1. Active' = Active
    BY <1>6, ActiveSame DEF AddError
  <2>2. result[t] \in {"nil", "error"}
    BY <1>6 DEF AddError, GroupInv, TypeOK
  <2>e. group.errs \in Seq({"nil", "error"}) /\ group'.errs = Append(group.errs, result[t])
    BY <1>6 DEF AddError, TypeOK
  <2>3. TypeOK'
    <3>1. group'.errs \in Seq({"nil", "error"})
      BY <2>2, <2>e
    <3>2. group' = [count |-> group.count, errs |-> group'.errs]
      BY <1>6 DEF AddError, TypeOK
    <3>3. group' \in [count : Nat, errs : Seq({"nil", "error"})]
      BY <3>1, <3>2 DEF TypeOK
    <3> QED
      BY <1>6, <3>3 DEF AddError, TypeOK, Goroutine
  <2>4. (\E i \in DOMAIN group'.errs : group'.errs[i] = "error")
          <=> (\E i \in DOMAIN group.errs : group.errs[i] = "error") \/ result[t] = "error"
    <3> DEFINE e == group.errs
    <3>1. /\ e \in Seq({"nil", "error"})
          /\ DOMAIN Append(e, result[t]) = 1..(Len(e) + 1)
          /\ Append(e, result[t])[Len(e) + 1] = result[t]
          /\ \A i \in 1..Len(e) : Append(e, result[t])[i] = e[i]
      BY <2>2, <2>e
    <3>2. Len(e) \in Nat /\ DOMAIN e = 1..Len(e)
      BY <3>1
    <3> HIDE DEF e
    <3>3. (\E i \in DOMAIN Append(e, result[t]) : Append(e, result[t])[i] = "error")
            <=> (\E i \in DOMAIN e : e[i] = "error") \/ result[t] = "error"
      BY <3>1, <3>2
    <3> QED
      BY <2>e, <3>3 DEF e
  <2>5. (\E u \in Tests : at'[u] \in {"finish", "ended"} /\ result'[u] = "error")
          <=> (\E u \in Tests : at[u] \in {"finish", "ended"} /\ result[u] = "error") \/ result[t] = "error"
    BY <1>6 DEF AddError, TypeOK
  <2>6. GroupInv'
    BY <1>6, <2>1, <2>4, <2>5 DEF AddError, GroupInv, TypeOK
  <2>7. NoErrorLost'
    BY <1>6 DEF AddError, NoErrorLost, GroupInv, TypeOK
  <2> QED
    BY <2>3, <2>6, <2>7
<1>7. ASSUME NEW t \in Tests, Finish(t) PROVE Inv'
  <2>1. Cardinality(Active') = Cardinality(Active) - 1 /\ Cardinality(Active') \in Nat
    BY <1>7, ActiveFinish DEF Finish
  <2>2. TypeOK'
    BY <1>7, <2>1 DEF Finish, TypeOK, Goroutine, GroupInv
  <2>3. group'.count = Cardinality(Active') /\ group'.errs = group.errs
    BY <1>7, <2>1 DEF Finish, TypeOK, GroupInv
  <2>4. GroupInv'
    <3>1. /\ at' = [at EXCEPT ![t] = "ended"] /\ at[t] = "finish"
          /\ UNCHANGED <<result, main, started>>
      BY <1>7 DEF Finish
    <3>at. at \in [Tests -> Goroutine]
      BY DEF TypeOK
    <3>2. \A u \in Tests : at'[u] = at[u] \/ (at'[u] = "ended" /\ at[u] = "finish")
      BY <3>1, <3>at, Zenon
    <3>3. \A u \in Tests : LikeFor(at'[u], at[u])
      BY <3>2, EndedLike, Zenon
    <3> QED
      BY <2>3, <3>1, <3>3 DEF GroupInv, LikeFor
  <2>5. NoErrorLost'
    BY <1>7 DEF Finish, NoErrorLost, GroupInv, TypeOK
  <2> QED
    BY <2>2, <2>4, <2>5
<1>8. CASE Wait
  <2>1. Active' = Active
    BY <1>8 DEF Wait, Active
  <2>2. Active = {}
    BY <1>8, ActiveFinite, FS_EmptySet DEF Wait, GroupInv
  <2>3. \A t \in Tests : at[t] = "ended"
    BY <1>8, <2>2 DEF Wait, Active, GroupInv, TypeOK, Goroutine
  <2>4. TypeOK'
    <3>1. group' = [count |-> group.count, errs |-> <<>>]
      BY <1>8 DEF Wait, TypeOK
    <3>2. group' \in [count : Nat, errs : Seq({"nil", "error"})]
      BY <3>1 DEF TypeOK
    <3> QED
      BY <1>8, <3>2 DEF Wait, TypeOK
  <2>5. GroupInv'
    BY <1>8, <2>1 DEF Wait, GroupInv, TypeOK
  <2>6. NoErrorLost'
    BY <1>8, <2>3 DEF Wait, NoErrorLost, GroupInv
  <2> QED
    BY <2>4, <2>5, <2>6
<1>9. CASE UNCHANGED vars
  <2>1. Active' = Active
    BY <1>9 DEF vars, Active
  <2> QED
    BY <1>9, <2>1 DEF vars, TypeOK, GroupInv, NoErrorLost
<1> QED
  BY <1>1, <1>2, <1>3, <1>4, <1>5, <1>6, <1>7, <1>8, <1>9, <1>10 DEF Next

\* The types, the WaitGroup's count and the errors collected are right in every
\* reachable state of RunTests.
THEOREM GroupCorrect == Spec => [](TypeOK /\ GroupInv)
<1>1. Inv => TypeOK /\ GroupInv
  BY DEF Inv
<1> QED
  BY <1>1, InitInv, StepInv, PTL DEF Spec

\* Every variable of RunTests keeps its type; above all the WaitGroup never goes
\* below zero, which would panic.
THEOREM TypeCorrect == Spec => []TypeOK
BY GroupCorrect, PTL

\* errGroup loses no error and does not return early: RunTests fails exactly when
\* one of its goroutines did, after all of them have ended.
THEOREM ErrorsAllReported == Spec => []NoErrorLost
<1>1. Inv => NoErrorLost
  BY DEF Inv
<1> QED
  BY <1>1, InitInv, StepInv, PTL DEF Spec

-----------------------------------------------------------------------------
\* What one test has behind it.  A step that exited with an error was the last one,
\* and made the function return an error.  The errors file is read after the
\* last step, with a failed file check in it; so only a test without such steps
\* and checks returns nil.
TestInv(t) ==
  /\ \A i \in 1..done[t] : plan[t].steps[i] = "exit" => i = done[t] /\ result[t] = "error"
  /\ at[t] = "read" =>
       /\ done[t] = Len(plan[t].steps)
       /\ plan[t].files = "bad" => \E i \in DOMAIN output[t] : "fileCheck" \in output[t][i]
  /\ result[t] = "nil" => done[t] = Len(plan[t].steps) /\ plan[t].files # "bad"

TestsInv == \A t \in Tests : TestInv(t)

\* A step of the main goroutine, and the bookkeeping of errGroup, leave a test's
\* own progress alone.
LEMMA TestUntouched ==
  ASSUME NEW t \in Tests, TestInv(t), plan' = plan, done'[t] = done[t], output'[t] = output[t],
         result'[t] = result[t], at'[t] = at[t] \/ at'[t] # "read"
  PROVE  TestInv(t)'
BY DEF TestInv

LEMMA InitTests == Init => TestsInv
BY DEF Init, TestsInv, TestInv

\* Every step of RunTests keeps every test's history right.
LEMMA StepTests == TypeOK /\ GroupInv /\ TestsInv /\ [Next]_vars => TestsInv'
<1> SUFFICES ASSUME TypeOK, GroupInv, TestsInv, [Next]_vars PROVE TestsInv'
  OBVIOUS
<1>t. \A t \in Tests : TestInv(t)
  BY DEF TestsInv
<1>s. \A t \in Tests : plan[t].steps \in Seq(Steps) /\ Len(plan[t].steps) \in Nat /\ done[t] \in 0..Len(plan[t].steps)
  BY PlansAssumption DEF TypeOK
<1>1. CASE Begin \/ Wait \/ UNCHANGED vars
  <2>1. UNCHANGED <<plan, at, done, output, result>>
    BY <1>1 DEF Begin, Wait, vars
  <2> QED
    BY <1>t, <2>1, TestUntouched DEF TestsInv
<1>2. ASSUME NEW t \in Tests, Start(t) \/ AddError(t) \/ Finish(t) PROVE TestsInv'
  <2>1. /\ UNCHANGED <<plan, done, output, result>>
        /\ \A u \in Tests : at'[u] = at[u] \/ at'[u] # "read"
    BY <1>2 DEF Start, AddError, Finish, TypeOK
  <2> QED
    BY <1>t, <2>1, TestUntouched DEF TestsInv
<1>3. ASSUME NEW t \in Tests, RunStep(t) PROVE TestsInv'
  <2> DEFINE step == plan[t].steps[done[t] + 1]
  <2>1. /\ plan' = plan /\ at[t] = "eval" /\ done[t] < Len(plan[t].steps)
        /\ done' = [done EXCEPT ![t] = done[t] + 1]
        /\ \A u \in Tests \ {t} : done'[u] = done[u] /\ output'[u] = output[u]
    BY <1>3 DEF RunStep, TypeOK, TestsInv
  <2>2. step \in Steps /\ result[t] = "none"
    BY <1>s, <2>1 DEF GroupInv
  <2>4. CASE step = "exit"
    <3>1. Returns(t, "error")
      BY <1>3, <2>4 DEF RunStep
    <3>2. \A u \in Tests \ {t} : TestInv(u)'
      <4> SUFFICES ASSUME NEW u \in Tests \ {t} PROVE TestInv(u)'
        OBVIOUS
      <4>1. result'[u] = result[u] /\ at'[u] = at[u]
        BY <3>1 DEF Returns, TypeOK
      <4> QED
        BY <1>t, <2>1, <4>1, TestUntouched
    <3>3. TestInv(t)'
      <4>1. result'[t] = "error" /\ at'[t] = "add"
        BY <3>1 DEF Returns, TypeOK
      <4>2. done'[t] = done[t] + 1
        BY <2>1, <2>2, <1>3 DEF RunStep, TypeOK
      <4>3. \A i \in 1..done[t] : plan[t].steps[i] # "exit"
        BY <1>t, <2>2 DEF TestInv
      <4>4. \A i \in 1..(done[t] + 1) : i \in 1..done[t] \/ i = done[t] + 1
        BY <1>s
      <4> QED
        BY <2>1, <4>1, <4>2, <4>3, <4>4 DEF TestInv
    <3> QED
      BY <3>2, <3>3 DEF TestsInv
  <2>5. CASE step # "exit"
    <3>1. UNCHANGED <<at, result>>
      BY <1>3, <2>5 DEF RunStep
    <3>2. \A u \in Tests \ {t} : TestInv(u)'
      BY <1>t, <2>1, <3>1, TestUntouched
    <3>3. TestInv(t)'
      BY <1>t, <1>s, <2>1, <2>2, <2>5, <3>1, SMTT(20) DEF TestInv
    <3> QED
      BY <3>2, <3>3 DEF TestsInv
  <2> QED
    BY <2>4, <2>5
<1>4. ASSUME NEW t \in Tests, RunFileChecks(t) PROVE TestsInv'
  <2>1. /\ UNCHANGED <<plan, done, result>> /\ at[t] = "eval" /\ done[t] = Len(plan[t].steps)
        /\ \A u \in Tests \ {t} : at'[u] = at[u] /\ output'[u] = output[u]
    BY <1>4 DEF RunFileChecks, TypeOK
  <2>2. \A u \in Tests \ {t} : TestInv(u)'
    BY <1>t, <2>1, TestUntouched
  <2>3. plan[t].files = "bad" => \E i \in DOMAIN output'[t] : "fileCheck" \in output'[t][i]
    <3> SUFFICES ASSUME plan[t].files = "bad" PROVE \E i \in DOMAIN output'[t] : "fileCheck" \in output'[t][i]
      OBVIOUS
    <3>1. output'[t] = Append(output[t], {"fileCheck"})
      BY <1>4 DEF RunFileChecks, TypeOK
    <3>2. /\ Len(output[t]) + 1 \in DOMAIN Append(output[t], {"fileCheck"})
          /\ Append(output[t], {"fileCheck"})[Len(output[t]) + 1] = {"fileCheck"}
      BY DEF TypeOK
    <3> QED
      BY <3>1, <3>2
  <2>4. TestInv(t)'
    <3>1. result[t] = "none"
      BY <2>1 DEF GroupInv
    <3> QED
      BY <1>t, <2>1, <2>3, <3>1 DEF TestInv
  <2> QED
    BY <2>2, <2>4 DEF TestsInv
\* The function of a goroutine returns without having run another step.
<1>r. ASSUME NEW t \in Tests, NEW r \in {"nil", "error"}, at[t] \in {"eval", "read"}, Returns(t, r),
             UNCHANGED <<plan, done, output>>,
             r = "nil" => done[t] = Len(plan[t].steps) /\ plan[t].files # "bad"
      PROVE  TestsInv'
  <2>1. /\ result'[t] = r /\ at'[t] = "add"
        /\ \A u \in Tests \ {t} : at'[u] = at[u] /\ result'[u] = result[u]
    BY <1>r DEF Returns, TypeOK
  <2>2. \A u \in Tests \ {t} : TestInv(u)'
    BY <1>t, <1>r, <2>1, TestUntouched
  <2>3. result[t] = "none"
    BY <1>r DEF GroupInv
  <2>4. TestInv(t)'
    BY <1>t, <1>r, <2>1, <2>3 DEF TestInv
  <2> QED
    BY <2>2, <2>4 DEF TestsInv
<1>5. ASSUME NEW t \in Tests, ReadResults(t) PROVE TestsInv'
  <2>1. PICK r \in {"nil", "error"} : Returns(t, r) /\ (r = "nil" => "error" \notin ErrorsOf(output[t]))
    BY <1>5 DEF ReadResults
  <2>2. "error" \notin ErrorsOf(output[t]) => \A i \in DOMAIN output[t] : "fileCheck" \notin output[t][i]
    BY DEF ErrorsOf, EntryError
  <2>3. r = "nil" => done[t] = Len(plan[t].steps) /\ plan[t].files # "bad"
    BY <1>5, <1>t, <2>1, <2>2 DEF ReadResults, TestInv
  <2> QED
    BY <1>5, <1>r, <2>1, <2>3 DEF ReadResults
<1>6. ASSUME NEW t \in Tests, EvalFails(t) PROVE TestsInv'
  BY <1>6, <1>r DEF EvalFails
<1> QED
  BY <1>1, <1>2, <1>3, <1>4, <1>5, <1>6 DEF Next

\* Every reachable state has every test's history right.
LEMMA TestsCorrect == Spec => []TestsInv
BY InitTests, StepTests, GroupCorrect, PTL DEF Spec

\* No step of a test runs after one whose command exited with an error, whatever
\* the other tests do meanwhile.
THEOREM ExitEndsTest == Spec => []StopsAtExit
<1>1. TestsInv => StopsAtExit
  BY DEF TestsInv, TestInv, StopsAtExit
<1> QED
  BY <1>1, TestsCorrect, PTL

\* A command that exits with an error, and a file check that fails, make RunTests
\* fail, for any tests with any steps.
THEOREM FailuresReported == Spec => []FailureSurfaces
<1>1. TypeOK /\ GroupInv /\ TestsInv /\ NoErrorLost => FailureSurfaces
  <2> SUFFICES ASSUME TypeOK, GroupInv, TestsInv, NoErrorLost, main = "returned", started # {},
                      NEW t \in Tests, outcome # "error"
               PROVE  /\ \A i \in DOMAIN plan[t].steps : plan[t].steps[i] # "exit"
                      /\ plan[t].files # "bad"
    BY DEF FailureSurfaces
  <2>1. result[t] = "nil"
    BY DEF NoErrorLost, GroupInv, TypeOK
  <2>2. DOMAIN plan[t].steps = 1..Len(plan[t].steps)
    BY PlansAssumption DEF TypeOK
  <2> QED
    BY <2>1, <2>2 DEF TestsInv, TestInv
<1> QED
  BY <1>1, TestsCorrect, GroupCorrect, ErrorsAllReported, PTL
=============================================================================
