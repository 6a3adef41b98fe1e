------------------------- MODULE PipeListenerProofs -------------------------
(***************************************************************************)
(* PipeListener for any sets of acceptors, dialers and pipes: ownership of *)
(* the pipes is an inductive invariant; what Close reclaims, that no       *)
(* connection is orphaned, and that pipe.go implements ConnListener follow *)
(* from it.                                                                *)
(***************************************************************************)
EXTENDS PipeListener, TLAPS

\* The zero value of the listener has the type and the ownership invariant.
LEMMA InitInv == Init => TypeOK /\ Ownership
<1> SUFFICES ASSUME Init
             PROVE  TypeOK /\ Ownership
  OBVIOUS
<1>1. TypeOK
  BY DEF Init, TypeOK, AcceptStates, DialStates, FarStates, NearStates
<1>2. Ownership
  BY DEF Init, Ownership
<1> QED
  BY <1>1, <1>2

\* Every call, channel operation and return keeps the values in their types.
LEMMA TypeStep == TypeOK /\ Ownership /\ [Next]_vars => TypeOK'
<1> SUFFICES ASSUME TypeOK, Ownership, [Next]_vars
             PROVE  TypeOK'
  OBVIOUS
<1> USE DEF TypeOK, AcceptStates, DialStates, FarStates, NearStates
<1>1. ASSUME NEW a \in Acceptors, AcceptCall(a)
      PROVE  TypeOK'
  BY <1>1 DEF AcceptCall, MakeChan
<1>2. ASSUME NEW a \in Acceptors, AcceptNil(a)
      PROVE  TypeOK'
  BY <1>2 DEF AcceptNil
<1>3. ASSUME NEW a \in Acceptors, AcceptReturn(a)
      PROVE  TypeOK'
  BY <1>3 DEF AcceptReturn, Ownership
<1>4. ASSUME NEW d \in Dialers, DialRefused(d)
      PROVE  TypeOK'
  BY <1>4 DEF DialRefused
<1>5. ASSUME NEW d \in Dialers, DialCanceled(d)
      PROVE  TypeOK'
  BY <1>5 DEF DialCanceled
<1>6. ASSUME NEW d \in Dialers, DialPanics(d)
      PROVE  TypeOK'
  BY <1>6 DEF DialPanics
<1>7. ASSUME NEW d \in Dialers, DialerHangUp(d)
      PROVE  TypeOK'
  BY <1>7 DEF DialerHangUp
<1>8. ASSUME NEW d \in Dialers, NEW c \in Pipes, DialCall(d, c)
      PROVE  TypeOK'
  BY <1>8 DEF DialCall, MakeChan
<1>9. ASSUME NEW a \in Acceptors, NEW d \in Dialers, HandOff(a, d)
      PROVE  TypeOK'
  BY <1>9 DEF HandOff
<1>10. ASSUME Close
       PROVE  TypeOK'
  BY <1>10 DEF Close
<1>11. ASSUME NEW c \in Pipes, ServerHangUp(c)
       PROVE  TypeOK'
  BY <1>11 DEF ServerHangUp
<1>12. CASE UNCHANGED vars
  BY <1>12 DEF vars
<1> QED
  BY <1>1, <1>2, <1>3, <1>4, <1>5, <1>6, <1>7, <1>8, <1>9, <1>10, <1>11, <1>12 DEF Next

\* Every call, channel operation and return keeps each pipe with its owner.
LEMMA OwnershipStep == TypeOK /\ Ownership /\ [Next]_vars => Ownership'
<1> SUFFICES ASSUME TypeOK, Ownership, [Next]_vars
             PROVE  Ownership'
  OBVIOUS
<1> USE NoPipeAssumption DEF TypeOK, Ownership
<1>1. ASSUME NEW a \in Acceptors, AcceptCall(a)
      PROVE  Ownership'
  BY <1>1 DEF AcceptCall, MakeChan
<1>2. ASSUME NEW a \in Acceptors, AcceptNil(a)
      PROVE  Ownership'
  BY <1>2 DEF AcceptNil
<1>3. ASSUME NEW a \in Acceptors, AcceptReturn(a)
      PROVE  Ownership'
  BY <1>3 DEF AcceptReturn
<1>4. ASSUME NEW d \in Dialers, DialRefused(d)
      PROVE  Ownership'
  BY <1>4 DEF DialRefused
<1>5. ASSUME NEW d \in Dialers, DialCanceled(d)
      PROVE  Ownership'
  BY <1>5 DEF DialCanceled
<1>6. ASSUME NEW d \in Dialers, DialPanics(d)
      PROVE  Ownership'
  BY <1>6 DEF DialPanics
<1>7. ASSUME NEW d \in Dialers, DialerHangUp(d)
      PROVE  Ownership'
  BY <1>7 DEF DialerHangUp
<1>8. ASSUME NEW d \in Dialers, NEW c \in Pipes, DialCall(d, c)
      PROVE  Ownership'
  BY <1>8 DEF DialCall, MakeChan
<1>9. ASSUME NEW a \in Acceptors, NEW d \in Dialers, HandOff(a, d)
      PROVE  Ownership'
  BY <1>9 DEF HandOff
<1>10. ASSUME Close
       PROVE  Ownership'
  BY <1>10 DEF Close
<1>11. ASSUME NEW c \in Pipes, ServerHangUp(c)
       PROVE  Ownership'
  BY <1>11 DEF ServerHangUp
<1>12. CASE UNCHANGED vars
  BY <1>12 DEF vars
<1> QED
  BY <1>1, <1>2, <1>3, <1>4, <1>5, <1>6, <1>7, <1>8, <1>9, <1>10, <1>11, <1>12 DEF Next

\* Each pipe has one owner at a time, from the dialer through one Accept to the
\* server, whatever the number of goroutines and of connections.
THEOREM PipesOwned == Spec => [](TypeOK /\ Ownership)
<1>1. TypeOK /\ Ownership /\ [Next]_vars => TypeOK' /\ Ownership'
  BY TypeStep, OwnershipStep
<1> QED
  BY InitInv, <1>1, PTL DEF Spec

\* Type correctness: pipe.go keeps every variable in its type.
THEOREM TypeCorrect == Spec => []TypeOK
BY PipesOwned, PTL

\* Once Close has run, no connection that Accept returned is still open.
THEOREM CloseReclaimsAll == Spec => []CloseReclaims
<1>1. Ownership => CloseReclaims
  BY DEF Ownership, CloseReclaims
<1> QED
  BY PipesOwned, <1>1, PTL

\* No connection that Dialer returned is lost on its way to the server.
THEOREM NothingOrphaned == Spec => []NoOrphan
<1>1. TypeOK /\ Ownership => NoOrphan
  BY NoPipeAssumption DEF TypeOK, Ownership, NoOrphan
<1> QED
  BY PipesOwned, <1>1, PTL

\* Every step of the listener is a step of the abstract listener or leaves what
\* the callers see unchanged.
LEMMA StepSimulation == TypeOK /\ Ownership /\ [Next]_vars => [Abs!Next]_(Abs!absVars)
<1> SUFFICES ASSUME TypeOK, Ownership, [Next]_vars
             PROVE  Abs!Next \/ UNCHANGED <<~closed, lifeBar>>
  BY DEF Abs!absVars
<1> USE DEF TypeOK, lifeBar
<1>1. ASSUME NEW a \in Acceptors, AcceptCall(a) \/ AcceptNil(a)
      PROVE  UNCHANGED <<~closed, lifeBar>>
  BY <1>1 DEF AcceptCall, AcceptNil
<1>2. ASSUME NEW a \in Acceptors, AcceptReturn(a)
      PROVE  Abs!Next
  <2>1. PICK c \in Pipes : c = held[a] /\ far[c] = "pending"
    BY <1>2 DEF AcceptReturn, Ownership
  <2>2. CASE closed
    <3>1. Abs!Refuse(c)
      BY <1>2, <2>1, <2>2 DEF AcceptReturn, Abs!Refuse
    <3> QED
      BY <3>1 DEF Abs!Next
  <2>3. CASE ~closed
    <3>1. Abs!Serve(c)
      BY <1>2, <2>1, <2>3 DEF AcceptReturn, Abs!Serve
    <3> QED
      BY <3>1 DEF Abs!Next
  <2> QED
    BY <2>2, <2>3
<1>3. ASSUME NEW d \in Dialers,
             DialRefused(d) \/ DialCanceled(d) \/ DialPanics(d) \/ DialerHangUp(d)
      PROVE  UNCHANGED <<~closed, lifeBar>>
  BY <1>3 DEF DialRefused, DialCanceled, DialPanics, DialerHangUp
<1>4. ASSUME NEW d \in Dialers, NEW c \in Pipes, DialCall(d, c)
      PROVE  UNCHANGED <<~closed, lifeBar>>
  BY <1>4 DEF DialCall
<1>5. ASSUME NEW a \in Acceptors, NEW d \in Dialers, HandOff(a, d)
      PROVE  Abs!Next
  <2>1. PICK c \in Pipes : ~closed /\ c = offer[d] /\ far[c] = "made"
    BY <1>5 DEF HandOff, Ownership
  <2>2. Abs!Connect(c)
    BY <1>5, <2>1 DEF HandOff, Abs!Connect
  <2> QED
    BY <2>2 DEF Abs!Next
<1>6. ASSUME Close
      PROVE  Abs!Next
  <2>1. lifeBar' = [c \in Pipes |-> IF lifeBar[c] = "served" THEN "closed" ELSE lifeBar[c]]
    BY <1>6 DEF Close, Ownership
  <2>2. ~closed /\ closed'
    BY <1>6 DEF Close
  <2>3. Abs!Shut
    BY <2>1, <2>2 DEF Abs!Shut
  <2> QED
    BY <2>3 DEF Abs!Next
<1>7. ASSUME NEW c \in Pipes, ServerHangUp(c)
      PROVE  Abs!Next
  <2>1. Abs!HangUp(c)
    BY <1>7 DEF ServerHangUp, Abs!HangUp
  <2> QED
    BY <2>1 DEF Abs!Next
<1>8. CASE UNCHANGED vars
  BY <1>8 DEF vars
<1> QED
  BY <1>1, <1>2, <1>3, <1>4, <1>5, <1>6, <1>7, <1>8 DEF Next

\* pipe.go implements the abstract listener, for any number of goroutines.
THEOREM ListenerRefinement == Spec => ImplementsListener
<1>1. Init => Abs!Init
  BY DEF Init, Abs!Init, lifeBar
<1> QED
  BY PipesOwned, <1>1, StepSimulation, PTL DEF Spec, ImplementsListener, Abs!Spec
=============================================================================
