------------------------ MODULE ModelLifecycleProofs ------------------------
(***************************************************************************)
(* Safety of the models' lifecycle, for either service and any set of      *)
(* calling threads.                                                        *)
(*                                                                         *)
(* Who holds _load_lock follows from where the threads are (TypeOK).  While *)
(* the lock is held the tokens may lag behind the model: behind a load     *)
(* there are none yet, behind a drop they are still there.  Otherwise the  *)
(* two agree, which is what makes a load under the lock find none.         *)
(***************************************************************************)
EXTENDS ModelLifecycle, TLAPS

TokensInv ==
  /\ \A t \in Calls : pc[t] = "loading" => tokens = None /\ ~Complete
  /\ \A t \in Calls : pc[t] = "loaded" => model = t /\ tokens = None
  /\ evictor = "dropping" => model = None
  /\ TokensFollowModel

IInv == TypeOK /\ TokensInv

\* No model is loaded at first.
LEMMA InitIInv == Init => IInv
BY LifecycleAssumption DEF Init, IInv, TypeOK, Ends, TokensInv, TokensFollowModel

\* A call's access to the shared attributes keeps the invariant.
LEMMA CallStepKeepsIInv ==
  ASSUME IInv, NEW t \in Calls, Begin(t) \/ LockStep(t) \/ CallStep(t)
  PROVE  IInv'
<1> USE LifecycleAssumption
    DEF IInv, TypeOK, Ends, TokensInv, TokensFollowModel, Complete, Goto
<1>1. CASE Begin(t)
  BY <1>1 DEF Begin
<1>2. CASE ReadModel(t)
  BY <1>2 DEF ReadModel
<1>3. CASE ReadTokenizer(t)
  BY <1>3 DEF ReadTokenizer
<1>4. CASE ReturnLocked(t)
  BY <1>4 DEF ReturnLocked
<1>5. CASE StartLoad(t)
  BY <1>5 DEF StartLoad
<1>6. CASE Load(t)
  BY <1>6 DEF Load
<1>7. CASE LoadFails(t)
  BY <1>7 DEF LoadFails
<1>8. CASE FinishLoad(t)
  BY <1>8 DEF FinishLoad
<1>9. CASE Touch(t)
  BY <1>9 DEF Touch
<1>10. CASE Infer(t)
  BY <1>10 DEF Infer
<1>11. CASE LookForCounter(t)
  BY <1>11 DEF LookForCounter
<1>12. CASE Count(t)
  BY <1>12 DEF Count
<1> QED
  BY <1>1, <1>2, <1>3, <1>4, <1>5, <1>6, <1>7, <1>8, <1>9, <1>10, <1>11, <1>12
     DEF CallStep, LockStep

\* So does the evictor, and so does time.
LEMMA EvictorStepKeepsIInv ==
  ASSUME IInv, TimePasses \/ EvictorStep
  PROVE  IInv'
<1> USE LifecycleAssumption
    DEF IInv, TypeOK, Ends, TokensInv, TokensFollowModel, Complete
<1>1. CASE TimePasses
  BY <1>1 DEF TimePasses
<1>2. CASE Decide
  BY <1>2 DEF Decide
<1>3. CASE DropModel
  BY <1>3 DEF DropModel
<1>4. CASE DropTokens
  BY <1>4 DEF DropTokens
<1> QED
  BY <1>1, <1>2, <1>3, <1>4 DEF EvictorStep

\* The invariant is inductive.
LEMMA NextKeepsIInv == IInv /\ [Next]_vars => IInv'
<1> SUFFICES ASSUME IInv, [Next]_vars PROVE IInv'
  OBVIOUS
<1>1. CASE UNCHANGED vars
  BY <1>1 DEF vars, IInv, TypeOK, TokensInv, TokensFollowModel, Complete
<1>2. CASE Next
  BY <1>2, CallStepKeepsIInv, EvictorStepKeepsIInv DEF Next
<1> QED
  BY <1>1, <1>2

\* The invariant holds in every reachable state (modeling.py, reranking.py,
\* idle_evictor.py).
THEOREM Invariance == Spec => []IInv
BY InitIInv, NextKeepsIInv, PTL DEF Spec

\* _load_lock has one holder, who is in its critical section (modeling.py:83, :94;
\* reranking.py:310, :320).
THEOREM TypeCorrect == Spec => []TypeOK
<1>1. IInv => TypeOK
  BY DEF IInv
<1> QED
  BY <1>1, Invariance, PTL

\* Outside the lock the tokenizer or token counter is that of the model, or both
\* are gone, or the embedding model lacks the tokenizer that could not be loaded
\* (modeling.py:82-88, :146-147; reranking.py:309-315, :332-339).
THEOREM TokensNeverOutliveModel == Spec => []TokensFollowModel
<1>1. IInv => TokensFollowModel
  BY DEF IInv, TokensInv
<1> QED
  BY <1>1, Invariance, PTL

\* No call loads a model over a complete one (modeling.py:91-96, reranking.py:318-322).
THEOREM NoDoubleLoad == Spec => NeverLoadedTwice
<1>1. IInv /\ [Next]_vars => [Complete => model' \in {model, None}]_vars
  <2> SUFFICES ASSUME IInv, Next, Complete PROVE model' \in {model, None}
    OBVIOUS
  <2>1. ASSUME NEW t \in Calls, Begin(t) \/ LockStep(t) \/ CallStep(t)
        PROVE  model' = model
    <3>1. ~Load(t)
      BY DEF Load, Goto, IInv, TokensInv
    <3> QED
      BY <2>1, <3>1 DEF Begin, LockStep, CallStep, ReadModel, ReadTokenizer, ReturnLocked,
                        StartLoad, LoadFails, FinishLoad, Touch, Infer, LookForCounter, Count
  <2>2. ASSUME TimePasses \/ EvictorStep PROVE model' \in {model, None}
    BY <2>2 DEF TimePasses, EvictorStep, Decide, DropModel, DropTokens
  <2> QED
    BY <2>1, <2>2 DEF Next
<1> QED
  BY <1>1, Invariance, PTL DEF Spec, NeverLoadedTwice
=============================================================================
