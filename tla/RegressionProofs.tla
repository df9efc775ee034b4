-------------------------- MODULE RegressionProofs --------------------------
(***************************************************************************)
(* What is proved of Regression for every number of workers and of tests,  *)
(* whatever the tests do: type correctness, and that each test is drawn    *)
(* once; that the runner succeeds only if the simulation of every test has *)
(* passed; and that its totals are exact when no worker dies.              *)
(***************************************************************************)
EXTENDS Regression, FiniteSetTheorems, TLAPS

\* Workers that have found no test left, or have no directory.
PastEnd == {w \in Workers : pc[w] \in {"store", "returned"}}

\* The counter has gone past the tests by one for each of them at most.
PastEndInv == index <= Tests + Cardinality(PastEnd)

\* The worker between the two halves of the critical section has the lock, and
\* what it has read is still the counter.
LockInv == \A w \in Workers : pc[w] = "drawn" => lock = w /\ my_index[w] = index

InProgress(w) == pc[w] \in {"convert", "simulate"}

\* A test in progress is one below the counter, and one worker's alone.
ProgressInv ==
  /\ \A w \in Workers : InProgress(w) => my_index[w] \in Files /\ my_index[w] < index
  /\ \A w, v \in Workers : InProgress(w) /\ InProgress(v) /\ my_index[w] = my_index[v] => w = v

\* The tests drawn are those below the counter.
DrawnInv == \A t \in Files : drawn[t] = IF t < index THEN 1 ELSE 0

IndexInv == TypeOK /\ PastEndInv /\ LockInv /\ ProgressInv /\ DrawnInv
-----------------------------------------------------------------------------
\* There is a test.
LEMMA TestsPositive == Tests \in Nat /\ Tests >= 1
  BY RegressionAssumption

\* The tests are finitely many, as many as Tests says.
LEMMA FilesFinite == IsFiniteSet(Files) /\ Cardinality(Files) = Tests
  BY RegressionAssumption, FS_Interval DEF Files

\* There are at most as many workers past the end as there are workers.
LEMMA PastEndFinite ==
  /\ IsFiniteSet(PastEnd)
  /\ Cardinality(PastEnd) \in Nat
  /\ Cardinality(PastEnd) <= Cardinality(Workers)
  BY RegressionAssumption, FS_Subset, FS_CardinalityType DEF PastEnd

\* The invariant of the counter holds at the start.
LEMMA InitIndexInv == Init => IndexInv
<1> SUFFICES ASSUME Init PROVE IndexInv
  OBVIOUS
<1>1. Cardinality(Workers) \in Nat
  BY RegressionAssumption, FS_CardinalityType
<1>2. TypeOK
  <2>1. index \in 0..(Tests + Cardinality(Workers))
    BY <1>1, TestsPositive DEF Init
  <2>2. hex \in [Workers -> Files \cup {None}]
    BY DEF Init
  <2>3. {num_executed, num_passed} \subseteq [Workers -> Nat]
    BY DEF Init
  <2> QED
    BY <2>1, <2>2, <2>3 DEF Init, TypeOK, Counts, NoCounts
<1>3. PastEndInv
  BY PastEndFinite, TestsPositive DEF PastEndInv, Init
<1>4. LockInv /\ ProgressInv
  BY DEF Init, LockInv, ProgressInv, InProgress
<1>5. DrawnInv
  BY DEF Init, DrawnInv, Files
<1> QED
  BY <1>2, <1>3, <1>4, <1>5 DEF IndexInv

\* The workers past the end are never fewer, and one more when a worker finds
\* no test left.
LEMMA PastEndGrows ==
  ASSUME PastEnd \subseteq PastEnd'
  PROVE  Cardinality(PastEnd) <= Cardinality(PastEnd')
<1>1. IsFiniteSet(PastEnd')
  BY RegressionAssumption, FS_Subset DEF PastEnd
<1> QED
  BY <1>1, FS_Subset

\* The counter moves past the end only with a worker that is new there.
LEMMA PastEndStep == IndexInv /\ [Next]_vars => PastEndInv'
<1> SUFFICES ASSUME IndexInv, [Next]_vars PROVE PastEndInv'
  OBVIOUS
<1> USE DEF IndexInv
<1>0. /\ pc \in [Workers -> {"start", "draw", "drawn", "convert", "simulate", "store",
                            "returned", "died"}]
      /\ index \in Nat
  BY PastEndFinite DEF TypeOK
<1>1. Cardinality(PastEnd) \in Nat /\ Cardinality(PastEnd') \in Nat
  BY PastEndFinite, FS_CardinalityType, FS_Subset, RegressionAssumption DEF PastEnd
<1>2. ASSUME NEW w \in Workers, WriteIndex(w), my_index[w] >= Tests
      PROVE  PastEndInv'
  <2>1. PastEnd' = PastEnd \cup {w} /\ w \notin PastEnd
    BY <1>0, <1>2 DEF WriteIndex, Goto, PastEnd
  <2>2. Cardinality(PastEnd') = Cardinality(PastEnd) + 1
    BY <2>1, PastEndFinite, FS_AddElement
  <2>3. index' = index + 1
    BY <1>2 DEF WriteIndex, LockInv, IndexAfter
  <2> QED
    BY <1>0, <1>1, <2>2, <2>3, TestsPositive DEF PastEndInv
<1>3. ASSUME NEW w \in Workers, WriteIndex(w), ~(my_index[w] >= Tests)
      PROVE  PastEndInv'
  <2>1. index' = index + 1 /\ index < Tests
    BY <1>0, <1>3, TestsPositive DEF WriteIndex, LockInv, IndexAfter
  <2> QED
    BY <1>0, <1>1, <2>1, TestsPositive DEF PastEndInv
<1>4. ASSUME PastEnd \subseteq PastEnd', UNCHANGED index
      PROVE  PastEndInv'
  BY <1>0, <1>1, <1>4, PastEndGrows, TestsPositive DEF PastEndInv
<1>5. ASSUME NEW w \in Workers, Worker(w), ~WriteIndex(w)
      PROVE  PastEnd \subseteq PastEnd' /\ UNCHANGED index
  BY <1>0, <1>5 DEF Worker, NoDirectory, EnterDirectory, ReadIndex, Convert, Simulate,
     Raises, Store, Goto, PastEnd
<1>6. CASE Main \/ UNCHANGED vars
  BY <1>4, <1>6 DEF Main, Join, Add, Exit, vars, PastEnd
<1> QED
  BY <1>2, <1>3, <1>4, <1>5, <1>6 DEF Next
-----------------------------------------------------------------------------
\* Every step keeps the types: the counter's bound is that of PastEndInv.
LEMMA TypeOKStep == IndexInv /\ [Next]_vars => TypeOK'
<1> SUFFICES ASSUME IndexInv, [Next]_vars PROVE TypeOK'
  OBVIOUS
<1> USE DEF IndexInv
<1>1. index' \in Nat => index' \in 0..(Tests + Cardinality(Workers))
  <2>1. PastEndInv'
    BY PastEndStep
  <2>2. /\ Cardinality(PastEnd') \in Nat
        /\ Cardinality(PastEnd') <= Cardinality(Workers)
        /\ Cardinality(Workers) \in Nat
    BY RegressionAssumption, FS_Subset, FS_CardinalityType DEF PastEnd
  <2> QED
    BY <2>1, <2>2, TestsPositive DEF PastEndInv
<1>2. CASE UNCHANGED vars
  BY <1>2 DEF vars, locals, mainVars, history, TypeOK
<1>3. CASE Main
  <2>1. CASE Join
    BY <2>1 DEF Join, TypeOK, locals, history
  <2>2. ASSUME NEW w \in Workers, Add(w)
        PROVE  TypeOK'
    <3>1. results[w] \in Counts /\ total \in Counts
      BY DEF TypeOK
    <3>2. total' \in Counts
      BY <2>2, <3>1 DEF Add, Counts
    <3> QED
      BY <2>2, <3>2 DEF Add, TypeOK, locals, history
  <2>3. CASE Exit
    BY <2>3 DEF Exit, ExitCode, TypeOK, locals, history
  <2> QED
    BY <1>3, <2>1, <2>2, <2>3 DEF Main
<1>4. ASSUME NEW w \in Workers, Worker(w)
      PROVE  TypeOK'
  <2>1. CASE NoDirectory(w) \/ EnterDirectory(w) \/ Raises(w)
    BY <2>1 DEF NoDirectory, EnterDirectory, Raises, Goto, TypeOK, locals, mainVars, history
  <2>2. CASE ReadIndex(w)
    BY <2>2 DEF ReadIndex, Goto, TypeOK, mainVars, history
  <2>3. CASE WriteIndex(w)
    <3>1. my_index[w] \in Nat
      BY DEF TypeOK
    <3>2. index' \in Nat
      BY <2>3, <3>1 DEF WriteIndex, IndexAfter
    <3>3. drawn' \in [Files -> Nat]
      BY <2>3 DEF WriteIndex, TypeOK
    <3>4. pc' \in [Workers -> {"start", "draw", "drawn", "convert", "simulate", "store",
                               "returned", "died"}]
      BY <2>3 DEF WriteIndex, Goto, TypeOK
    <3> QED
      BY <1>1, <2>3, <3>2, <3>3, <3>4 DEF WriteIndex, TypeOK, locals, mainVars
  <2>4. CASE Convert(w)
    <3>1. my_index[w] \in Files
      BY <2>4 DEF Convert, ProgressInv, InProgress
    <3> QED
      BY <2>4, <3>1 DEF Convert, Goto, TypeOK, locals, mainVars, history
  <2>5. CASE Simulate(w)
    <3>1. my_index[w] \in Files
      BY <2>5 DEF Simulate, ProgressInv, InProgress
    <3>2. num_executed' \in [Workers -> Nat] /\ num_passed' \in [Workers -> Nat]
      BY <2>5 DEF Simulate, TypeOK
    <3>3. counted' \in [Workers -> SUBSET Files]
      BY <2>5, <3>1 DEF Simulate, TypeOK
    <3>4. image' \in [Files -> Files \cup {None}]
      BY <2>5 DEF Simulate, TypeOK
    <3> QED
      BY <2>5, <3>2, <3>3, <3>4 DEF Simulate, Goto, TypeOK, mainVars
  <2>6. CASE Store(w)
    BY <2>6 DEF Store, Goto, Counts, TypeOK, locals, mainVars, history
  <2> QED
    BY <1>4, <2>1, <2>2, <2>3, <2>4, <2>5, <2>6 DEF Worker
<1> QED
  BY <1>2, <1>3, <1>4 DEF Next
-----------------------------------------------------------------------------
\* Only a worker in its critical section disturbs what is said of the counter.
LEMMA CounterStep ==
  IndexInv /\ [Next]_vars => LockInv' /\ ProgressInv' /\ DrawnInv'
<1> SUFFICES ASSUME IndexInv, [Next]_vars PROVE LockInv' /\ ProgressInv' /\ DrawnInv'
  OBVIOUS
<1> USE DEF IndexInv
<1>0. /\ pc \in [Workers -> {"start", "draw", "drawn", "convert", "simulate", "store",
                            "returned", "died"}]
      /\ my_index \in [Workers -> Nat]
      /\ drawn \in [Files -> Nat]
      /\ index \in Nat
      /\ None \notin Workers
  BY RegressionAssumption, PastEndFinite DEF TypeOK
<1>1. ASSUME NEW w \in Workers, ReadIndex(w)
      PROVE  LockInv' /\ ProgressInv' /\ DrawnInv'
  <2>1. LockInv'
    BY <1>0, <1>1 DEF ReadIndex, LockFree, Goto, LockInv
  <2>2. ProgressInv'
    BY <1>0, <1>1 DEF ReadIndex, Goto, ProgressInv, InProgress
  <2> QED
    BY <1>1, <2>1, <2>2 DEF ReadIndex, history, DrawnInv
<1>2. ASSUME NEW w \in Workers, WriteIndex(w)
      PROVE  LockInv' /\ ProgressInv' /\ DrawnInv'
  <2>1. lock = w /\ my_index[w] = index /\ index' = index + 1
    BY <1>2 DEF WriteIndex, LockInv, IndexAfter
  <2>2. LockInv'
    BY <1>0, <1>2, <2>1 DEF WriteIndex, Goto, LockInv
  <2>3. ProgressInv'
    <3>1. UNCHANGED my_index
      BY <1>2 DEF WriteIndex, locals
    <3>2. pc'[w] = "convert" => my_index[w] \in Files
      BY <1>0, <1>2, TestsPositive DEF WriteIndex, Goto, Files
    <3>3. pc'[w] # "simulate" /\ \A u \in Workers \ {w} : pc'[u] = pc[u]
      BY <1>0, <1>2 DEF WriteIndex, Goto
    <3>4. \A u \in Workers \ {w} : InProgress(u) => my_index[u] < my_index[w]
      BY <2>1 DEF ProgressInv
    <3> QED
      BY <1>0, <2>1, <3>1, <3>2, <3>3, <3>4 DEF ProgressInv, InProgress
  <2>4. DrawnInv'
    <3>1. CASE index >= Tests
      BY <1>0, <1>2, <2>1, <3>1, TestsPositive DEF WriteIndex, DrawnInv, Files
    <3>2. CASE ~(index >= Tests)
      <4>1. index \in Files
        BY <1>0, <3>2, TestsPositive DEF Files
      <4>2. drawn' = [drawn EXCEPT ![index] = 1]
        BY <1>0, <1>2, <2>1, <3>2, <4>1 DEF WriteIndex, DrawnInv
      <4> QED
        BY <1>0, <2>1, <4>1, <4>2 DEF DrawnInv, Files
    <3> QED
      BY <3>1, <3>2
  <2> QED
    BY <2>2, <2>3, <2>4
<1>3. ASSUME NEW w \in Workers, Worker(w), ~ReadIndex(w), ~WriteIndex(w)
      PROVE  LockInv' /\ ProgressInv' /\ DrawnInv'
  <2>1. UNCHANGED <<index, lock, my_index, drawn>>
    BY <1>3 DEF Worker, NoDirectory, EnterDirectory, Convert, Simulate, Raises, Store, locals, history
  <2>2. \A u \in Workers : /\ pc'[u] = "drawn" => pc[u] = "drawn"
                           /\ pc'[u] \in {"convert", "simulate"} => pc[u] \in {"convert", "simulate"}
    BY <1>0, <1>3 DEF Worker, NoDirectory, EnterDirectory, Convert, Simulate, Raises, Store, Goto
  <2> QED
    BY <2>1, <2>2 DEF LockInv, ProgressInv, DrawnInv, InProgress
<1>4. CASE Main \/ UNCHANGED vars
  BY <1>4 DEF Main, Join, Add, Exit, vars, locals, history, LockInv, ProgressInv, DrawnInv,
     InProgress
<1> QED
  BY <1>1, <1>2, <1>3, <1>4 DEF Next

\* The invariant of the counter is inductive.
LEMMA IndexInvStep == IndexInv /\ [Next]_vars => IndexInv'
  BY TypeOKStep, PastEndStep, CounterStep DEF IndexInv

LEMMA IndexInvHolds == Spec => []IndexInv
  BY InitIndexInv, IndexInvStep, PTL DEF Spec

\* Every variable has its type, for every number of workers and tests.
THEOREM TypeCorrect == Spec => []TypeOK
<1>1. IndexInv => TypeOK
  BY DEF IndexInv
<1> QED
  BY <1>1, IndexInvHolds, PTL

\* No test is drawn twice, and none is left out: get_lock around the counter is
\* enough for any number of workers.
THEOREM TestsDrawnOnce == Spec => []EachTestOnce
<1>1. IndexInv => EachTestOnce
  BY DEF IndexInv, DrawnInv, EachTestOnce
<1> QED
  BY <1>1, IndexInvHolds, PTL
-----------------------------------------------------------------------------
(***************************************************************************)
(* Success is earned.  Each PASS that is counted stands for a test of its  *)
(* own, and so the total of passes is bounded by the number of the tests   *)
(* that have passed.  The total may be too low (a worker that dies takes its      *)
(* counts along), never too high.                                          *)
(***************************************************************************)

\* A worker simulates the image of the test it has drawn, if it has one; and so
\* each test is judged by its own.
Own(t, i) == kind[t] # "no_image" => i = t

ImageInv ==
  /\ \A w \in Workers : pc[w] = "simulate" => Own(my_index[w], hex[w])
  /\ \A t \in Files : image[t] # None => Own(t, image[t])

\* The tests counted have passed and are below the counter; no test is counted by
\* two workers, or while it is in progress; and num_passed is their number.
CountedInv ==
  /\ \A w \in Workers : \A t \in counted[w] : t < index /\ HasPassed(t)
  /\ \A w, v \in Workers : w # v => counted[w] \cap counted[v] = {}
  /\ \A w, v \in Workers : InProgress(w) => my_index[w] \notin counted[v]
  /\ \A w \in Workers : num_passed[w] = Cardinality(counted[w])

\* What a worker stores is what it has counted, and it stores nothing before
\* it returns.
ResultInv ==
  /\ \A w \in Workers : results[w].passed \in {0, Cardinality(counted[w])}
  /\ \A w \in Workers : pc[w] # "returned" => results[w] = NoCounts

\* The tests counted by the workers that have been added up.
Tallied == UNION {counted[w] : w \in added}

TotalInv ==
  /\ main = "joining" => added = {}
  /\ main # "joining" => \A w \in Workers : Ended(w)
  /\ total.passed <= Cardinality(Tallied)
  /\ main = "exit_0" => total.passed = Tests

SuccessInv == IndexInv /\ ImageInv /\ CountedInv /\ ResultInv /\ TotalInv
-----------------------------------------------------------------------------
\* What a worker has counted is a finite set.
LEMMA CountedFinite ==
  ASSUME TypeOK, NEW w \in Workers
  PROVE  IsFiniteSet(counted[w]) /\ Cardinality(counted[w]) \in Nat
<1>1. counted[w] \subseteq Files
  BY DEF TypeOK
<1> QED
  BY <1>1, FilesFinite, FS_Subset, FS_CardinalityType

\* So is what all the workers added up have counted.
LEMMA TalliedFinite ==
  ASSUME TypeOK
  PROVE  /\ Tallied \subseteq Files
         /\ IsFiniteSet(Tallied)
         /\ Cardinality(Tallied) \in Nat
<1>1. Tallied \subseteq Files
  BY DEF TypeOK, Tallied
<1> QED
  BY <1>1, FilesFinite, FS_Subset, FS_CardinalityType

\* Nothing is counted, stored or added at the start.
LEMMA InitSuccessInv == Init => SuccessInv
<1> SUFFICES ASSUME Init PROVE SuccessInv
  OBVIOUS
<1>1. IndexInv
  BY InitIndexInv
<1>2. ImageInv
  BY DEF Init, ImageInv, Own
<1>3. CountedInv
  BY FS_EmptySet DEF Init, CountedInv, InProgress
<1>4. ResultInv
  BY DEF Init, ResultInv, NoCounts
<1>5. TotalInv
  <2>1. Tallied = {}
    BY DEF Init, Tallied
  <2> QED
    BY <2>1, FS_EmptySet DEF Init, TotalInv, NoCounts
<1> QED
  BY <1>1, <1>2, <1>3, <1>4, <1>5 DEF SuccessInv

\* A worker that leaves the counts alone, and takes no test other than the one
\* at the counter.
LEMMA CountsKept ==
  ASSUME IndexInv, CountedInv, ResultInv,
         NEW w \in Workers, Worker(w), ~Simulate(w), ~Store(w)
  PROVE  CountedInv' /\ ResultInv'
<1> USE DEF IndexInv
<1>0. /\ pc \in [Workers -> {"start", "draw", "drawn", "convert", "simulate", "store",
                            "returned", "died"}]
      /\ my_index \in [Workers -> Nat]
      /\ counted \in [Workers -> SUBSET Files]
      /\ index \in Nat
  BY PastEndFinite DEF TypeOK
<1>1. UNCHANGED <<kind, image, counted, num_passed, results>>
  BY DEF Worker, NoDirectory, EnterDirectory, ReadIndex, WriteIndex, Convert, Raises, locals,
     history
<1>2. \A u \in Workers : pc'[u] # "returned" => pc[u] # "returned"
  BY <1>0 DEF Worker, NoDirectory, EnterDirectory, ReadIndex, WriteIndex, Convert, Raises, Goto
<1>3. index' \in Nat /\ index <= index'
  BY <1>0 DEF Worker, NoDirectory, EnterDirectory, ReadIndex, WriteIndex, Convert, Raises,
     IndexAfter, LockInv
<1>4. \A u \in Workers : InProgress(u)' =>
        \/ InProgress(u) /\ my_index'[u] = my_index[u]
        \/ my_index'[u] = index
  <2>1. CASE WriteIndex(w)
    BY <1>0, <2>1 DEF WriteIndex, LockInv, Goto, InProgress, locals
  <2>2. CASE ~WriteIndex(w)
    BY <1>0, <2>2 DEF Worker, NoDirectory, EnterDirectory, ReadIndex, Convert, Raises,
       Goto, InProgress, locals
  <2> QED
    BY <2>1, <2>2
<1>5. \A v \in Workers : index \notin counted[v]
  BY <1>0 DEF CountedInv
<1>6. \A v \in Workers : \A t \in counted[v] : t \in Nat
  BY <1>0 DEF Files
<1>7. CountedInv'
  <2>1. \A v \in Workers : \A t \in counted'[v] : t < index' /\ HasPassed(t)'
    BY <1>0, <1>1, <1>3, <1>6 DEF CountedInv, HasPassed
  <2>2. \A u, v \in Workers : InProgress(u)' => my_index'[u] \notin counted'[v]
    BY <1>1, <1>4, <1>5 DEF CountedInv
  <2> QED
    BY <1>1, <2>1, <2>2 DEF CountedInv
<1>8. ResultInv'
  BY <1>1, <1>2 DEF ResultInv
<1> QED
  BY <1>7, <1>8

\* A test that passes is counted by the worker that has drawn it.
LEMMA SimulateCounts ==
  ASSUME IndexInv, ImageInv, CountedInv, ResultInv, NEW w \in Workers, Simulate(w)
  PROVE  CountedInv' /\ ResultInv'
<1> USE DEF IndexInv
<1> DEFINE t == my_index[w]
<1>0. /\ pc \in [Workers -> {"start", "draw", "drawn", "convert", "simulate", "store",
                            "returned", "died"}]
      /\ num_passed \in [Workers -> Nat]
      /\ counted \in [Workers -> SUBSET Files]
      /\ image \in [Files -> Files \cup {None}]
  BY DEF TypeOK
<1>1. /\ pc[w] = "simulate" /\ pc' = [pc EXCEPT ![w] = "draw"]
      /\ UNCHANGED <<kind, index, my_index, results>>
  BY DEF Simulate, Goto
<1>2. t \in Files /\ t < index /\ \A v \in Workers : t \notin counted[v]
  BY <1>1 DEF ProgressInv, CountedInv, InProgress
<1>3. results[w] = NoCounts
  BY <1>1 DEF ResultInv
<1>4. \A v \in Workers : \A s \in counted[v] : HasPassed(s)'
  <2>1. \A s \in Files : s # t => image'[s] = image[s]
    BY <1>0 DEF Simulate
  <2> QED
    BY <1>0, <1>1, <1>2, <2>1 DEF CountedInv, HasPassed
<1>5. CASE Behaviour(w) = "pass"
  <2>1. image'[t] # None /\ kind'[image'[t]] = "pass"
    BY <1>0, <1>1, <1>2, <1>5 DEF Simulate, Behaviour
  <2>2. /\ counted' = [counted EXCEPT ![w] = @ \cup {t}]
        /\ num_passed' = [num_passed EXCEPT ![w] = @ + 1]
    BY <1>5 DEF Simulate
  <2>3. Cardinality(counted[w] \cup {t}) = Cardinality(counted[w]) + 1
    BY <1>2, CountedFinite, FS_AddElement
  <2> HIDE DEF t
  <2>4. counted'[w] = counted[w] \cup {t} /\ num_passed'[w] = num_passed[w] + 1
    BY <1>0, <2>2
  <2>5. \A u \in Workers \ {w} : counted'[u] = counted[u] /\ num_passed'[u] = num_passed[u]
    BY <1>0, <2>2
  <2>6. \A u \in Workers : \A s \in counted'[u] : s < index' /\ HasPassed(s)'
    BY <1>1, <1>2, <1>4, <2>1, <2>4, <2>5 DEF CountedInv, HasPassed
  <2>7. \A u, v \in Workers : u # v => counted'[u] \cap counted'[v] = {}
    BY <1>2, <2>4, <2>5 DEF CountedInv
  <2>8. \A u \in Workers : InProgress(u)' => InProgress(u) /\ u # w
    BY <1>0, <1>1 DEF InProgress
  <2>9. \A u, v \in Workers : InProgress(u)' => my_index'[u] \notin counted'[v]
    <3>1. \A u \in Workers : InProgress(u)' => my_index'[u] # t
      BY <1>1, <2>8 DEF ProgressInv, InProgress, t
    <3> QED
      BY <1>1, <2>4, <2>5, <2>8, <3>1 DEF CountedInv
  <2>10. \A u \in Workers : num_passed'[u] = Cardinality(counted'[u])
    BY <2>3, <2>4, <2>5 DEF CountedInv
  <2>11. ResultInv'
    <3>1. results'[w].passed = 0
      BY <1>1, <1>3 DEF NoCounts
    <3> QED
      BY <1>0, <1>1, <1>3, <2>5, <3>1 DEF ResultInv
  <2> QED
    BY <2>6, <2>7, <2>9, <2>10, <2>11 DEF CountedInv
<1>6. CASE Behaviour(w) # "pass"
  <2>1. UNCHANGED <<counted, num_passed>>
    BY <1>6 DEF Simulate
  <2>2. \A u \in Workers : /\ InProgress(u)' => InProgress(u)
                           /\ pc'[u] # "returned" => pc[u] # "returned"
    BY <1>0, <1>1 DEF InProgress
  <2> QED
    BY <1>1, <1>4, <2>1, <2>2 DEF CountedInv, ResultInv
<1> QED
  BY <1>5, <1>6

\* A worker stores what it has counted, once.
LEMMA StoreCounts ==
  ASSUME IndexInv, CountedInv, ResultInv, NEW w \in Workers, Store(w)
  PROVE  CountedInv' /\ ResultInv'
<1> USE DEF IndexInv
<1>0. /\ pc \in [Workers -> {"start", "draw", "drawn", "convert", "simulate", "store",
                            "returned", "died"}]
      /\ results \in [Workers -> Counts]
  BY DEF TypeOK
<1>1. /\ pc' = [pc EXCEPT ![w] = "returned"]
      /\ UNCHANGED <<kind, index, my_index, num_passed, image, counted>>
  BY DEF Store, Goto, locals, history
<1>2. /\ results'[w].passed = Cardinality(counted[w])
      /\ \A u \in Workers \ {w} : results'[u] = results[u]
  BY <1>0 DEF Store, CountedInv
<1>3. \A u \in Workers : /\ InProgress(u)' => InProgress(u)
                         /\ pc'[u] # "returned" => pc[u] # "returned" /\ u # w
  BY <1>0, <1>1 DEF InProgress
<1>4. CountedInv'
  BY <1>1, <1>3 DEF CountedInv, HasPassed
<1>5. ResultInv'
  BY <1>1, <1>2, <1>3 DEF ResultInv
<1> QED
  BY <1>4, <1>5

\* The main process reads what the workers have stored and changes none of it.
LEMMA MainKeepsCounts ==
  ASSUME CountedInv, ResultInv, Main \/ UNCHANGED vars
  PROVE  CountedInv' /\ ResultInv'
<1>1. UNCHANGED <<kind, index, results, pc, my_index, num_passed, image, counted>>
  BY DEF Main, Join, Add, Exit, vars, locals, history
<1> QED
  BY <1>1 DEF CountedInv, ResultInv, InProgress, HasPassed

\* No step makes a count up.
LEMMA CountsStep ==
  SuccessInv /\ [Next]_vars => CountedInv' /\ ResultInv'
<1> SUFFICES ASSUME SuccessInv, [Next]_vars PROVE CountedInv' /\ ResultInv'
  OBVIOUS
<1> QED
  BY CountsKept, SimulateCounts, StoreCounts, MainKeepsCounts DEF Next, SuccessInv

\* A worker that has made the image of its test simulates that one.
LEMMA ImageStep == IndexInv /\ ImageInv /\ [Next]_vars => ImageInv'
<1> SUFFICES ASSUME IndexInv, ImageInv, [Next]_vars PROVE ImageInv'
  OBVIOUS
<1> USE DEF IndexInv
<1>0. /\ pc \in [Workers -> {"start", "draw", "drawn", "convert", "simulate", "store",
                            "returned", "died"}]
      /\ hex \in [Workers -> Files \cup {None}]
      /\ my_index \in [Workers -> Nat]
      /\ kind \in [Files -> Kinds]
      /\ image \in [Files -> Files \cup {None}]
  BY DEF TypeOK
<1>1. ASSUME NEW w \in Workers, Convert(w)
      PROVE  ImageInv'
  <2>1. UNCHANGED <<kind, image, my_index>>
    BY <1>1 DEF Convert, locals, history
  <2>2. /\ kind[my_index[w]] # "no_image" => hex'[w] = my_index[w]
        /\ \A u \in Workers \ {w} : hex'[u] = hex[u] /\ pc'[u] = pc[u]
    BY <1>0, <1>1 DEF Convert, Goto
  <2> QED
    BY <2>1, <2>2 DEF ImageInv, Own
<1>2. ASSUME NEW w \in Workers, Simulate(w)
      PROVE  ImageInv'
  <2>1. /\ UNCHANGED <<kind, hex, my_index>>
        /\ \A u \in Workers : pc'[u] = "simulate" => pc[u] = "simulate"
    BY <1>0, <1>2 DEF Simulate, Goto
  <2>2. my_index[w] \in Files /\ Own(my_index[w], hex[w])
    BY <1>2 DEF Simulate, ProgressInv, InProgress, ImageInv
  <2>3. \A t \in Files : image'[t] = IF t = my_index[w] THEN hex[w] ELSE image[t]
    BY <1>0, <1>2 DEF Simulate
  <2> QED
    BY <2>1, <2>2, <2>3 DEF ImageInv, Own
<1>3. ASSUME NEW w \in Workers, Worker(w), ~Convert(w), ~Simulate(w)
      PROVE  ImageInv'
  <2>1. /\ UNCHANGED <<kind, hex, image>>
        /\ \A u \in Workers : pc'[u] = "simulate" => pc[u] = "simulate"
    BY <1>0, <1>3 DEF Worker, NoDirectory, EnterDirectory, ReadIndex, WriteIndex, Raises,
       Store, Goto, history
  <2>2. \A u \in Workers : pc[u] = "simulate" => my_index'[u] = my_index[u]
    BY <1>0, <1>3 DEF Worker, NoDirectory, EnterDirectory, ReadIndex, WriteIndex, Raises,
       Store, locals
  <2> QED
    BY <2>1, <2>2 DEF ImageInv, Own
<1>4. CASE Main \/ UNCHANGED vars
  BY <1>4 DEF Main, Join, Add, Exit, vars, locals, history, ImageInv, Own
<1> QED
  BY <1>1, <1>2, <1>3, <1>4 DEF Next

\* The total of the passes never exceeds the tests counted by the workers that
\* have been added up: each worker is added once, and their tests are disjoint.
LEMMA TotalStep == SuccessInv /\ [Next]_vars => TotalInv'
<1> SUFFICES ASSUME SuccessInv, [Next]_vars PROVE TotalInv'
  OBVIOUS
<1> USE DEF SuccessInv, IndexInv
<1>1. ASSUME NEW w \in Workers, Worker(w)
      PROVE  TotalInv'
  <2>1. ~Ended(w)
    BY <1>1 DEF Worker, NoDirectory, EnterDirectory, ReadIndex, WriteIndex, Convert, Simulate,
       Raises, Store, Ended
  <2>2. main = "joining" /\ added = {}
    BY <2>1 DEF TotalInv
  <2>3. UNCHANGED <<main, added, total>>
    BY <1>1 DEF Worker, NoDirectory, EnterDirectory, ReadIndex, WriteIndex, Convert, Simulate,
       Raises, Store, mainVars
  <2>4. Tallied' = Tallied
    BY <2>2, <2>3 DEF Tallied
  <2> QED
    BY <2>2, <2>3, <2>4 DEF TotalInv
<1>2. CASE Join
  <2>1. Tallied' = Tallied
    BY <1>2 DEF Join, history, Tallied
  <2> QED
    BY <1>2, <2>1 DEF Join, TotalInv, Ended
<1>3. ASSUME NEW w \in Workers, Add(w)
      PROVE  TotalInv'
  <2>1. Tallied' = Tallied \cup counted[w] /\ w \notin added
    BY <1>3 DEF Add, history, Tallied
  <2>2. Tallied \cap counted[w] = {}
    BY <2>1 DEF Tallied, CountedInv, TypeOK
  <2>3. Cardinality(Tallied') = Cardinality(Tallied) + Cardinality(counted[w])
    <3>1. Cardinality(Tallied \cup counted[w])
            = Cardinality(Tallied) + Cardinality(counted[w]) - Cardinality(Tallied \cap counted[w])
      BY TalliedFinite, CountedFinite, FS_Union
    <3> QED
      BY <2>1, <2>2, <3>1, TalliedFinite, CountedFinite, FS_EmptySet
  <2>4. total'.passed = total.passed + results[w].passed
    BY <1>3 DEF Add
  <2>5. results[w].passed <= Cardinality(counted[w])
    BY CountedFinite DEF ResultInv
  <2>6. total.passed \in Nat /\ results[w].passed \in Nat
    BY DEF TypeOK, Counts
  <2>7. total'.passed <= Cardinality(Tallied')
    BY <2>3, <2>4, <2>5, <2>6, TalliedFinite, CountedFinite DEF TotalInv
  <2> QED
    BY <1>3, <2>7 DEF Add, TotalInv, Ended
<1>4. CASE Exit
  <2>1. Tallied' = Tallied
    BY <1>4 DEF Exit, history, Tallied
  <2> QED
    BY <1>4, <2>1 DEF Exit, ExitCode, TotalInv, Ended
<1>5. CASE UNCHANGED vars
  <2>1. UNCHANGED <<main, added, total, pc, counted>>
    BY <1>5 DEF vars, mainVars, history
  <2> QED
    BY <2>1 DEF TotalInv, Ended, Tallied
<1> QED
  BY <1>1, <1>2, <1>3, <1>4, <1>5 DEF Next, Main

\* A total as high as the number of tests leaves no test that has not passed.
LEMMA FullTotal == SuccessInv => SuccessIsEarned
<1> SUFFICES ASSUME SuccessInv, main = "exit_0", NEW t \in Files
             PROVE  HasPassed(t) /\ Own(t, image[t])
  BY DEF SuccessIsEarned, Own
<1> USE DEF SuccessInv, IndexInv
<1>1. Cardinality(Tallied) >= Tests
  BY TalliedFinite, TestsPositive DEF TotalInv
<1>2. Tallied = Files
  BY <1>1, TalliedFinite, FilesFinite, TestsPositive, FS_Subset
<1>3. PICK w \in added : t \in counted[w]
  BY <1>2 DEF Tallied
<1> QED
  BY <1>3 DEF CountedInv, ImageInv, HasPassed, TypeOK

\* The runner exits with 0 only if every test has been simulated and its simulation
\* has printed PASS, a test with an image by its own, for any number of workers and
\* tests, whatever the tests do and whichever workers die: counts may be lost and
\* none is made up (Run_regression.py:202-223, 340-375).
THEOREM SuccessTellsTheTruth == Spec => []SuccessIsEarned
<1>1. SuccessInv /\ [Next]_vars => SuccessInv'
  BY IndexInvStep, ImageStep, CountsStep, TotalStep DEF SuccessInv
<1> QED
  BY <1>1, InitSuccessInv, FullTotal, PTL DEF Spec

-----------------------------------------------------------------------------
(***************************************************************************)
(* The totals.  The tests executed can be shared out among the workers so  *)
(* that each has executed as many as it says; no test goes missing but     *)
(* with a worker that dies.                                                *)
(***************************************************************************)

\* A worker that has drawn a test and not executed it.
Owes(w) == InProgress(w) \/ pc[w] = "died"

\* Each test below the counter has been executed by one worker or is owed by one.
SharedOut(done) ==
  /\ \A w, v \in Workers : w # v => done[w] \cap done[v] = {}
  /\ \A w, v \in Workers : InProgress(w) => my_index[w] \notin done[v]
  /\ \A w \in Workers : \A t \in done[w] : t < index
  /\ \A t \in Files : t < index => \E w \in Workers : t \in done[w] \/ (Owes(w) /\ my_index[w] = t)

\* What each worker counts, and leaves in the shared array.
Recorded(done) ==
  /\ \A w \in Workers : num_executed[w] = Cardinality(done[w])
  /\ \A w \in Workers : pc[w] = "start" => done[w] = {}
  /\ \A w \in Workers : counted[w] = {t \in done[w] : HasPassed(t)}
  /\ \A w \in Workers : pc[w] = "returned" =>
       results[w] = [executed |-> Cardinality(done[w]), passed |-> Cardinality(counted[w])]

Intact == \A w \in Workers : pc[w] # "died"
Executed(done) == UNION {done[w] : w \in added}

AddedUp(done) ==
  Intact => total = [executed |-> Cardinality(Executed(done)), passed |-> Cardinality(Tallied)]

Shares == [Workers -> SUBSET Files]
Exactly(done) == SharedOut(done) /\ Recorded(done) /\ AddedUp(done)

ExactInv ==
  /\ \E done \in Shares : Exactly(done)
  /\ main \in {"exit_0", "exit_1"} => added = Workers
-----------------------------------------------------------------------------
\* Nothing has been executed at the start.
LEMMA InitExactInv == Init => ExactInv
<1> SUFFICES ASSUME Init PROVE ExactInv
  OBVIOUS
<1>1. PICK done : done = [w \in Workers |-> {}]
  OBVIOUS
<1>2. done \in Shares
  BY <1>1 DEF Shares
<1>3. SharedOut(done)
  BY <1>1 DEF Init, SharedOut, InProgress, Files
<1>4. Recorded(done)
  BY <1>1, FS_EmptySet DEF Init, Recorded
<1>5. AddedUp(done)
  <2>1. Executed(done) = {} /\ Tallied = {}
    BY DEF Init, Executed, Tallied
  <2> QED
    BY <2>1, FS_EmptySet DEF Init, AddedUp, NoCounts
<1> QED
  BY <1>2, <1>3, <1>4, <1>5 DEF Init, ExactInv, Exactly

\* The share of a worker is finite.
LEMMA ShareFinite ==
  ASSUME NEW done \in Shares, NEW w \in Workers
  PROVE  IsFiniteSet(done[w]) /\ Cardinality(done[w]) \in Nat
BY FilesFinite, FS_Subset, FS_CardinalityType DEF Shares

\* As long as a worker is at work, nothing has been added up.
LEMMA NothingAdded ==
  ASSUME SuccessInv, NEW done, NEW d, AddedUp(done), NEW w \in Workers, Worker(w)
  PROVE  AddedUp(d)' /\ main' = "joining"
<1>1. ~Ended(w)
  BY DEF Worker, NoDirectory, EnterDirectory, ReadIndex, WriteIndex, Convert, Simulate,
     Raises, Store, Ended
<1>2. main = "joining" /\ added = {}
  BY <1>1 DEF SuccessInv, TotalInv
<1>3. UNCHANGED <<main, added, total>>
  BY DEF Worker, NoDirectory, EnterDirectory, ReadIndex, WriteIndex, Convert, Simulate,
     Raises, Store, mainVars
<1>4. Intact' => Intact
  <2>1. pc \in [Workers -> {"start", "draw", "drawn", "convert", "simulate", "store",
                            "returned", "died"}]
    BY DEF SuccessInv, IndexInv, TypeOK
  <2>2. pc[w] # "died" /\ \A u \in Workers \ {w} : pc'[u] = pc[u]
    BY <1>1, <2>1 DEF Worker, NoDirectory, EnterDirectory, ReadIndex, WriteIndex, Convert,
       Simulate, Raises, Store, Goto, Ended
  <2> QED
    BY <2>2 DEF Intact
<1>5. Executed(done) = {} /\ Executed(d)' = {} /\ Tallied = {} /\ Tallied' = {}
  BY <1>2, <1>3 DEF Executed, Tallied
<1> QED
  BY <1>2, <1>3, <1>4, <1>5 DEF AddedUp

\* A worker that neither moves the counter nor counts leaves the shares alone.
LEMMA SharesKept ==
  ASSUME SuccessInv, NEW done \in Shares, SharedOut(done), Recorded(done), NEW w \in Workers,
         NoDirectory(w) \/ EnterDirectory(w) \/ ReadIndex(w) \/ Convert(w) \/ Raises(w)
  PROVE  SharedOut(done)' /\ Recorded(done)'
<1>0. /\ pc \in [Workers -> {"start", "draw", "drawn", "convert", "simulate", "store",
                            "returned", "died"}]
      /\ my_index \in [Workers -> Nat]
  BY DEF SuccessInv, IndexInv, TypeOK
<1>1. UNCHANGED <<kind, index, num_executed, results, image, counted>>
  BY DEF NoDirectory, EnterDirectory, ReadIndex, Convert, Raises, locals, history
<1>2. \A u \in Workers : /\ InProgress(u)' => InProgress(u) /\ my_index'[u] = my_index[u]
                         /\ Owes(u) => Owes(u)' /\ my_index'[u] = my_index[u]
  BY <1>0 DEF NoDirectory, EnterDirectory, ReadIndex, Convert, Raises, Goto, locals,
     InProgress, Owes
<1>3. SharedOut(done)'
  BY <1>1, <1>2 DEF SharedOut
<1>4. Recorded(done)'
  <2>1. \A u \in Workers : pc'[u] = "start" => pc[u] = "start"
    BY <1>0 DEF NoDirectory, EnterDirectory, ReadIndex, Convert, Raises, Goto
  <2>2. ASSUME NEW u \in Workers, pc'[u] = "returned"
        PROVE  results[u] = [executed |-> Cardinality(done[u]),
                             passed   |-> Cardinality(counted[u])]
    <3>1. CASE pc[u] = "returned"
      BY <3>1 DEF Recorded
    <3>2. CASE pc[u] # "returned"
      <4>1. pc[u] = "start"
        BY <1>0, <2>2, <3>2 DEF NoDirectory, EnterDirectory, ReadIndex, Convert, Raises, Goto
      <4>2. done[u] = {} /\ counted[u] = {}
        BY <4>1 DEF Recorded
      <4>3. results[u] = NoCounts
        BY <3>2 DEF SuccessInv, ResultInv
      <4> QED
        BY <4>2, <4>3, FS_EmptySet DEF NoCounts
    <3> QED
      BY <3>1, <3>2
  <2> QED
    BY <1>1, <2>1, <2>2 DEF Recorded, HasPassed
<1> QED
  BY <1>3, <1>4

\* A worker that moves the counter owes the test that it draws.
LEMMA DrawShares ==
  ASSUME SuccessInv, NEW done \in Shares, SharedOut(done), Recorded(done), NEW w \in Workers,
         WriteIndex(w)
  PROVE  SharedOut(done)' /\ Recorded(done)'
<1>0. /\ pc \in [Workers -> {"start", "draw", "drawn", "convert", "simulate", "store",
                            "returned", "died"}]
      /\ index \in Nat /\ Tests \in Nat /\ done \in [Workers -> SUBSET Files]
  BY PastEndFinite, TestsPositive DEF SuccessInv, IndexInv, TypeOK, Shares
<1>1. /\ pc[w] = "drawn" /\ my_index[w] = index /\ index' = index + 1
      /\ UNCHANGED <<kind, results, my_index, num_executed, image, counted>>
  BY DEF WriteIndex, SuccessInv, IndexInv, LockInv, IndexAfter, locals
<1>2. /\ \A u \in Workers \ {w} : pc'[u] = pc[u]
      /\ my_index[w] >= Tests => pc'[w] = "store"
      /\ ~(my_index[w] >= Tests) => pc'[w] = "convert"
  BY <1>0 DEF WriteIndex, Goto
<1>3. \A u \in Workers : InProgress(u)' => InProgress(u) \/ my_index[u] = index
  BY <1>1, <1>2 DEF InProgress
<1>4. \A u \in Workers : Owes(u) => Owes(u)'
  BY <1>1, <1>2 DEF InProgress, Owes
<1>5. \A u \in Workers : \A t \in done[u] : t \in Nat /\ t < index
  BY <1>0 DEF SharedOut, Files
<1>6. ASSUME NEW t \in Files, t < index'
      PROVE  \E u \in Workers : t \in done[u] \/ (Owes(u)' /\ my_index'[u] = t)
  <2>1. t \in Nat /\ t < Tests
    BY <1>0 DEF Files
  <2>2. CASE t < index
    BY <1>1, <1>4, <2>2 DEF SharedOut
  <2>3. CASE t = index
    BY <1>0, <1>1, <1>2, <2>1, <2>3 DEF Owes, InProgress
  <2> QED
    BY <1>0, <1>1, <1>6, <2>1, <2>2, <2>3
<1>7. SharedOut(done)'
  BY <1>0, <1>1, <1>3, <1>5, <1>6 DEF SharedOut
<1>8. Recorded(done)'
  BY <1>1, <1>2 DEF Recorded, HasPassed
<1> QED
  BY <1>7, <1>8

\* A test that is executed joins the share of its worker.
LEMMA ExecuteShares ==
  ASSUME SuccessInv, NEW done \in Shares, SharedOut(done), Recorded(done), NEW w \in Workers,
         Simulate(w)
  PROVE  \E d \in Shares : SharedOut(d)' /\ Recorded(d)'
<1>0. /\ pc \in [Workers -> {"start", "draw", "drawn", "convert", "simulate", "store",
                            "returned", "died"}]
      /\ num_executed \in [Workers -> Nat]
      /\ counted \in [Workers -> SUBSET Files]
      /\ done \in [Workers -> SUBSET Files]
      /\ image \in [Files -> Files \cup {None}]
  BY DEF SuccessInv, IndexInv, TypeOK, Shares
<1>1. /\ pc[w] = "simulate" /\ pc' = [pc EXCEPT ![w] = "draw"]
      /\ num_executed' = [num_executed EXCEPT ![w] = @ + 1]
      /\ UNCHANGED <<kind, index, my_index, results>>
  BY DEF Simulate, Goto
<1>2. PICK t : t = my_index[w]
  OBVIOUS
<1>3. t \in Files /\ t < index /\ \A v \in Workers : t \notin done[v]
  BY <1>1, <1>2 DEF SuccessInv, IndexInv, ProgressInv, SharedOut, InProgress
<1>4. PICK d : d = [done EXCEPT ![w] = @ \cup {t}]
  OBVIOUS
<1>5. /\ d \in Shares /\ d[w] = done[w] \cup {t}
      /\ \A u \in Workers \ {w} : d[u] = done[u]
  BY <1>0, <1>3, <1>4 DEF Shares
<1>6. \A u \in Workers : /\ InProgress(u)' => InProgress(u) /\ u # w
                         /\ Owes(u) => Owes(u)' \/ u = w
                         /\ pc'[u] \in {"start", "returned"} => u # w /\ pc'[u] = pc[u]
  BY <1>0, <1>1 DEF InProgress, Owes
<1>7. SharedOut(d)'
  <2>1. \A u, v \in Workers : u # v => d[u] \cap d[v] = {}
    BY <1>3, <1>5 DEF SharedOut
  <2>2. \A u, v \in Workers : InProgress(u)' => my_index'[u] \notin d[v]
    <3>1. \A u \in Workers : InProgress(u)' => my_index[u] # t
      BY <1>1, <1>2, <1>6 DEF SuccessInv, IndexInv, ProgressInv, InProgress
    <3> QED
      BY <1>1, <1>5, <1>6, <3>1 DEF SharedOut
  <2>3. \A u \in Workers : \A s \in d[u] : s < index'
    BY <1>1, <1>3, <1>5 DEF SharedOut
  <2>4. ASSUME NEW s \in Files, s < index'
        PROVE  \E u \in Workers : s \in d[u] \/ (Owes(u)' /\ my_index'[u] = s)
    <3>1. PICK u \in Workers : s \in done[u] \/ (Owes(u) /\ my_index[u] = s)
      BY <1>1, <2>4 DEF SharedOut
    <3>2. s \in d[u] \/ (Owes(u)' /\ my_index'[u] = s) \/ s \in d[w]
      BY <1>1, <1>2, <1>5, <1>6, <3>1
    <3> QED
      BY <3>2
  <2> QED
    BY <2>1, <2>2, <2>3, <2>4 DEF SharedOut
<1>8. Recorded(d)'
  <2>1. Cardinality(d[w]) = Cardinality(done[w]) + 1
    BY <1>3, <1>5, ShareFinite, FS_AddElement
  <2>2. \A u \in Workers : num_executed'[u] = Cardinality(d[u])
    BY <1>0, <1>1, <1>5, <2>1 DEF Recorded
  <2>3. /\ HasPassed(t)' <=> Behaviour(w) = "pass"
        /\ \A s \in Files : s # t => (HasPassed(s)' <=> HasPassed(s))
    <3>1. \A s \in Files : image'[s] = IF s = t THEN hex[w] ELSE image[s]
      BY <1>0, <1>2, <1>3 DEF Simulate
    <3> QED
      BY <1>1, <1>3, <3>1 DEF HasPassed, Behaviour
  <2>4. \A u \in Workers \ {w} : counted'[u] = counted[u]
    BY <1>0 DEF Simulate
  <2>5. counted'[w] = {s \in d[w] : HasPassed(s)'}
    <3>1. counted[w] = {s \in done[w] : HasPassed(s)} /\ t \notin done[w] /\ done[w] \subseteq Files
      BY <1>0, <1>3 DEF Recorded
    <3>2. CASE Behaviour(w) = "pass"
      <4>1. counted'[w] = counted[w] \cup {t}
        BY <1>0, <1>2, <3>2 DEF Simulate
      <4> QED
        BY <1>5, <2>3, <3>1, <3>2, <4>1
    <3>3. CASE Behaviour(w) # "pass"
      <4>1. counted'[w] = counted[w]
        BY <3>3 DEF Simulate
      <4> QED
        BY <1>5, <2>3, <3>1, <3>3, <4>1
    <3> QED
      BY <3>2, <3>3
  <2>7. \A u \in Workers \ {w} : counted'[u] = {s \in d[u] : HasPassed(s)'}
    <3>1. \A u \in Workers : t \notin done[u] /\ done[u] \subseteq Files
      BY <1>0, <1>3
    <3> QED
      BY <1>5, <2>3, <2>4, <3>1 DEF Recorded
  <2>6. \A u \in Workers : counted'[u] = {s \in d[u] : HasPassed(s)'}
    BY <2>5, <2>7
  <2> QED
    BY <1>1, <1>5, <1>6, <2>2, <2>4, <2>6 DEF Recorded
<1> QED
  BY <1>5, <1>7, <1>8

\* What is stored is what has been executed.
LEMMA StoreShares ==
  ASSUME SuccessInv, NEW done \in Shares, SharedOut(done), Recorded(done), NEW w \in Workers,
         Store(w)
  PROVE  SharedOut(done)' /\ Recorded(done)'
<1>0. /\ pc \in [Workers -> {"start", "draw", "drawn", "convert", "simulate", "store",
                            "returned", "died"}]
      /\ results \in [Workers -> Counts]
  BY DEF SuccessInv, IndexInv, TypeOK
<1>1. /\ pc[w] = "store" /\ pc' = [pc EXCEPT ![w] = "returned"]
      /\ UNCHANGED <<kind, index, my_index, num_executed, image, counted>>
  BY DEF Store, Goto, locals, history
<1>2. /\ results'[w] = [executed |-> Cardinality(done[w]), passed |-> Cardinality(counted[w])]
      /\ \A u \in Workers \ {w} : results'[u] = results[u]
  BY <1>0 DEF Store, Recorded, SuccessInv, CountedInv
<1>3. \A u \in Workers : /\ InProgress(u)' = InProgress(u) /\ Owes(u)' = Owes(u)
                         /\ pc'[u] = "start" => pc[u] = "start"
                         /\ pc'[u] = "returned" => pc[u] = "returned" \/ u = w
  BY <1>0, <1>1 DEF InProgress, Owes
<1>4. SharedOut(done)'
  BY <1>1, <1>3 DEF SharedOut
<1>5. Recorded(done)'
  BY <1>1, <1>2, <1>3 DEF Recorded, HasPassed
<1> QED
  BY <1>4, <1>5

\* The counts of a worker that has returned are added, once.
LEMMA AddShares ==
  ASSUME SuccessInv, NEW done \in Shares, Exactly(done), NEW w \in Workers, Add(w)
  PROVE  Exactly(done)'
<1>1. /\ main = "adding" /\ w \notin added /\ added' = added \cup {w}
      /\ UNCHANGED <<kind, index, my_index, num_executed, image, counted, pc, results>>
  BY DEF Add, locals, history
<1>2. SharedOut(done)' /\ Recorded(done)'
  BY <1>1 DEF Exactly, SharedOut, Recorded, HasPassed, InProgress, Owes
<1>3. ASSUME Intact'
      PROVE  total' = [executed |-> Cardinality(Executed(done)'), passed |-> Cardinality(Tallied')]
  <2>1. /\ Intact
        /\ total = [executed |-> Cardinality(Executed(done)), passed |-> Cardinality(Tallied)]
    BY <1>1, <1>3 DEF Intact, Exactly, AddedUp
  <2>2. pc[w] = "returned"
    BY <1>1, <2>1 DEF Intact, SuccessInv, TotalInv, Ended
  <2>3. results[w] = [executed |-> Cardinality(done[w]), passed |-> Cardinality(counted[w])]
    BY <2>2 DEF Exactly, Recorded
  <2>4. added \subseteq Workers
    BY DEF SuccessInv, IndexInv, TypeOK
  <2>5. /\ Executed(done)' = Executed(done) \cup done[w] /\ Executed(done) \cap done[w] = {}
        /\ Tallied' = Tallied \cup counted[w] /\ Tallied \cap counted[w] = {}
    <3>1. Executed(done)' = Executed(done) \cup done[w] /\ Tallied' = Tallied \cup counted[w]
      BY <1>1 DEF Executed, Tallied
    <3>2. Executed(done) \cap done[w] = {}
      BY <1>1, <2>4 DEF Executed, Exactly, SharedOut
    <3>3. Tallied \cap counted[w] = {}
      BY <1>1, <2>4 DEF Tallied, SuccessInv, CountedInv
    <3> QED
      BY <3>1, <3>2, <3>3
  <2>6. ASSUME NEW A, NEW B, IsFiniteSet(A), IsFiniteSet(B), A \cap B = {}
        PROVE  Cardinality(A \cup B) = Cardinality(A) + Cardinality(B)
    <3>1. Cardinality(A \cup B) = Cardinality(A) + Cardinality(B) - Cardinality(A \cap B)
      BY <2>6, FS_Union
    <3>2. Cardinality(A) \in Nat /\ Cardinality(B) \in Nat /\ Cardinality(A \cap B) = 0
      BY <2>6, FS_CardinalityType, FS_EmptySet
    <3> QED
      BY <3>1, <3>2
  <2>7. IsFiniteSet(Executed(done)) /\ IsFiniteSet(Tallied)
    <3>1. Executed(done) \subseteq Files
      BY <2>4 DEF Executed, Shares
    <3> QED
      BY <3>1, FilesFinite, FS_Subset, TalliedFinite DEF SuccessInv, IndexInv
  <2>8. /\ Cardinality(Executed(done)') = Cardinality(Executed(done)) + Cardinality(done[w])
        /\ Cardinality(Tallied') = Cardinality(Tallied) + Cardinality(counted[w])
    BY <2>5, <2>6, <2>7, ShareFinite, CountedFinite DEF SuccessInv, IndexInv
  <2> QED
    BY <2>1, <2>3, <2>8 DEF Add
<1> QED
  BY <1>2, <1>3 DEF Exactly, AddedUp

\* Every step keeps the shares.
LEMMA ExactStep == SuccessInv /\ ExactInv /\ [Next]_vars => ExactInv'
<1> SUFFICES ASSUME SuccessInv, ExactInv, [Next]_vars PROVE ExactInv'
  OBVIOUS
<1>1. PICK done \in Shares : Exactly(done)
  BY DEF ExactInv
<1>2. ASSUME NEW w \in Workers, Worker(w) PROVE ExactInv'
  <2>1. \E d \in Shares : SharedOut(d)' /\ Recorded(d)'
    BY <1>1, <1>2, SharesKept, DrawShares, ExecuteShares, StoreShares DEF Worker, Exactly
  <2>2. \A d \in Shares : AddedUp(d)'
    BY <1>1, <1>2, NothingAdded DEF Exactly
  <2>3. main' = "joining"
    BY <1>1, <1>2, NothingAdded DEF Exactly
  <2> QED
    BY <2>1, <2>2, <2>3 DEF ExactInv, Exactly
<1>3. ASSUME NEW w \in Workers, Add(w) PROVE ExactInv'
  <2>1. main' = "adding"
    BY <1>3 DEF Add
  <2> QED
    BY <1>1, <1>3, <2>1, AddShares DEF ExactInv
<1>4. CASE Join \/ Exit \/ UNCHANGED vars
  <2>1. UNCHANGED <<kind, index, my_index, num_executed, image, counted, pc, results, added,
                    total>>
    BY <1>4 DEF Join, Exit, vars, locals, mainVars, history
  <2>2. Exactly(done)'
    BY <1>1, <2>1 DEF Exactly, SharedOut, Recorded, HasPassed, AddedUp, InProgress, Owes, Intact,
       Executed, Tallied
  <2>3. main' \in {"exit_0", "exit_1"} => added' = Workers
    BY <1>4 DEF Join, Exit, vars, mainVars, ExactInv
  <2> QED
    BY <2>2, <2>3 DEF ExactInv
<1> QED
  BY <1>2, <1>3, <1>4 DEF Next, Main

\* When no worker has died, none owes a test in the end.
LEMMA ExactTotals == SuccessInv /\ ExactInv => TotalsAreExact
<1> SUFFICES ASSUME SuccessInv, ExactInv, main \in {"exit_0", "exit_1"}, AllWorked
             PROVE  total = [executed |-> Tests,
                             passed   |-> Cardinality({t \in Files : HasPassed(t)})]
  BY DEF TotalsAreExact
<1>1. PICK done \in Shares : Exactly(done)
  BY DEF ExactInv
<1>2. added = Workers /\ Intact /\ index >= Tests
  BY DEF ExactInv, AllWorked, Intact
<1>3. \A w \in Workers : ~Owes(w)
  BY <1>2 DEF SuccessInv, TotalInv, Ended, Owes, InProgress, Intact
<1>4. \A t \in Files : t < index
  <2>1. index \in Nat
    BY PastEndFinite DEF SuccessInv, IndexInv, TypeOK
  <2> QED
    BY <1>2, <2>1, TestsPositive DEF Files
<1>5. Executed(done) = Files
  <2>1. \A t \in Files : \E w \in Workers : t \in done[w]
    BY <1>1, <1>3, <1>4 DEF Exactly, SharedOut
  <2> QED
    BY <1>2, <2>1 DEF Executed, Shares
<1>6. Tallied = {t \in Files : HasPassed(t)}
  <2>1. \A w \in Workers : counted[w] = {t \in done[w] : HasPassed(t)}
    BY <1>1 DEF Exactly, Recorded
  <2> QED
    BY <1>2, <1>5, <2>1 DEF Executed, Tallied
<1> QED
  BY <1>1, <1>2, <1>5, <1>6, FilesFinite DEF Exactly, AddedUp

\* When no worker has died, the totals are exact, for any number of workers and
\* tests, whatever the tests do: no test is executed twice, none is left out, and
\* those counted as passed are those that have passed (Run_regression.py:202-223,
\* 340-375).
THEOREM TotalsAreThoseOfTheTests == Spec => []TotalsAreExact
<1>1. SuccessInv /\ [Next]_vars => SuccessInv'
  BY IndexInvStep, ImageStep, CountsStep, TotalStep DEF SuccessInv
<1> QED
  BY <1>1, InitSuccessInv, InitExactInv, ExactStep, ExactTotals, PTL DEF Spec
=============================================================================
