----------------------------- MODULE Regression -----------------------------
(***************************************************************************)
(* The regression runner of the simulators                                 *)
(* (src/verilator_simulators/run/Run_regression.py): worker processes that *)
(* draw the numbers of tests from a shared counter, convert each to a      *)
(* memory image in a directory of their own, simulate it, and leave their  *)
(* counts in a shared array when there are no tests left; and the main     *)
(* process, which joins them and adds up.                                  *)
(*                                                                         *)
(* A step is a critical section or a half of one, a subprocess, or the     *)
(* work of the main process.  What a test does is fixed at the start.      *)
(* Left out: what logs and traces hold, messages, the command line.        *)
(***************************************************************************)
EXTENDS Naturals, FiniteSets

CONSTANTS
  Workers, \* the worker processes, at most n_workers_max
  Tests,   \* n_tests, the number of files
  Kinds,   \* what tests may do: pass, fail, hang, or be no image
  None     \* no worker, no image

ASSUME RegressionAssumption ==
  /\ IsFiniteSet(Workers)
  /\ None \notin Workers \cup Nat
  /\ Tests \in Nat \ {0}
  /\ Kinds \subseteq {"pass", "fail", "hang", "no_image"}

VARIABLES
  kind,         \* what each test does
  index,        \* the shared counter
  lock,         \* the worker inside index.get_lock(), or None
  results,      \* the shared array: executed and passed, for each worker
  pc,           \* where each worker is
  my_index,     \* locals of do_worker
  num_executed,
  num_passed,
  hex,          \* the test whose image is in the Mem.hex of each worker's directory
  main,         \* the main process: joining, adding, or its exit code is known
  added,        \* the workers whose counts it has added
  total,        \* executed and passed so far
  drawn,        \* history: how often each test has been drawn
  image,        \* history: the test by whose image each test has been judged, or None
  counted       \* history: the tests each worker has counted as passed

history == <<drawn, image, counted>>
locals == <<my_index, num_executed, num_passed>>
mainVars == <<main, added, total>>
vars == <<kind, index, lock, results, pc, locals, hex, mainVars, history>>

Files == 0..(Tests - 1)
Counts == [executed : Nat, passed : Nat]
NoCounts == [executed |-> 0, passed |-> 0]

\* The directories of an earlier run are used again, with what is in them.
Init ==
  /\ kind \in [Files -> Kinds]
  /\ index = 0
  /\ lock = None
  /\ results = [w \in Workers |-> NoCounts]
  /\ pc = [w \in Workers |-> "start"]
  /\ my_index = [w \in Workers |-> 0]
  /\ num_executed = [w \in Workers |-> 0]
  /\ num_passed = [w \in Workers |-> 0]
  /\ hex \in [Workers -> {None} \cup {t \in Files : kind[t] # "no_image"}]
  /\ main = "joining"
  /\ added = {}
  /\ total = NoCounts
  /\ drawn = [t \in Files |-> 0]
  /\ image = [t \in Files |-> None]
  /\ counted = [w \in Workers |-> {}]

Goto(w, label) == pc' = [pc EXCEPT ![w] = label]
-----------------------------------------------------------------------------
\* "exists but is not a dir": the worker returns.
NoDirectory(w) ==
  /\ pc[w] = "start"
  /\ Goto(w, "returned")
  /\ UNCHANGED <<kind, index, lock, results, locals, hex, mainVars, history>>

EnterDirectory(w) ==
  /\ pc[w] = "start"
  /\ Goto(w, "draw")
  /\ UNCHANGED <<kind, index, lock, results, locals, hex, mainVars, history>>

\* Mutant of LockFree: the counter is read without its lock.
LockFreeAlways == TRUE

LockFree == lock = None

ReadIndex(w) ==
  /\ pc[w] = "draw"
  /\ LockFree
  /\ lock' = w
  /\ my_index' = [my_index EXCEPT ![w] = index]
  /\ Goto(w, "drawn")
  /\ UNCHANGED <<kind, index, results, num_executed, num_passed, hex, mainVars, history>>

\* Mutant of IndexAfter: every other test is left out.
IndexAfterNext(i) == i + 2

IndexAfter(i) == i + 1

WriteIndex(w) ==
  /\ pc[w] = "drawn"
  /\ index' = IndexAfter(my_index[w])
  /\ lock' = None
  /\ IF my_index[w] >= Tests
     THEN Goto(w, "store") /\ UNCHANGED drawn
     ELSE Goto(w, "convert") /\ drawn' = [drawn EXCEPT ![my_index[w]] = @ + 1]
  /\ UNCHANGED <<kind, results, locals, hex, mainVars, image, counted>>

\* elf_to_hex leaves before it opens the image file if it cannot make an image.
\* Its exit code is not looked at.
Convert(w) ==
  /\ pc[w] = "convert"
  /\ hex' = IF kind[my_index[w]] = "no_image" THEN hex
            ELSE [hex EXCEPT ![w] = my_index[w]]
  /\ Goto(w, "simulate")
  /\ UNCHANGED <<kind, index, lock, results, locals, mainVars, history>>

\* What the simulator does with the image it finds.
Behaviour(w) == IF hex[w] = None THEN "fail" ELSE kind[hex[w]]

\* The simulator ends, with PASS in its output or without, and its output is logged.
Simulate(w) ==
  /\ pc[w] = "simulate"
  /\ Behaviour(w) # "hang"
  /\ num_executed' = [num_executed EXCEPT ![w] = @ + 1]
  /\ image' = [image EXCEPT ![my_index[w]] = hex[w]]
  /\ \/ /\ Behaviour(w) = "pass"
        /\ num_passed' = [num_passed EXCEPT ![w] = @ + 1]
        /\ counted' = [counted EXCEPT ![w] = @ \cup {my_index[w]}]
     \/ /\ Behaviour(w) # "pass"
        /\ UNCHANGED <<num_passed, counted>>
  /\ Goto(w, "draw")
  /\ UNCHANGED <<kind, index, lock, results, my_index, hex, mainVars, drawn>>

\* An exception that nothing catches ends the worker, and its counts with it: its
\* directory cannot be made or entered; elf_to_hex or the simulator takes more
\* than the 30 seconds of run_command; the log or the trace cannot be saved.
Raises(w) ==
  /\ pc[w] \in {"start", "convert", "simulate"}
  /\ Goto(w, "died")
  /\ UNCHANGED <<kind, index, lock, results, locals, hex, mainVars, history>>

Store(w) ==
  /\ pc[w] = "store"
  /\ results' = [results EXCEPT ![w] = [executed |-> num_executed[w], passed |-> num_passed[w]]]
  /\ Goto(w, "returned")
  /\ UNCHANGED <<kind, index, lock, locals, hex, mainVars, history>>
-----------------------------------------------------------------------------
\* Mutants of Ended: main goes on at once, or waits for ever for a worker that
\* has died.
EndedAlways(w) == TRUE
EndedReturned(w) == pc[w] = "returned"

\* join returns however the worker has ended.
Ended(w) == pc[w] \in {"returned", "died"}

\* Mutant of ExitCode: nothing has failed of what has been executed.
ExitCodeExecuted(executed, passed) == IF passed = executed THEN "exit_0" ELSE "exit_1"

\* "Set nonzero exit code unless all tests passed"
ExitCode(executed, passed) == IF passed = Tests THEN "exit_0" ELSE "exit_1"

Join ==
  /\ main = "joining"
  /\ \A w \in Workers : Ended(w)
  /\ main' = "adding"
  /\ UNCHANGED <<kind, index, lock, results, pc, locals, hex, added, total, history>>

\* The order of the workers does not matter.
Add(w) ==
  /\ main = "adding"
  /\ w \notin added
  /\ added' = added \cup {w}
  /\ total' = [executed |-> total.executed + results[w].executed,
               passed   |-> total.passed + results[w].passed]
  /\ UNCHANGED <<kind, index, lock, results, pc, locals, hex, main, history>>

Exit ==
  /\ main = "adding"
  /\ added = Workers
  /\ main' = ExitCode(total.executed, total.passed)
  /\ UNCHANGED <<kind, index, lock, results, pc, locals, hex, added, total, history>>

Main == Join \/ Exit \/ \E w \in Workers : Add(w)

Worker(w) ==
  \/ NoDirectory(w) \/ EnterDirectory(w) \/ ReadIndex(w) \/ WriteIndex(w)
  \/ Convert(w) \/ Simulate(w) \/ Raises(w) \/ Store(w)

Next == Main \/ \E w \in Workers : Worker(w)

Spec == Init /\ [][Next]_vars

\* Processes run, subprocesses end or run out of time.
FairSpec == Spec /\ WF_vars(Main) /\ \A w \in Workers : WF_vars(Worker(w))
-----------------------------------------------------------------------------
\* Every variable has its type; in particular the counter goes past the tests
\* by one for each worker at most.
TypeOK ==
  /\ kind \in [Files -> Kinds]
  /\ index \in 0..(Tests + Cardinality(Workers))
  /\ lock \in Workers \cup {None}
  /\ results \in [Workers -> Counts]
  /\ pc \in [Workers -> {"start", "draw", "drawn", "convert", "simulate", "store",
                         "returned", "died"}]
  /\ my_index \in [Workers -> Nat]
  /\ {num_executed, num_passed} \subseteq [Workers -> Nat]
  /\ hex \in [Workers -> Files \cup {None}]
  /\ main \in {"joining", "adding", "exit_0", "exit_1"}
  /\ added \in SUBSET Workers
  /\ total \in Counts
  /\ drawn \in [Files -> Nat]
  /\ image \in [Files -> Files \cup {None}]
  /\ counted \in [Workers -> SUBSET Files]

\* No test is run twice, and none below the counter has been left out.
EachTestOnce ==
  /\ \A t \in Files : drawn[t] <= 1
  /\ \A t \in Files : t < index => drawn[t] = 1

\* The workers that did their work to the end: none of them has died, and some
\* of them had a directory.
AllWorked == (\A w \in Workers : pc[w] # "died") /\ index >= Tests

\* The simulation of this test has printed PASS, whatever image it ran.
HasPassed(t) == image[t] # None /\ kind[image[t]] = "pass"

\* When no worker has died, and one had a directory, the totals are exact: each test
\* has been executed once, and those counted as passed are those whose simulation
\* printed PASS.  A dead worker takes its counts with it.
TotalsAreExact ==
  main \in {"exit_0", "exit_1"} /\ AllWorked =>
    total = [executed |-> Tests, passed |-> Cardinality({t \in Files : HasPassed(t)})]

\* Whatever becomes of the workers, the runner succeeds only if the simulation of
\* every test printed PASS; and a test that an image can be made of was simulated
\* by its own image, never by that of another.
SuccessIsEarned ==
  main = "exit_0" =>
    \A t \in Files : HasPassed(t) /\ (kind[t] # "no_image" => image[t] = t)

\* "Set nonzero exit code unless all tests passed": success means that every test
\* has passed, by its own image.  The code breaks it: when elf_to_hex makes no
\* image, the one left in the directory is simulated in its place.
SuccessMeansAllPassed == main = "exit_0" => \A t \in Files : kind[t] = "pass"

\* The runner ends, even when tests hang and workers die.
RunnerEnds == <>(main \in {"exit_0", "exit_1"})
=============================================================================
