--------------------------- MODULE BnocToolProofs ---------------------------
(***************************************************************************)
(* What is proved of BnocTool for every number of processes and of boards  *)
(* and for every set of command lines: the debug level of a board is what  *)
(* was asked for, the exit code of a command tells of its failures, every  *)
(* variable has its type, and a command without names finds every board.   *)
(***************************************************************************)
EXTENDS BnocTool, SequenceTheorems, LeastNumber

\* The variables of the processes and of the boards are functions on them.
Domains ==
  /\ DOMAIN pc = Tools /\ DOMAIN line = Tools /\ DOMAIN left = Tools
  /\ DOMAIN dbg_level = Tools
  /\ DOMAIN files = Names /\ DOMAIN level = Names /\ DOMAIN asked = Names

\* What logs other than it was asked to has been raced for.
AskedInv == \A n \in Names \ raced : level[n] = asked[n]

\* The level a process has read is still the level, or is raced for.
ReadLevelInv ==
  \A t \in Tools : pc[t] = "set" /\ File(t) \in Names \ raced
                     => dbg_level[t] = level[File(t)]

\* What a process has open does not go away.
HeldInv == \A t \in Tools, n \in Names : Holds(t, n) => files[n] # "none"

LevelInv == Domains /\ AskedInv /\ ReadLevelInv /\ HeldInv
-----------------------------------------------------------------------------
\* The steps of a process that leave the boards and what it has read alone.
Passes(t) ==
  /\ UNCHANGED <<files, level, asked, raced, dbg_level>>
  /\ DOMAIN left' = Tools /\ DOMAIN line' = Tools
  /\ \A u \in Tools \ {t} : left'[u] = left[u]
  /\ \E to \in {"idle", "scan", "next", "identify", "act"} :
       /\ pc' = [pc EXCEPT ![t] = to]
       /\ \/ to \in {"idle", "scan", "next"}
          \/ to = "identify" /\ left' = left /\ files[File(t)] # "none"
          \/ to = "act" /\ left' = left /\ pc[t] = "identify"

\* Such a step keeps the invariant.
LEMMA PassesStep ==
  ASSUME LevelInv, NEW t \in Tools, Passes(t)
  PROVE  LevelInv'
<1>0. Domains /\ AskedInv /\ ReadLevelInv /\ HeldInv
  BY DEF LevelInv
<1>1. PICK to \in {"idle", "scan", "next", "identify", "act"} :
        /\ pc' = [pc EXCEPT ![t] = to]
        /\ \/ to \in {"idle", "scan", "next"}
           \/ to = "identify" /\ left' = left /\ files[File(t)] # "none"
           \/ to = "act" /\ left' = left /\ pc[t] = "identify"
  BY DEF Passes
<1>2. \A u \in Tools \ {t} : pc'[u] = pc[u] /\ File(u)' = File(u)
  BY <1>0, <1>1 DEF Passes, Domains, File
<1>3. pc'[t] = to
  BY <1>0, <1>1 DEF Domains
<1>4. Domains'
  BY <1>0, <1>1 DEF Domains, Passes
<1>5. AskedInv'
  BY <1>0 DEF AskedInv, Passes
<1>6. ReadLevelInv'
  BY <1>0, <1>2, <1>3 DEF ReadLevelInv, Passes
<1>7. HeldInv'
  <2> SUFFICES ASSUME NEW u \in Tools, NEW n \in Names, Holds(u, n)'
               PROVE  files'[n] # "none"
    BY DEF HeldInv
  <2>1. CASE u # t
    BY <1>0, <1>2, <2>1 DEF Holds, HeldInv, Passes
  <2>2. CASE u = t
    <3>1. to \in {"identify", "act"} /\ left' = left /\ n = File(t)
      BY <1>1, <1>3, <2>2 DEF Holds, File
    <3>2. CASE to = "identify"
      BY <1>1, <3>1, <3>2 DEF Passes
    <3>3. CASE to = "act"
      BY <1>0, <1>1, <3>1, <3>3 DEF Passes, Holds, HeldInv
    <3> QED
      BY <3>1, <3>2, <3>3
  <2> QED
    BY <2>1, <2>2
<1> QED
  BY <1>4, <1>5, <1>6, <1>7 DEF LevelInv

\* Most steps of a process are of that kind.
LEMMA ProcessPasses ==
  ASSUME LevelInv, NEW t \in Tools, main(t) \/ process(t), ~SetLevel(t)
  PROVE  \/ Passes(t)
         \/ /\ GetLevel(t)
            /\ pc' = [pc EXCEPT ![t] = "set"]
            /\ dbg_level' = [dbg_level EXCEPT ![t] = level[File(t)]]
            /\ UNCHANGED <<line, left, files, level, asked, raced>>
<1>0. Domains
  BY DEF LevelInv
<1>1. ASSUME NEW ret, NEW outcome, Finish(t, ret, outcome),
             UNCHANGED <<files, level, asked, raced>>
      PROVE  Passes(t)
  BY <1>0, <1>1 DEF Finish, Passes, Domains
<1>2. CASE Start(t)
  <2>1. PICK args \in Lines : line' = [line EXCEPT ![t] = Parse(args)]
    BY <1>2 DEF Start
  <2>2. DOMAIN line' = Tools /\ left' = [left EXCEPT ![t] = line'[t].names]
    BY <1>0, <1>2, <2>1 DEF Start, Domains
  <2>3. \E to \in {"idle", "scan", "next"} : pc' = [pc EXCEPT ![t] = to]
    <3> DEFINE to == IF line'[t].mode \in {"HELP", "USAGE"} THEN "idle"
                    ELSE IF line'[t].names # <<>> THEN "next" ELSE "scan"
    <3>1. pc' = [pc EXCEPT ![t] = to]
      BY <1>2 DEF Start
    <3>2. to \in {"idle", "scan", "next"}
      OBVIOUS
    <3> QED
      BY <3>1, <3>2
  <2>4. UNCHANGED <<files, level, asked, raced, dbg_level>>
    BY <1>2 DEF Start, boardVars
  <2> QED
    BY <1>0, <2>2, <2>3, <2>4 DEF Passes, Domains
<1>3. CASE Scan(t) \/ Quit(t)
  BY <1>0, <1>3 DEF Scan, Quit, Passes, Domains, boardVars
<1>4. CASE Open(t)
  BY <1>0, <1>4 DEF Open, Passes, Domains, boardVars
<1>5. CASE Identify(t)
  BY <1>0, <1>5 DEF Identify, Passes, Domains, boardVars
<1>6. CASE OpenFails(t) \/ IdentifyFails(t)
  BY <1>1, <1>6 DEF OpenFails, IdentifyFails, NoBoard, boardVars
<1>7. CASE Show(t) \/ NothingToDo(t) \/ Refused(t) \/ Reset(t)
  BY <1>1, <1>7 DEF Show, NothingToDo, Refused, Reset, Returns, boardVars
<1>8. CASE Down(t) \/ Up(t)
  BY <1>1, <1>8 DEF Down, Up, Returns
<1>9. CASE Clock(t) \/ Status(t)
  BY <1>1, <1>9 DEF Clock, Status, Returns, boardVars
<1>10. CASE GetLevel(t)
  <2>1. CASE line[t].on \cup line[t].off = {}
    BY <1>1, <1>10, <2>1 DEF GetLevel, Returns, boardVars
  <2>2. CASE line[t].on \cup line[t].off # {}
    BY <1>10, <2>2 DEF GetLevel, boardVars
  <2> QED
    BY <2>1, <2>2
<1> QED
  BY <1>2, <1>3, <1>4, <1>5, <1>6, <1>7, <1>8, <1>9, <1>10 DEF main, process

\* Reading a level keeps the invariant.
LEMMA GetLevelStep ==
  ASSUME LevelInv, NEW t \in Tools, GetLevel(t),
         pc' = [pc EXCEPT ![t] = "set"],
         dbg_level' = [dbg_level EXCEPT ![t] = level[File(t)]],
         UNCHANGED <<line, left, files, level, asked, raced>>
  PROVE  LevelInv'
<1>0. Domains /\ AskedInv /\ ReadLevelInv /\ HeldInv
  BY DEF LevelInv
<1>1. pc[t] = "act"
  BY DEF GetLevel, Acts
<1>2. Domains' /\ AskedInv'
  BY <1>0 DEF Domains, AskedInv
<1>3. ReadLevelInv'
  BY <1>0 DEF ReadLevelInv, Domains, File
<1>4. HeldInv'
  BY <1>0, <1>1 DEF HeldInv, Holds, Domains, File
<1> QED
  BY <1>2, <1>3, <1>4 DEF LevelInv

\* Writing it does: another process between reading and writing makes the board
\* one that is raced for.
LEMMA SetLevelStep ==
  ASSUME LevelInv, NEW t \in Tools, SetLevel(t)
  PROVE  LevelInv'
<1>0. Domains /\ AskedInv /\ ReadLevelInv /\ HeldInv
  BY DEF LevelInv
<1> DEFINE b == File(t)
<1>1. /\ pc[t] = "set" /\ pc' = [pc EXCEPT ![t] = "next"]
      /\ left' = [left EXCEPT ![t] = Tail(@)]
      /\ UNCHANGED <<line, files, dbg_level>>
      /\ level' = [level EXCEPT ![b] = NewLevel(t)]
      /\ asked' = [asked EXCEPT ![b] = (@ \ line[t].off) \cup line[t].on]
      /\ raced \subseteq raced'
      /\ \A u \in Tools \ {t} : pc[u] = "set" /\ File(u) = b => b \in raced'
  BY DEF SetLevel, Finish, Returns
<1>2. \A u \in Tools \ {t} : pc'[u] = pc[u] /\ File(u)' = File(u)
  BY <1>0, <1>1 DEF Domains, File
<1>3. pc'[t] = "next"
  BY <1>0, <1>1 DEF Domains
<1>4. Domains'
  BY <1>0, <1>1 DEF Domains
<1>5. AskedInv'
  <2> SUFFICES ASSUME NEW n \in Names \ raced' PROVE level'[n] = asked'[n]
    BY DEF AskedInv
  <2>1. CASE n = b
    <3>1. dbg_level[t] = level[b] /\ level[b] = asked[b]
      BY <1>0, <1>1, <2>1 DEF ReadLevelInv, AskedInv
    <3> QED
      BY <1>0, <1>1, <2>1, <3>1 DEF Domains, NewLevel
  <2>2. CASE n # b
    BY <1>0, <1>1, <2>2 DEF Domains, AskedInv
  <2> QED
    BY <2>1, <2>2
<1>6. ReadLevelInv'
  <2> SUFFICES ASSUME NEW u \in Tools, pc'[u] = "set", File(u)' \in Names \ raced'
               PROVE  dbg_level'[u] = level'[File(u)']
    BY DEF ReadLevelInv
  <2>1. u # t /\ pc[u] = "set" /\ File(u)' = File(u) /\ File(u) # b
    BY <1>1, <1>2, <1>3
  <2>2. dbg_level[u] = level[File(u)]
    BY <1>0, <1>1, <2>1 DEF ReadLevelInv
  <2> QED
    BY <1>0, <1>1, <2>1, <2>2 DEF Domains
<1>7. HeldInv'
  BY <1>0, <1>1, <1>2, <1>3 DEF HeldInv, Holds
<1> QED
  BY <1>4, <1>5, <1>6, <1>7 DEF LevelInv

\* Boards come with no level, and nobody holds what comes or goes.
LEMMA BoardsStep ==
  ASSUME LevelInv, NEW n \in Names, Comes(n) \/ Goes(n)
  PROVE  LevelInv'
<1>0. Domains /\ AskedInv /\ ReadLevelInv /\ HeldInv
  BY DEF LevelInv
<1>1. UNCHANGED <<pc, line, left, dbg_level>>
  BY DEF Comes, Goes, toolVars
<1>2. \A t \in Tools : File(t)' = File(t) /\ ~Holds(t, n)
  BY <1>0, <1>1 DEF Comes, Goes, File, HeldInv
<1>3. Domains'
  BY <1>0, <1>1 DEF Comes, Goes, Domains
<1>4. AskedInv'
  BY <1>0 DEF Comes, Goes, Domains, AskedInv
<1>5. ReadLevelInv'
  BY <1>0, <1>1, <1>2 DEF Comes, Goes, Domains, ReadLevelInv, Holds
<1>6. HeldInv'
  BY <1>0, <1>1, <1>2 DEF Comes, Goes, Domains, HeldInv, Holds
<1> QED
  BY <1>3, <1>4, <1>5, <1>6 DEF LevelInv

\* The invariant holds at the start, when no process has begun.
LEMMA InitLevelInv == Init => LevelInv
<1> SUFFICES ASSUME Init PROVE LevelInv
  OBVIOUS
<1>1. Domains
  BY DEF Init, Domains
<1>2. AskedInv
  BY DEF Init, AskedInv
<1>3. ReadLevelInv /\ HeldInv
  BY DEF Init, ReadLevelInv, HeldInv, Holds
<1> QED
  BY <1>1, <1>2, <1>3 DEF LevelInv

\* Every step keeps it.
LEMMA LevelInvStep == LevelInv /\ [Next]_vars => LevelInv'
<1> SUFFICES ASSUME LevelInv, [Next]_vars PROVE LevelInv'
  OBVIOUS
<1>1. ASSUME NEW t \in Tools, main(t) \/ process(t) PROVE LevelInv'
  BY <1>1, ProcessPasses, PassesStep, GetLevelStep, SetLevelStep
<1>2. ASSUME NEW n \in ToSet(Nodes), Comes(n) \/ Goes(n) PROVE LevelInv'
  BY <1>2, BoardsStep DEF Names
<1>3. CASE UNCHANGED vars
  BY <1>3 DEF vars, toolVars, boardVars, LevelInv, Domains, AskedInv, ReadLevelInv,
     HeldInv, Holds, File
<1> QED
  BY <1>1, <1>2, <1>3 DEF Next

\* A board logs what the commands on it have asked for, whatever the command
\* lines and however many processes: only commands that overlap between
\* BNOC_GET_DEBUG_LEVEL and BNOC_SET_DEBUG_LEVEL on one board can make it log
\* anything else (bluenoc.c:354-374).
THEOREM LevelIsAsAsked == Spec => []LevelIsWhatWasAsked
<1>1. LevelInv => LevelIsWhatWasAsked
  BY DEF LevelInv, AskedInv, LevelIsWhatWasAsked, Boards
<1> QED
  BY <1>1, InitLevelInv, LevelInvStep, PTL DEF Spec
-----------------------------------------------------------------------------
(***************************************************************************)
(* The exit code.  For each process: the results are a sequence; the       *)
(* return value of each tells of what it found; process_failed tells of    *)
(* them; with names, the results and the names left make up the names      *)
(* given; and a command that has ended has none left and has told of       *)
(* process_failed.                                                         *)
(***************************************************************************)
IsSequence(s) == \E S : s \in Seq(S)

\* The return value of one file is an error exactly if that is to be told.
Told(t, r) == r.ret = -1 <=> Failed(t, r.outcome)

VerdictInv(t) == \A i \in 1 .. Len(results[t]) : Told(t, results[t][i])

FailedInv(t) == failed[t] <=> \E i \in 1 .. Len(results[t]) : results[t][i].ret = -1

OrderInv(t) ==
  strict(t) =>
    /\ left[t] \in Seq(Names) /\ line[t].names \in Seq(Names) /\ pc[t] # "scan"
    /\ Len(results[t]) + Len(left[t]) = Len(line[t].names)
    /\ \A i \in 1 .. Len(results[t]) : results[t][i].file = line[t].names[i]
    /\ \A j \in 1 .. Len(left[t]) : left[t][j] = line[t].names[Len(results[t]) + j]

EndInv(t) ==
  /\ pc[t] \in {"identify", "act", "set"} => left[t] # <<>>
  /\ pc[t] = "idle" /\ results[t] # <<>> => left[t] = <<>> /\ (exit[t] = 1 <=> failed[t])

WorkInv(t) ==
  IsSequence(results[t]) /\ VerdictInv(t) /\ FailedInv(t) /\ OrderInv(t) /\ EndInv(t)

ToolDomains ==
  /\ DOMAIN pc = Tools /\ DOMAIN line = Tools /\ DOMAIN left = Tools
  /\ DOMAIN results = Tools /\ DOMAIN exit = Tools /\ failed \in [Tools -> BOOLEAN]

ExitInv == ToolDomains /\ \A t \in Tools : WorkInv(t)

\* A sequence with one element more.
LEMMA OneMore ==
  ASSUME NEW s, IsSequence(s), NEW e
  PROVE  /\ IsSequence(Append(s, e))
         /\ Len(s) \in Nat /\ Len(Append(s, e)) = Len(s) + 1
         /\ Append(s, e)[Len(s) + 1] = e
         /\ \A i \in 1 .. Len(s) : Append(s, e)[i] = s[i]
<1>1. PICK S : s \in Seq(S)
  BY DEF IsSequence
<1>2. s \in Seq(S \cup {e}) /\ e \in S \cup {e}
  BY <1>1
<1>3. Append(s, e) \in Seq(S \cup {e})
  BY <1>2
<1> QED
  BY <1>2, <1>3 DEF IsSequence

\* The end of work on a file keeps what is known of a process, if its return
\* value tells what is to be told.
LEMMA FinishWork ==
  ASSUME ExitInv, NEW t \in Tools, NEW ret, NEW outcome,
         Finish(t, ret, outcome), left[t] # <<>>,
         ret = -1 <=> Failed(t, outcome)
  PROVE  WorkInv(t)'
<1> DEFINE r == [file |-> File(t), ret |-> ret, outcome |-> outcome]
           s == results[t]
<1>0. ToolDomains /\ IsSequence(s) /\ VerdictInv(t) /\ FailedInv(t) /\ OrderInv(t)
  BY DEF ExitInv, WorkInv
<1>1. /\ results'[t] = Append(s, r) /\ left'[t] = Tail(left[t]) /\ pc'[t] = "next"
      /\ failed'[t] = (failed[t] \/ ret = -1) /\ UNCHANGED line
  BY <1>0 DEF Finish, ToolDomains, Failure
<1>2. /\ IsSequence(results'[t]) /\ Len(s) \in Nat /\ Len(results'[t]) = Len(s) + 1
      /\ results'[t][Len(s) + 1] = r
      /\ \A i \in 1 .. Len(s) : results'[t][i] = s[i]
  BY <1>0, <1>1, OneMore
<1>3. r.ret = ret /\ r.file = File(t) /\ r.outcome = outcome
  OBVIOUS
<1> HIDE DEF r
<1>4. \A i \in 1 .. (Len(s) + 1) : i \in 1 .. Len(s) \/ i = Len(s) + 1
  BY <1>2
<1>5. VerdictInv(t)'
  BY <1>0, <1>1, <1>2, <1>3, <1>4 DEF VerdictInv, Told, Failed, Mode, strict
<1>6. FailedInv(t)'
  <2>1. \A i \in 1 .. Len(s) : i \in 1 .. (Len(s) + 1)
    BY <1>2
  <2>2. Len(s) + 1 \in 1 .. (Len(s) + 1)
    BY <1>2
  <2>3. CASE ret = -1
    BY <1>1, <1>2, <1>3, <2>2, <2>3 DEF FailedInv
  <2>4. CASE ret # -1
    BY <1>0, <1>1, <1>2, <1>3, <1>4, <2>1, <2>4 DEF FailedInv
  <2> QED
    BY <2>3, <2>4
<1>7. OrderInv(t)'
  <2> SUFFICES ASSUME strict(t) PROVE OrderInv(t)'
    BY <1>1 DEF OrderInv, strict
  <2> DEFINE names == line[t].names
             l == left[t]
  <2>1. /\ l \in Seq(Names) /\ names \in Seq(Names) /\ Len(s) + Len(l) = Len(names)
        /\ \A i \in 1 .. Len(s) : s[i].file = names[i]
        /\ \A j \in 1 .. Len(l) : l[j] = names[Len(s) + j]
    BY <1>0 DEF OrderInv
  <2>2. /\ Tail(l) \in Seq(Names) /\ Len(Tail(l)) = Len(l) - 1 /\ Len(l) >= 1
        /\ Head(l) = l[1] /\ \A j \in 1 .. (Len(l) - 1) : Tail(l)[j] = l[j + 1]
    BY <2>1, HeadTailProperties
  <2>n. Len(l) \in Nat /\ Len(s) \in Nat /\ Len(names) \in Nat
    BY <1>2, <2>1
  <2>3. r.file = names[Len(s) + 1]
    BY <1>3, <2>1, <2>2 DEF File
  <2>4. \A i \in 1 .. Len(results'[t]) : results'[t][i].file = names[i]
    BY <1>2, <1>4, <2>1, <2>3
  <2>5. ASSUME NEW j \in 1 .. (Len(l) - 1) PROVE Tail(l)[j] = names[(Len(s) + 1) + j]
    <3>1. j + 1 \in 1 .. Len(l) /\ Len(s) + (j + 1) = (Len(s) + 1) + j
      <4> HIDE DEF l, s
      <4> QED
        BY <2>n
    <3>2. l[j + 1] = names[Len(s) + (j + 1)]
      BY <2>1, <3>1
    <3>3. Tail(l)[j] = l[j + 1]
      BY <2>2
    <3> QED
      BY <3>1, <3>2, <3>3
  <2>6. Len(results'[t]) + Len(Tail(l)) = Len(names)
    <3>1. Len(results'[t]) = Len(s) + 1 /\ Len(s) + Len(l) = Len(names)
          /\ Len(Tail(l)) = Len(l) - 1
      BY <1>2, <2>1, <2>2
    <3> HIDE DEF l, names, s
    <3>2. Len(results'[t]) + Len(Tail(l)) = (Len(s) + 1) + (Len(l) - 1)
      BY <3>1
    <3>3. \A a, b \in Nat : (a + 1) + (b - 1) = a + b
      OBVIOUS
    <3>4. (Len(s) + 1) + (Len(l) - 1) = Len(s) + Len(l)
      BY <2>n, <3>3
    <3> QED
      BY <3>1, <3>2, <3>4
  <2>7. /\ Len(left'[t]) = Len(l) - 1 /\ left'[t] \in Seq(Names)
        /\ \A j \in 1 .. Len(left'[t]) : left'[t][j] = names[Len(results'[t]) + j]
    <3>1. left'[t] = Tail(l) /\ Len(results'[t]) = Len(s) + 1
      BY <1>1, <1>2
    <3> HIDE DEF l, names, s
    <3> QED
      BY <2>2, <2>5, <3>1
  <2> QED
    BY <1>1, <2>1, <2>2, <2>4, <2>6, <2>7 DEF OrderInv
<1>8. EndInv(t)'
  BY <1>1 DEF EndInv
<1> QED
  BY <1>2, <1>5, <1>6, <1>7, <1>8 DEF WorkInv

\* A step of another process, or of the boards, keeps it as well.
LEMMA OthersWork ==
  ASSUME NEW u \in Tools, WorkInv(u),
         pc'[u] = pc[u], line'[u] = line[u], left'[u] = left[u],
         results'[u] = results[u], exit'[u] = exit[u], failed'[u] = failed[u]
  PROVE  WorkInv(u)'
<1>1. IsSequence(results'[u]) /\ FailedInv(u)' /\ EndInv(u)'
  BY DEF WorkInv, FailedInv, EndInv
<1>2. VerdictInv(u)' /\ OrderInv(u)'
  BY DEF WorkInv, VerdictInv, OrderInv, Told, Failed, Mode, strict
<1> QED
  BY <1>1, <1>2 DEF WorkInv

\* Starting a command gives it no results yet and all its names to work on.
LEMMA StartWork ==
  ASSUME ExitInv, NEW t \in Tools, Start(t)
  PROVE  WorkInv(t)'
<1>0. ToolDomains
  BY DEF ExitInv
<1>1. PICK args \in Lines : line' = [line EXCEPT ![t] = Parse(args)]
  BY DEF Start
<1>2. line'[t].names \in Seq(Names)
  BY <1>0, <1>1, LinesAssumption DEF ToolDomains
<1>3. /\ left'[t] = line'[t].names /\ results'[t] = <<>> /\ failed'[t] = FALSE
      /\ line'[t].names # <<>> => pc'[t] # "scan"
      /\ pc'[t] \in {"idle", "scan", "next"}
  <2>1. left'[t] = line'[t].names /\ results'[t] = <<>> /\ failed'[t] = FALSE
    BY <1>0 DEF Start, ToolDomains
  <2>2. pc'[t] = IF line'[t].mode \in {"HELP", "USAGE"} THEN "idle"
                 ELSE IF line'[t].names # <<>> THEN "next" ELSE "scan"
    BY <1>0 DEF Start, ToolDomains
  <2> QED
    BY <2>1, <2>2
<1>4. Len(results'[t]) = 0 /\ IsSequence(results'[t]) /\ results'[t] = <<>>
  <2>1. <<>> \in Seq({})
    OBVIOUS
  <2> QED
    BY <1>3, <2>1 DEF IsSequence
<1>5. VerdictInv(t)' /\ FailedInv(t)' /\ EndInv(t)'
  BY <1>3, <1>4 DEF VerdictInv, FailedInv, EndInv
<1>6. OrderInv(t)'
  <2>1. Len(line'[t].names) \in Nat
    BY <1>2
  <2>2. \A j \in 1 .. Len(left'[t]) : 0 + j = j
    BY <1>3, <2>1
  <2>3. \A j \in 1 .. Len(left'[t]) : left'[t][j] = line'[t].names[Len(results'[t]) + j]
    BY <1>3, <1>4, <2>2
  <2>4. Len(results'[t]) + Len(left'[t]) = Len(line'[t].names)
    BY <1>3, <1>4, <2>1
  <2> QED
    BY <1>2, <1>3, <1>4, <2>3, <2>4 DEF OrderInv, strict
<1> QED
  BY <1>4, <1>5, <1>6 DEF WorkInv

\* The two kinds of steps of process: the end of work on a file, with a return
\* value that tells what is to be told, and those on the way to it.
Tells(t) ==
  \E ret, outcome :
    /\ Finish(t, ret, outcome)
    /\ left[t] # <<>>
    /\ ret = -1 <=> Failed(t, outcome)

GoesOn(t) ==
  /\ UNCHANGED <<line, left, results, exit, failed>>
  /\ \E to \in {"identify", "act", "set"} : pc' = [pc EXCEPT ![t] = to]
  /\ left[t] # <<>>

\* There are no others.
LEMMA ReturnsTell ==
  ASSUME ExitInv, NEW t \in Tools, process(t)
  PROVE  Tells(t) \/ GoesOn(t)
<1>0. EndInv(t)
  BY DEF ExitInv, WorkInv
<1>1. left[t] # <<>>
  BY <1>0 DEF process, Open, OpenFails, Identify, IdentifyFails, Show, NothingToDo,
     Refused, Reset, Down, Up, Clock, Status, GetLevel, SetLevel, Acts, AsksDriver, EndInv
<1>2. CASE Open(t) \/ Identify(t)
  BY <1>1, <1>2 DEF Open, Identify, GoesOn
<1>3. CASE OpenFails(t) \/ IdentifyFails(t)
  <2>1. PICK outcome \in {"no_board", "denied"} :
          Finish(t, IF strict(t) THEN -1 ELSE -2, outcome)
    BY <1>3 DEF OpenFails, IdentifyFails, NoBoard
  <2>2. (IF strict(t) THEN -1 ELSE -2) = -1 <=> Failed(t, outcome)
    BY DEF Failed
  <2> QED
    BY <1>1, <2>1, <2>2 DEF Tells
<1>4. ASSUME NEW ret \in {0, 1}, NEW outcome, Finish(t, ret, outcome),
             outcome \in {"met", "overtaken"} \/ (outcome = "unmet" /\ Mode(t) = "UP")
      PROVE  Tells(t)
  <2>1. ret # -1 /\ ~Failed(t, outcome)
    BY <1>4 DEF Failed
  <2> QED
    BY <1>1, <1>4, <2>1 DEF Tells
<1>5. ASSUME NEW outcome, Finish(t, -1, outcome),
             outcome = "refused" \/ (outcome = "unmet" /\ Mode(t) # "UP")
      PROVE  Tells(t)
  <2>1. Failed(t, outcome)
    BY <1>5 DEF Failed
  <2> QED
    BY <1>1, <1>5, <2>1 DEF Tells
<1>6. CASE Show(t) \/ NothingToDo(t) \/ Down(t) \/ SetLevel(t)
  <2>1. Returns(t, 0) \/ Returns(t, 1)
    BY <1>6 DEF Show, NothingToDo, Down, SetLevel
  <2> QED
    BY <1>4, <2>1 DEF Returns
<1>7. CASE Reset(t) \/ Up(t)
  <2>1. CASE Reset(t)
    BY <1>4, <2>1 DEF Reset, UnlessOvertaken
  <2>2. CASE Up(t)
    BY <1>4, <2>2 DEF Up, Returns, Acts
  <2> QED
    BY <1>7, <2>1, <2>2
<1>8. CASE Refused(t) \/ Clock(t) \/ Status(t)
  <2>1. CASE Refused(t)
    BY <1>5, <2>1 DEF Refused
  <2>2. CASE Clock(t)
    BY <1>4, <1>5, <2>2 DEF Clock, Returns, Acts
  <2>3. CASE Status(t)
    BY <1>4, <1>5, <2>3 DEF Status, UnlessOvertaken, Acts
  <2> QED
    BY <1>8, <2>1, <2>2, <2>3
<1>9. CASE GetLevel(t)
  <2>1. CASE line[t].on \cup line[t].off = {}
    BY <1>4, <1>9, <2>1 DEF GetLevel, Returns
  <2>2. CASE line[t].on \cup line[t].off # {}
    BY <1>1, <1>9, <2>2 DEF GetLevel, GoesOn
  <2> QED
    BY <2>1, <2>2
<1> QED
  BY <1>2, <1>3, <1>6, <1>7, <1>8, <1>9 DEF process

\* A step of a process that is not the start of a command.
LEMMA OwnWork ==
  ASSUME ExitInv, NEW t \in Tools, Scan(t) \/ Quit(t) \/ process(t)
  PROVE  WorkInv(t)'
<1>0. ToolDomains /\ WorkInv(t)
  BY DEF ExitInv
<1>1. CASE Scan(t)
  <2>1. /\ pc[t] = "scan" /\ pc'[t] = "next"
        /\ UNCHANGED <<line, results, exit, failed>>
    BY <1>0, <1>1 DEF Scan, ToolDomains
  <2>2. ~strict(t)
    BY <1>0, <2>1 DEF WorkInv, OrderInv
  <2>3. IsSequence(results'[t]) /\ VerdictInv(t)' /\ FailedInv(t)'
    BY <1>0, <2>1 DEF WorkInv, VerdictInv, FailedInv, Told, Failed, Mode, strict
  <2>4. OrderInv(t)' /\ EndInv(t)'
    BY <2>1, <2>2 DEF OrderInv, EndInv, strict
  <2> QED
    BY <2>3, <2>4 DEF WorkInv
<1>2. CASE Quit(t)
  <2>1. /\ left[t] = <<>> /\ pc'[t] = "idle" /\ exit'[t] = (IF failed[t] THEN 1 ELSE 0)
        /\ failed[t] \in BOOLEAN
        /\ UNCHANGED <<line, left, results, failed>>
    BY <1>0, <1>2 DEF Quit, ToolDomains
  <2>2. IsSequence(results'[t]) /\ VerdictInv(t)' /\ FailedInv(t)'
    BY <1>0, <2>1 DEF WorkInv, VerdictInv, FailedInv, Told, Failed, Mode, strict
  <2>3. OrderInv(t)'
    BY <1>0, <2>1 DEF WorkInv, OrderInv, strict
  <2>4. EndInv(t)'
    BY <2>1 DEF EndInv
  <2> QED
    BY <2>2, <2>3, <2>4 DEF WorkInv
<1>3. CASE process(t)
  <2>1. CASE Tells(t)
    BY <2>1, FinishWork DEF Tells
  <2>2. CASE GoesOn(t)
    <3>0. PICK to \in {"identify", "act", "set"} : pc' = [pc EXCEPT ![t] = to]
      BY <2>2 DEF GoesOn
    <3>1. pc'[t] = to
      BY <1>0, <3>0 DEF ToolDomains
    <3>2. IsSequence(results'[t]) /\ VerdictInv(t)' /\ FailedInv(t)'
      BY <1>0, <2>2 DEF GoesOn, WorkInv, VerdictInv, FailedInv, Told, Failed, Mode, strict
    <3>3. OrderInv(t)' /\ EndInv(t)'
      BY <1>0, <2>2, <3>1 DEF GoesOn, WorkInv, OrderInv, EndInv, strict
    <3> QED
      BY <3>2, <3>3 DEF WorkInv
  <2> QED
    BY <1>3, <2>1, <2>2, ReturnsTell
<1> QED
  BY <1>1, <1>2, <1>3

\* The parts of the state that a process changes are its own.
LEMMA OwnPartOnly ==
  ASSUME ToolDomains, NEW t \in Tools, main(t) \/ process(t)
  PROVE  /\ ToolDomains'
         /\ \A u \in Tools \ {t} :
              /\ pc'[u] = pc[u] /\ line'[u] = line[u] /\ left'[u] = left[u]
              /\ results'[u] = results[u] /\ exit'[u] = exit[u] /\ failed'[u] = failed[u]
<1>1. ASSUME NEW ret, NEW outcome, Finish(t, ret, outcome)
      PROVE  /\ ToolDomains'
             /\ \A u \in Tools \ {t} :
                  /\ pc'[u] = pc[u] /\ line'[u] = line[u] /\ left'[u] = left[u]
                  /\ results'[u] = results[u] /\ exit'[u] = exit[u]
                  /\ failed'[u] = failed[u]
  BY <1>1 DEF Finish, Failure, ToolDomains
<1>2. CASE main(t)
  BY <1>2 DEF main, Start, Scan, Quit, ToolDomains
<1>3. CASE Open(t) \/ Identify(t)
  BY <1>3 DEF Open, Identify, ToolDomains
<1>4. CASE OpenFails(t) \/ IdentifyFails(t)
  BY <1>1, <1>4 DEF OpenFails, IdentifyFails, NoBoard
<1>5. CASE Show(t) \/ NothingToDo(t) \/ Down(t) \/ SetLevel(t)
  <2>1. Returns(t, 0) \/ Returns(t, 1)
    BY <1>5 DEF Show, NothingToDo, Down, SetLevel
  <2> QED
    BY <1>1, <2>1 DEF Returns
<1>6. CASE Refused(t) \/ Reset(t) \/ Up(t) \/ Clock(t) \/ Status(t)
  BY <1>1, <1>6 DEF Refused, Reset, Up, Clock, Status, Returns
<1>7. CASE GetLevel(t)
  <2>1. CASE line[t].on \cup line[t].off = {}
    BY <1>1, <1>7, <2>1 DEF GetLevel, Returns
  <2>2. CASE line[t].on \cup line[t].off # {}
    BY <1>7, <2>2 DEF GetLevel, ToolDomains
  <2> QED
    BY <2>1, <2>2
<1> QED
  BY <1>2, <1>3, <1>4, <1>5, <1>6, <1>7 DEF process

\* The invariant holds at the start, with no command and no results.
LEMMA InitExitInv == Init => ExitInv
<1> SUFFICES ASSUME Init PROVE ExitInv
  OBVIOUS
<1>1. ToolDomains
  BY DEF Init, ToolDomains
<1>2. ASSUME NEW t \in Tools PROVE WorkInv(t)
  <2>1. /\ pc[t] = "idle" /\ results[t] = <<>> /\ failed[t] = FALSE
        /\ line[t] = NoCommand /\ Len(results[t]) = 0
    BY DEF Init
  <2>2. ~strict(t)
    <3>1. line[t].names = [i \in DOMAIN <<>> |-> <<>>[i].text]
      BY <2>1 DEF NoCommand, Command
    <3>2. [i \in DOMAIN <<>> |-> <<>>[i].text] = <<>>
      OBVIOUS
    <3> QED
      BY <3>1, <3>2 DEF strict
  <2>3. IsSequence(results[t])
    <3>1. <<>> \in Seq({})
      OBVIOUS
    <3> QED
      BY <2>1, <3>1 DEF IsSequence
  <2> QED
    BY <2>1, <2>2, <2>3 DEF WorkInv, VerdictInv, FailedInv, OrderInv, EndInv
<1> QED
  BY <1>1, <1>2 DEF ExitInv

\* Every step keeps it.
LEMMA ExitInvStep == ExitInv /\ [Next]_vars => ExitInv'
<1> SUFFICES ASSUME ExitInv, [Next]_vars PROVE ExitInv'
  OBVIOUS
<1>1. ASSUME NEW t \in Tools, main(t) \/ process(t) PROVE ExitInv'
  <2>1. WorkInv(t)'
    BY <1>1, StartWork, OwnWork DEF main
  <2>2. \A u \in Tools \ {t} : WorkInv(u)'
    BY <1>1, OwnPartOnly, OthersWork DEF ExitInv
  <2>3. ToolDomains'
    BY <1>1, OwnPartOnly DEF ExitInv
  <2> QED
    BY <2>1, <2>2, <2>3 DEF ExitInv
<1>2. CASE UNCHANGED toolVars
  <2>1. ToolDomains'
    BY <1>2 DEF toolVars, ExitInv, ToolDomains
  <2>2. \A u \in Tools : WorkInv(u)'
    BY <1>2, OthersWork DEF toolVars, ExitInv
  <2> QED
    BY <2>1, <2>2 DEF ExitInv
<1> QED
  BY <1>1, <1>2 DEF Next, Comes, Goes, vars

\* A command works on the files it was given, all of them and in order, whatever
\* becomes of those before; and its exit code is 1 exactly if one of them that was
\* named is no board that it can open, a request came back with an error, a board
\* that is down was asked for its status, or a clock did not lock: for every number
\* of files, and wherever in the list that was (bluenoc.c:569-622).  An up whose
\* activate fails is told of as a success, and so is what is asked of a board that
\* another process has taken down meanwhile.
THEOREM ExitCodeTells == Spec => []ExitTellsFailure
<1>1. ExitInv => ExitTellsFailure
  <2> SUFFICES ASSUME ExitInv, NEW t \in Tools, pc[t] = "idle", results[t] # <<>>
               PROVE  /\ strict(t) => [i \in DOMAIN results[t] |-> results[t][i].file]
                                        = line[t].names
                      /\ exit[t] = 1 <=>
                           \E i \in DOMAIN results[t] : Failed(t, results[t][i].outcome)
    BY DEF ExitTellsFailure
  <2>1. /\ IsSequence(results[t]) /\ VerdictInv(t) /\ FailedInv(t) /\ OrderInv(t)
        /\ left[t] = <<>> /\ (exit[t] = 1 <=> failed[t])
    BY DEF ExitInv, WorkInv, EndInv
  <2>2. DOMAIN results[t] = 1 .. Len(results[t]) /\ Len(results[t]) \in Nat
    BY <2>1 DEF IsSequence
  <2>3. exit[t] = 1 <=> \E i \in DOMAIN results[t] : Failed(t, results[t][i].outcome)
    BY <2>1, <2>2 DEF VerdictInv, FailedInv, Told
  <2>4. ASSUME strict(t)
        PROVE  [i \in DOMAIN results[t] |-> results[t][i].file] = line[t].names
    <3>1. /\ line[t].names \in Seq(Names)
          /\ Len(results[t]) + Len(left[t]) = Len(line[t].names)
          /\ \A i \in 1 .. Len(results[t]) : results[t][i].file = line[t].names[i]
      BY <2>1, <2>4 DEF OrderInv
    <3>2. Len(left[t]) = 0
      BY <2>1
    <3>3. DOMAIN line[t].names = 1 .. Len(results[t])
      BY <2>2, <3>1, <3>2
    <3>4. line[t].names = [i \in 1 .. Len(results[t]) |-> line[t].names[i]]
      BY <3>1, <3>3
    <3> QED
      BY <2>2, <3>1, <3>4
  <2> QED
    BY <2>3, <2>4
<1> QED
  BY <1>1, InitExitInv, ExitInvStep, PTL DEF Spec
-----------------------------------------------------------------------------
(***************************************************************************)
(* Types.  What Parse makes of a command line is a command of the tool, by *)
(* the longest prefix of debug words, which there is.                      *)
(***************************************************************************)
CommandType ==
  [mode : Modes \cup {"USAGE"}, off : SUBSET Bits, on : SUBSET Bits, names : Seq(Names)]

\* The bits that a mode has a use for.
BitsOf(mode) ==
  CASE mode \in {"DEBUG", "USAGE"} -> DebugBits
    [] mode = "PROFILE"            -> {DEBUG_PROFILE}
    [] OTHER                       -> {}

\* A word behind "debug" stands for bits of debugging.
LEMMA DebugWordsAre == \A w \in DOMAIN DebugWords : DebugWords[w] \subseteq DebugBits
BY DEF DebugWords, DebugBits

\* The first argument stands for a mode.
LEMMA ModeWordsAre == \A w \in DOMAIN ModeWords : ModeWords[w] \in Modes
BY DEF ModeWords, Modes

\* There is a longest prefix of debug words.
LEMMA DebugPrefix ==
  ASSUME NEW args \in Seq(Argument)
  PROVE  \E k \in 0..Len(args) :
           /\ \A i \in 1..k : IsDebugWord(args[i])
           /\ k < Len(args) => ~IsDebugWord(args[k + 1])
<1> DEFINE stops == {k \in Nat : /\ k <= Len(args)
                                 /\ k < Len(args) => ~IsDebugWord(args[k + 1])}
<1>1. Len(args) \in stops
  OBVIOUS
<1>2. PICK k \in stops : \A j \in stops : k <= j
  <2>1. stops \subseteq Nat /\ stops # {}
    BY <1>1
  <2> HIDE DEF stops
  <2> QED
    BY <2>1, Least
<1>3. ASSUME NEW i \in 1..k, ~IsDebugWord(args[i]) PROVE FALSE
  <2>0. PICK j \in Nat : j + 1 = i
    BY <1>2
  <2>1. j < k /\ j <= Len(args)
    BY <1>2, <2>0
  <2>2. j \in stops
    BY <1>3, <2>0, <2>1
  <2> QED
    BY <1>2, <2>1, <2>2
<1> QED
  BY <1>2, <1>3

\* What ParseDebug makes of a command line.
LEMMA ParseDebugType ==
  ASSUME NEW args \in Seq(Argument)
  PROVE  \E mode \in {"DEBUG", "USAGE"}, off \in SUBSET DebugBits, on \in SUBSET DebugBits :
            \E s : ParseDebug(args) = Command(mode, off, on, s)
<1> DEFINE Stop(k) == /\ \A i \in 1..k : IsDebugWord(args[i])
                      /\ k < Len(args) => ~IsDebugWord(args[k + 1])
           n == CHOOSE k \in 0..Len(args) : Stop(k)
           off == UNION {DebugWords[args[i].text] : i \in {j \in 1..n : SwitchesOff(args[j])}}
           on  == UNION {DebugWords[args[i].text] : i \in {j \in 1..n : ~SwitchesOff(args[j])}}
           bad == \/ \E i \in 1..n : args[i].minus /\ args[i].text \in {"off", "on"}
                  \/ off \cap on # {}
<1>1. \E k \in 0..Len(args) : Stop(k)
  BY DebugPrefix
<1>2. n \in 0..Len(args) /\ Stop(n)
  <2> HIDE DEF Stop
  <2> QED
    BY <1>1
<1>3. \A i \in 1..n : DebugWords[args[i].text] \subseteq DebugBits
  BY <1>2, DebugWordsAre DEF IsDebugWord
<1>4. ParseDebug(args) = Command(IF bad THEN "USAGE" ELSE "DEBUG", off, on,
                                 SubSeq(args, n + 1, Len(args)))
  BY DEF ParseDebug
<1> HIDE DEF n
<1>5. off \in SUBSET DebugBits /\ on \in SUBSET DebugBits
  BY <1>3
<1> HIDE DEF off, on
<1>6. (IF bad THEN "USAGE" ELSE "DEBUG") \in {"DEBUG", "USAGE"}
  OBVIOUS
<1> QED
  BY <1>4, <1>5, <1>6

\* And ParseProfile.
LEMMA ParseProfileType ==
  ASSUME NEW args
  PROVE  \E off \in SUBSET {DEBUG_PROFILE}, on \in SUBSET {DEBUG_PROFILE} :
           \E s : ParseProfile(args) = Command("PROFILE", off, on, s)
<1> DEFINE word == IF args # <<>> /\ ~args[1].minus THEN args[1].text ELSE "none"
<1>1. CASE word \in {"start", "on"}
  <2>1. ParseProfile(args) = Command("PROFILE", {}, {DEBUG_PROFILE}, Tail(args))
    BY <1>1 DEF ParseProfile
  <2> QED
    BY <2>1
<1>2. CASE word \in {"stop", "off"}
  <2>1. ParseProfile(args) = Command("PROFILE", {DEBUG_PROFILE}, {}, Tail(args))
    BY <1>2 DEF ParseProfile
  <2> QED
    BY <2>1
<1>3. CASE word \notin {"start", "on", "stop", "off"}
  <2>1. ParseProfile(args) = Command("PROFILE", {}, {}, args)
    BY <1>3 DEF ParseProfile
  <2> QED
    BY <2>1
<1> QED
  BY <1>1, <1>2, <1>3

\* A command line is taken for a command, with bits that its mode has a use for.
LEMMA ParseType ==
  ASSUME NEW args \in Lines
  PROVE  /\ Parse(args) \in CommandType
         /\ Parse(args).off \cup Parse(args).on \subseteq BitsOf(Parse(args).mode)
<1> DEFINE mode == IF args # <<>> /\ ~args[1].minus /\ args[1].text \in DOMAIN ModeWords
                   THEN ModeWords[args[1].text] ELSE "none"
           Good(m, off, on, s) ==
             /\ Parse(args) = Command(m, off, on, s)
             /\ m \in Modes \cup {"USAGE"} /\ off \cup on \subseteq BitsOf(m)
<1>1. args \in Seq(Argument) /\ Parse(args).names \in Seq(Names)
  BY LinesAssumption
<1>2. ASSUME NEW m, NEW off, NEW on, NEW s, Good(m, off, on, s)
      PROVE  /\ Parse(args) \in CommandType
             /\ Parse(args).off \cup Parse(args).on \subseteq BitsOf(Parse(args).mode)
  <2>1. /\ Parse(args).mode = m /\ Parse(args).off = off /\ Parse(args).on = on
        /\ Parse(args) = [mode |-> m, off |-> off, on |-> on, names |-> Parse(args).names]
    BY <1>2 DEF Command
  <2>2. BitsOf(m) \subseteq Bits
    BY DEF BitsOf, Bits
  <2> QED
    BY <1>1, <1>2, <2>1, <2>2 DEF CommandType
<1>3. {} \subseteq BitsOf("HELP") /\ {"HELP", "INFO"} \subseteq Modes
  BY DEF Modes
<1>4. CASE args # <<>> /\ args[1].minus
  <2>1. CASE args[1].text = "h"
    <3>1. Parse(args) = Command("HELP", {}, {}, <<>>)
      BY <1>4, <2>1 DEF Parse
    <3>2. Good("HELP", {}, {}, <<>>)
      BY <1>3, <3>1
    <3> QED
      BY <1>2, <3>2
  <2>2. CASE args[1].text # "h"
    <3>1. Parse(args) = Command("USAGE", {}, {}, <<>>)
      BY <1>4, <2>2 DEF Parse
    <3>2. Good("USAGE", {}, {}, <<>>)
      BY <3>1
    <3> QED
      BY <1>2, <3>2
  <2> QED
    BY <2>1, <2>2
<1>5. CASE ~(args # <<>> /\ args[1].minus)
  <2>1. CASE mode = "none"
    <3>1. Parse(args) = Command("INFO", {}, {}, args)
      BY <1>5, <2>1 DEF Parse
    <3>2. Good("INFO", {}, {}, args)
      BY <1>3, <3>1
    <3> QED
      BY <1>2, <3>2
  <2>2. CASE mode # "none"
    <3>1. args # <<>> /\ mode \in Modes
      BY <2>2, ModeWordsAre
    <3>2. Tail(args) \in Seq(Argument)
      BY <1>1, <3>1
    <3> HIDE DEF mode
    <3>3. CASE mode = "DEBUG"
      <4>1. Parse(args) = ParseDebug(Tail(args))
        BY <1>5, <3>3 DEF Parse, mode
      <4>2. PICK m \in {"DEBUG", "USAGE"}, off \in SUBSET DebugBits, on \in SUBSET DebugBits :
                   \E s : Parse(args) = Command(m, off, on, s)
        BY <3>2, <4>1, ParseDebugType
      <4>3. PICK s : Parse(args) = Command(m, off, on, s)
        BY <4>2
      <4>4. Good(m, off, on, s)
        BY <4>3 DEF BitsOf, Modes
      <4> QED
        BY <1>2, <4>4
    <3>4. CASE mode = "PROFILE"
      <4>1. Parse(args) = ParseProfile(Tail(args))
        BY <1>5, <3>4 DEF Parse, mode
      <4>2. PICK off \in SUBSET {DEBUG_PROFILE}, on \in SUBSET {DEBUG_PROFILE} :
                   \E s : Parse(args) = Command("PROFILE", off, on, s)
        BY <4>1, ParseProfileType
      <4>3. PICK s : Parse(args) = Command("PROFILE", off, on, s)
        BY <4>2
      <4>4. Good("PROFILE", off, on, s)
        BY <4>3 DEF BitsOf, Modes
      <4> QED
        BY <1>2, <4>4
    <3>5. CASE mode = "CLOCK"
      <4> DEFINE rest == IF Tail(args) = <<>> THEN Tail(args) ELSE Tail(Tail(args))
      <4>1. Parse(args) = Command("CLOCK", {}, {}, rest)
        BY <1>5, <3>5 DEF Parse, ParseClock, mode
      <4>2. Good("CLOCK", {}, {}, rest)
        BY <4>1 DEF Modes
      <4> HIDE DEF rest
      <4> QED
        BY <1>2, <4>2
    <3>6. CASE mode \notin {"DEBUG", "PROFILE", "CLOCK"}
      <4>1. Parse(args) = Command(mode, {}, {}, Tail(args))
        BY <1>5, <2>2, <3>6 DEF Parse, mode
      <4>2. Good(mode, {}, {}, Tail(args))
        BY <3>1, <4>1
      <4> QED
        BY <1>2, <4>2
    <3> QED
      BY <3>3, <3>4, <3>5, <3>6
  <2> QED
    BY <2>1, <2>2
<1> QED
  BY <1>4, <1>5

\* The state of the processes.
ToolTypes ==
  /\ pc \in [Tools -> {"idle", "scan", "next", "identify", "act", "set"}]
  /\ line \in [Tools -> CommandType]
  /\ \A t \in Tools : line[t].off \cup line[t].on \subseteq BitsOf(line[t].mode)
  /\ left \in [Tools -> Seq(Names)]
  /\ results \in [Tools -> Seq(Result)]
  /\ is_active \in [Tools -> BOOLEAN]
  /\ dbg_level \in [Tools -> SUBSET Bits]
  /\ failed \in [Tools -> BOOLEAN]
  /\ exit \in [Tools -> {0, 1}]
  /\ steady \in [Tools -> SUBSET Names]
  /\ commands \in 0..MaxCommands

\* That of the boards.
BoardTypes ==
  /\ files \in [Names -> {"none", "board", "other"}]
  /\ active \subseteq Boards
  /\ level \in [Names -> SUBSET Bits]
  /\ asked \in [Names -> SUBSET Bits]
  /\ raced \subseteq Names
  /\ changes \in 0..MaxChanges

\* A process has a file at hand, and it is there; past BNOC_IDENTIFY it is a board.
HandInv ==
  \A t \in Tools :
    /\ pc[t] \in {"identify", "act", "set"} => left[t] # <<>> /\ files[File(t)] # "none"
    /\ pc[t] \in {"act", "set"} => files[File(t)] = "board"

TypeInv == ToolTypes /\ BoardTypes /\ HandInv

\* The file at hand is a name.
LEMMA FileIsName ==
  ASSUME ToolTypes, NEW t \in Tools, left[t] # <<>>
  PROVE  File(t) \in Names
<1>1. left[t] \in Seq(Names)
  BY DEF ToolTypes
<1> QED
  BY <1>1, HeadTailProperties DEF File

\* What the steps of a process do to its own part of the state, as far as types go.
LEMMA FinishTypes ==
  ASSUME TypeInv, NEW t \in Tools, left[t] # <<>>,
         NEW ret \in {1, 0, -1, -2}, NEW outcome \in Outcomes,
         Finish(t, ret, outcome)
  PROVE  ToolTypes'
<1> DEFINE r == [file |-> File(t), ret |-> ret, outcome |-> outcome]
<1>0. ToolTypes
  BY DEF TypeInv
<1>1. r \in Result
  BY <1>0, FileIsName DEF Result
<1>2. results' = [results EXCEPT ![t] = Append(@, r)]
  BY DEF Finish
<1>3. Append(results[t], r) \in Seq(Result)
  BY <1>0, <1>1 DEF ToolTypes
<1> HIDE DEF r
<1>4. results' \in [Tools -> Seq(Result)]
  BY <1>0, <1>2, <1>3 DEF ToolTypes
<1>5. Tail(left[t]) \in Seq(Names)
  BY <1>0, HeadTailProperties DEF ToolTypes
<1>6. left' \in [Tools -> Seq(Names)]
  BY <1>0, <1>5 DEF Finish, ToolTypes
<1>7. failed' \in [Tools -> BOOLEAN]
  BY <1>0 DEF Finish, ToolTypes, Failure
<1>8. pc' \in [Tools -> {"idle", "scan", "next", "identify", "act", "set"}]
  BY <1>0 DEF Finish, ToolTypes
<1> QED
  BY <1>0, <1>4, <1>6, <1>7, <1>8 DEF Finish, ToolTypes

\* Where a process is after a step, and what it has at hand.
Moves(t, to) ==
  /\ pc' = [pc EXCEPT ![t] = to]
  /\ \A u \in Tools \ {t} : left'[u] = left[u]
  /\ to \in {"identify", "act", "set"} =>
       /\ left' = left /\ left[t] # <<>> /\ files[File(t)] # "none"
       /\ to # "identify" => files[File(t)] = "board"

\* Which keeps what is known of the files at hand.
LEMMA MoveHand ==
  ASSUME TypeInv, NEW t \in Tools, NEW to, Moves(t, to), UNCHANGED files
  PROVE  HandInv'
<1> SUFFICES ASSUME NEW u \in Tools
             PROVE  /\ pc'[u] \in {"identify", "act", "set"}
                          => left'[u] # <<>> /\ files'[File(u)'] # "none"
                    /\ pc'[u] \in {"act", "set"} => files'[File(u)'] = "board"
  BY DEF HandInv
<1>1. CASE u # t
  BY <1>1 DEF TypeInv, HandInv, Moves, ToolTypes, File
<1>2. CASE u = t
  BY <1>2 DEF TypeInv, HandInv, Moves, ToolTypes, File
<1> QED
  BY <1>1, <1>2

LEMMA FinishHand ==
  ASSUME TypeInv, NEW t \in Tools, NEW ret, NEW outcome,
         Finish(t, ret, outcome), UNCHANGED files
  PROVE  HandInv'
<1>1. Moves(t, "next")
  BY DEF Finish, Moves, TypeInv, ToolTypes
<1> QED
  BY <1>1, MoveHand

LEMMA BoardsStay ==
  ASSUME BoardTypes, UNCHANGED boardVars, UNCHANGED changes
  PROVE  BoardTypes'
BY DEF BoardTypes, boardVars, Boards

\* The end of work on a file that leaves the boards alone.
LEMMA FinishStay ==
  ASSUME TypeInv, NEW t \in Tools, left[t] # <<>>,
         NEW ret \in {1, 0, -1, -2}, NEW outcome \in Outcomes,
         Finish(t, ret, outcome), UNCHANGED boardVars
  PROVE  TypeInv'
<1>1. UNCHANGED files /\ UNCHANGED changes
  BY DEF Finish, boardVars
<1> QED
  BY <1>1, FinishTypes, FinishHand, BoardsStay DEF TypeInv

LEMMA StartTypes ==
  ASSUME TypeInv, NEW t \in Tools, Start(t)
  PROVE  TypeInv'
<1>0. ToolTypes /\ BoardTypes
  BY DEF TypeInv
<1>1. PICK args \in Lines : line' = [line EXCEPT ![t] = Parse(args)]
  BY DEF Start
<1> DEFINE c == Parse(args)
<1>2. /\ c \in CommandType /\ c.off \cup c.on \subseteq BitsOf(c.mode)
      /\ c.names \in Seq(Names)
  BY ParseType DEF CommandType
<1> HIDE DEF c
<1>3. line' = [line EXCEPT ![t] = c] /\ line'[t] = c
  BY <1>0, <1>1 DEF c, ToolTypes
<1>4. /\ line' \in [Tools -> CommandType]
      /\ \A u \in Tools : line'[u].off \cup line'[u].on \subseteq BitsOf(line'[u].mode)
  BY <1>0, <1>2, <1>3 DEF ToolTypes
<1>5. /\ left' = [left EXCEPT ![t] = c.names]
      /\ left' \in [Tools -> Seq(Names)]
  BY <1>0, <1>2, <1>3 DEF Start, ToolTypes
<1>6. PICK to \in {"idle", "scan", "next"} : pc' = [pc EXCEPT ![t] = to]
  BY DEF Start
<1>7. results' \in [Tools -> Seq(Result)]
  BY <1>0 DEF Start, ToolTypes
<1>8. commands' \in 0..MaxCommands
  BY <1>0, ToolAssumption DEF Start, ToolTypes
<1>9. steady' \in [Tools -> SUBSET Names]
  BY <1>0 DEF Start, ToolTypes, Boards
<1>10. ToolTypes'
  BY <1>0, <1>4, <1>5, <1>6, <1>7, <1>8, <1>9 DEF Start, ToolTypes
<1>11. Moves(t, to)
  BY <1>0, <1>5, <1>6 DEF Moves, ToolTypes
<1>12. UNCHANGED files /\ UNCHANGED boardVars /\ UNCHANGED changes
  BY DEF Start, boardVars
<1> QED
  BY <1>0, <1>10, <1>11, <1>12, MoveHand, BoardsStay DEF TypeInv

\* The other steps of main.
LEMMA MainTypes ==
  ASSUME TypeInv, NEW t \in Tools, Scan(t) \/ Quit(t)
  PROVE  TypeInv'
<1>0. ToolTypes /\ BoardTypes
  BY DEF TypeInv
<1>1. left' \in [Tools -> Seq(Names)] /\ \A u \in Tools \ {t} : left'[u] = left[u]
  <2>1. CASE Scan(t)
    <3>1. PICK present \in Entries : left' = [left EXCEPT ![t] = present]
      BY <2>1 DEF Scan, Listed
    <3>2. present \in Seq(Names)
      BY DEF Entries, SeqOf, Names
    <3> QED
      BY <1>0, <3>1, <3>2 DEF ToolTypes
  <2>2. CASE Quit(t)
    BY <1>0, <2>2 DEF Quit, ToolTypes
  <2> QED
    BY <2>1, <2>2
<1>2. PICK to \in {"next", "idle"} : pc' = [pc EXCEPT ![t] = to]
  BY DEF Scan, Quit
<1>3. ToolTypes'
  BY <1>0, <1>1, <1>2 DEF Scan, Quit, ToolTypes
<1>4. Moves(t, to)
  BY <1>1, <1>2 DEF Moves
<1>5. UNCHANGED files /\ UNCHANGED boardVars /\ UNCHANGED changes
  BY DEF Scan, Quit, boardVars
<1> QED
  BY <1>0, <1>3, <1>4, <1>5, MoveHand, BoardsStay DEF TypeInv

\* Those of process that go on with the file at hand.
LEMMA GoOnTypes ==
  ASSUME TypeInv, NEW t \in Tools, Open(t) \/ Identify(t)
  PROVE  TypeInv'
<1>0. ToolTypes /\ BoardTypes /\ HandInv
  BY DEF TypeInv
<1>1. PICK to \in {"identify", "act"} : pc' = [pc EXCEPT ![t] = to] /\ Moves(t, to)
  <2>1. CASE Open(t)
    BY <2>1 DEF Open, Moves
  <2>2. CASE Identify(t)
    <3>1. left[t] # <<>> /\ left' = left /\ files[File(t)] = "board"
      BY <1>0, <2>2 DEF Identify, HandInv
    <3>2. pc' = [pc EXCEPT ![t] = "act"]
      BY <2>2 DEF Identify
    <3>3. Moves(t, "act")
      BY <3>1, <3>2 DEF Moves
    <3> QED
      BY <3>2, <3>3
  <2> QED
    BY <2>1, <2>2
<1>2. ToolTypes'
  <2>1. is_active' \in [Tools -> BOOLEAN]
    <3>1. ASSUME NEW v \in BOOLEAN, is_active' = [is_active EXCEPT ![t] = v]
          PROVE  is_active' \in [Tools -> BOOLEAN]
      BY <1>0, <3>1 DEF ToolTypes
    <3>2. (File(t) \in active) \in BOOLEAN
      OBVIOUS
    <3>3. CASE Identify(t)
      BY <3>1, <3>2, <3>3 DEF Identify
    <3>4. CASE Open(t)
      BY <1>0, <3>4 DEF Open, ToolTypes
    <3> QED
      BY <3>3, <3>4
  <2>2. pc' \in [Tools -> {"idle", "scan", "next", "identify", "act", "set"}]
    BY <1>0, <1>1 DEF ToolTypes
  <2> QED
    BY <1>0, <2>1, <2>2 DEF Open, Identify, ToolTypes
<1>3. UNCHANGED files /\ UNCHANGED boardVars /\ UNCHANGED changes
  BY DEF Open, Identify, boardVars
<1> QED
  BY <1>0, <1>1, <1>2, <1>3, MoveHand, BoardsStay DEF TypeInv

\* The bits of a command are bits.
LEMMA LineBits ==
  ASSUME ToolTypes, NEW t \in Tools
  PROVE  line[t].on \subseteq Bits /\ line[t].off \subseteq Bits
BY DEF ToolTypes, CommandType

LEMMA GetLevelTypes ==
  ASSUME TypeInv, NEW t \in Tools, GetLevel(t)
  PROVE  TypeInv'
<1>0. ToolTypes /\ BoardTypes /\ HandInv
  BY DEF TypeInv
<1>1. pc[t] = "act" /\ left[t] # <<>> /\ files[File(t)] = "board" /\ File(t) \in Names
  BY <1>0, FileIsName DEF GetLevel, Acts, HandInv
<1>2. UNCHANGED boardVars
  BY DEF GetLevel
<1>3. CASE line[t].on \cup line[t].off = {}
  <2>1. Finish(t, 0, "met") /\ "met" \in Outcomes
    BY <1>3 DEF GetLevel, Returns, Outcomes
  <2> QED
    BY <1>1, <1>2, <2>1, FinishStay
<1>4. CASE line[t].on \cup line[t].off # {}
  <2>1. /\ pc' = [pc EXCEPT ![t] = "set"]
        /\ dbg_level' = [dbg_level EXCEPT ![t] = level[File(t)]]
        /\ UNCHANGED <<line, left, is_active, failed, exit, results, steady, commands, changes>>
    BY <1>4 DEF GetLevel
  <2>2. ToolTypes'
    BY <1>0, <1>1, <2>1 DEF ToolTypes, BoardTypes
  <2>3. Moves(t, "set") /\ UNCHANGED files
    BY <1>1, <1>2, <2>1 DEF Moves, boardVars
  <2> QED
    BY <1>0, <1>2, <2>1, <2>2, <2>3, MoveHand, BoardsStay DEF TypeInv
<1> QED
  BY <1>3, <1>4

LEMMA SetLevelTypes ==
  ASSUME TypeInv, NEW t \in Tools, SetLevel(t)
  PROVE  TypeInv'
<1> DEFINE b == File(t)
<1>0. ToolTypes /\ BoardTypes /\ HandInv
  BY DEF TypeInv
<1>1. left[t] # <<>> /\ b \in Names
  BY <1>0, FileIsName DEF SetLevel, HandInv
<1>2. /\ Finish(t, 1, "met") /\ "met" \in Outcomes
      /\ UNCHANGED files /\ UNCHANGED changes
  BY DEF SetLevel, Returns, Finish, Outcomes
<1>3. ToolTypes' /\ HandInv'
  BY <1>1, <1>2, FinishTypes, FinishHand
<1>4. level' \in [Names -> SUBSET Bits]
  <2>1. NewLevel(t) \subseteq Bits
    BY <1>0, LineBits DEF NewLevel, ToolTypes
  <2>2. level' = [level EXCEPT ![b] = NewLevel(t)]
    BY DEF SetLevel
  <2> QED
    BY <1>0, <2>1, <2>2 DEF BoardTypes
<1>5. asked' \in [Names -> SUBSET Bits]
  <2>1. asked' = [asked EXCEPT ![b] = (@ \ line[t].off) \cup line[t].on]
    BY DEF SetLevel
  <2> QED
    BY <1>0, <2>1, LineBits DEF BoardTypes
<1>6. raced' \subseteq Names
  BY <1>0, <1>1 DEF SetLevel, BoardTypes
<1>7. BoardTypes'
  BY <1>0, <1>2, <1>4, <1>5, <1>6 DEF SetLevel, BoardTypes, Boards
<1> QED
  BY <1>3, <1>7 DEF TypeInv

LEMMA UpDownTypes ==
  ASSUME TypeInv, NEW t \in Tools, Up(t) \/ Down(t)
  PROVE  TypeInv'
<1>0. ToolTypes /\ BoardTypes /\ HandInv
  BY DEF TypeInv
<1>1. left[t] # <<>> /\ File(t) \in Boards
  BY <1>0, FileIsName DEF Up, Down, Acts, HandInv, Boards
<1>2. PICK outcome \in Outcomes : Finish(t, 1, outcome)
  BY DEF Up, Down, Returns, Outcomes
<1>3. UNCHANGED <<files, level, asked, raced, changes>>
  BY <1>2 DEF Up, Down, Finish
<1>4. ToolTypes' /\ HandInv'
  BY <1>1, <1>2, <1>3, FinishTypes, FinishHand
<1>5. active' \subseteq Boards
  BY <1>0, <1>1 DEF Up, Down, BoardTypes
<1>6. BoardTypes'
  BY <1>0, <1>3, <1>5 DEF BoardTypes, Boards
<1> QED
  BY <1>4, <1>6 DEF TypeInv

LEMMA OtherTypes ==
  ASSUME TypeInv, NEW t \in Tools,
         \/ OpenFails(t) \/ IdentifyFails(t) \/ Show(t) \/ NothingToDo(t)
         \/ Refused(t) \/ Reset(t) \/ Clock(t) \/ Status(t)
  PROVE  TypeInv'
<1>0. HandInv
  BY DEF TypeInv
<1>1. left[t] # <<>> /\ UNCHANGED boardVars
  BY <1>0 DEF OpenFails, IdentifyFails, Show, NothingToDo, Refused, Reset, Clock, Status,
     Acts, AsksDriver, NoBoard, HandInv
<1>2. \E ret \in {1, 0, -1, -2}, outcome \in Outcomes : Finish(t, ret, outcome)
  <2>1. CASE OpenFails(t) \/ IdentifyFails(t)
    <3>1. \E outcome \in Outcomes : Finish(t, IF strict(t) THEN -1 ELSE -2, outcome)
      BY <2>1 DEF OpenFails, IdentifyFails, NoBoard, Outcomes
    <3>2. (IF strict(t) THEN -1 ELSE -2) \in {1, 0, -1, -2}
      OBVIOUS
    <3> QED
      BY <3>1, <3>2
  <2>2. CASE Show(t) \/ NothingToDo(t)
    BY <2>2 DEF Show, NothingToDo, Returns, Outcomes
  <2>3. CASE Refused(t) \/ Reset(t)
    BY <2>3 DEF Refused, Reset, UnlessOvertaken, Outcomes
  <2>4. CASE Clock(t) \/ Status(t)
    BY <2>4 DEF Clock, Status, Returns, UnlessOvertaken, Outcomes
  <2> QED
    BY <2>1, <2>2, <2>3, <2>4
<1> QED
  BY <1>1, <1>2, FinishStay

LEMMA ComesGoesTypes ==
  ASSUME TypeInv, NEW n \in ToSet(Nodes), Comes(n) \/ Goes(n)
  PROVE  TypeInv'
<1>0. ToolTypes /\ BoardTypes /\ HandInv
  BY DEF TypeInv
<1>1. n \in Names /\ UNCHANGED <<toolVars, commands>>
  BY DEF Comes, Goes, Names
<1>2. ToolTypes'
  <2>1. steady' \in [Tools -> SUBSET Names]
    BY <1>0 DEF Comes, Goes, ToolTypes
  <2> QED
    BY <1>0, <1>1, <2>1 DEF toolVars, ToolTypes
<1>3. BoardTypes'
  <2>1. CASE Comes(n)
    BY <1>0, <1>1, <2>1, ToolAssumption DEF Comes, BoardTypes, Boards
  <2>2. CASE Goes(n)
    BY <1>0, <1>1, <2>2, ToolAssumption DEF Goes, BoardTypes, Boards
  <2> QED
    BY <2>1, <2>2
<1>4. HandInv'
  <2> SUFFICES ASSUME NEW t \in Tools, pc[t] \in {"identify", "act", "set"}
               PROVE  left[t] # <<>> /\ files'[File(t)] = files[File(t)]
    BY <1>0, <1>1 DEF HandInv, File, toolVars
  <2>1. left[t] # <<>> /\ files[File(t)] # "none" /\ File(t) \in Names
    BY <1>0, FileIsName DEF HandInv
  <2>2. File(t) # n
    BY <2>1 DEF Comes, Goes, Holds
  <2> QED
    BY <1>0, <2>1, <2>2 DEF Comes, Goes, BoardTypes
<1> QED
  BY <1>2, <1>3, <1>4 DEF TypeInv

LEMMA InitTypes == Init => TypeInv
<1> SUFFICES ASSUME Init PROVE TypeInv
  OBVIOUS
<1>1. NoCommand \in CommandType /\ NoCommand.off \cup NoCommand.on = {}
  <2>1. [i \in DOMAIN <<>> |-> <<>>[i].text] = <<>>
    OBVIOUS
  <2> QED
    BY <2>1 DEF NoCommand, Command, CommandType, Modes
<1>2. ToolTypes
  BY <1>1, ToolAssumption DEF Init, ToolTypes
<1>3. BoardTypes
  BY ToolAssumption DEF Init, BoardTypes, Boards
<1>4. HandInv
  BY DEF Init, HandInv
<1> QED
  BY <1>2, <1>3, <1>4 DEF TypeInv

LEMMA TypeStep == TypeInv /\ [Next]_vars => TypeInv'
<1> SUFFICES ASSUME TypeInv, [Next]_vars PROVE TypeInv'
  OBVIOUS
<1>1. ASSUME NEW t \in Tools, main(t) PROVE TypeInv'
  BY <1>1, StartTypes, MainTypes DEF main
<1>2. ASSUME NEW t \in Tools, process(t) PROVE TypeInv'
  BY <1>2, GoOnTypes, OtherTypes, UpDownTypes, GetLevelTypes, SetLevelTypes DEF process
<1>3. ASSUME NEW n \in ToSet(Nodes), Comes(n) \/ Goes(n) PROVE TypeInv'
  BY <1>3, ComesGoesTypes
<1>4. CASE UNCHANGED vars
  BY <1>4 DEF vars, toolVars, boardVars, TypeInv, ToolTypes, BoardTypes, HandInv, Boards, File
<1> QED
  BY <1>1, <1>2, <1>3, <1>4 DEF Next

\* Every variable has its type, for every command line: main takes each for a mode
\* of the tool with bits that the mode has a use for, and what is made active is a
\* board (bluenoc.c:385-535).
THEOREM TypeCorrect == Spec => []TypeOK
<1>1. TypeInv => TypeOK
  <2> SUFFICES ASSUME TypeInv PROVE TypeOK
    OBVIOUS
  <2>1. ToolTypes /\ BoardTypes /\ HandInv
    BY DEF TypeInv
  <2>2. ASSUME NEW t \in Tools
        PROVE  /\ Mode(t) \in Modes \cup {"USAGE"}
               /\ line[t].off \cup line[t].on \subseteq
                    CASE Mode(t) \in {"DEBUG", "USAGE"} -> DebugBits
                      [] Mode(t) = "PROFILE"            -> {DEBUG_PROFILE}
                      [] OTHER                          -> {}
               /\ \A i \in DOMAIN line[t].names : line[t].names[i] \in Names
               /\ \A i \in DOMAIN left[t] : left[t][i] \in Names
               /\ \A i \in DOMAIN results[t] : results[t][i] \in Result
               /\ pc[t] \in {"identify", "act", "set"} => left[t] # <<>>
    <3>1. line[t] \in CommandType /\ left[t] \in Seq(Names) /\ results[t] \in Seq(Result)
      BY <2>1 DEF ToolTypes
    <3>2. \A i \in DOMAIN left[t] : left[t][i] \in Names
      BY <3>1
    <3>3. \A i \in DOMAIN results[t] : results[t][i] \in Result
      BY <3>1
    <3>4. Mode(t) \in Modes \cup {"USAGE"} /\ line[t].names \in Seq(Names)
      BY <3>1 DEF CommandType, Mode
    <3>5. \A i \in DOMAIN line[t].names : line[t].names[i] \in Names
      BY <3>4
    <3>6. line[t].off \cup line[t].on \subseteq BitsOf(Mode(t))
      BY <2>1 DEF ToolTypes, Mode
    <3> QED
      BY <2>1, <3>2, <3>3, <3>4, <3>5, <3>6 DEF BitsOf, HandInv
  <2> QED
    BY <2>1, <2>2 DEF TypeOK, ToolTypes, BoardTypes
<1> QED
  BY <1>1, InitTypes, TypeStep, PTL DEF Spec
-----------------------------------------------------------------------------
(***************************************************************************)
(* A command without names.  The files that scandir has found and that are *)
(* not yet worked on, and those that are, are different names; and a board *)
(* that has been there all the time is among them, once worked on found to *)
(* be there.                                                               *)
(***************************************************************************)
\* The command works on what scandir finds.
Scans(t) == Mode(t) \notin {"HELP", "USAGE"} /\ ~strict(t)

WorkedOn(t, n) ==
  \E i \in DOMAIN results[t] : results[t][i].file = n /\ results[t][i].outcome # "no_board"
ToWorkOn(t, n) == \E j \in DOMAIN left[t] : left[t][j] = n

OnceInv(t) ==
  /\ \A i, j \in DOMAIN results[t] : results[t][i].file = results[t][j].file => i = j
  /\ \A i, j \in DOMAIN left[t] : left[t][i] = left[t][j] => i = j
  /\ \A i \in DOMAIN results[t], j \in DOMAIN left[t] : results[t][i].file # left[t][j]

FoundInv(t) == \A n \in steady[t] \cap ToSet(Nodes) : WorkedOn(t, n) \/ ToWorkOn(t, n)

ScanInv(t) ==
  /\ steady[t] \subseteq Boards
  /\ Scans(t) /\ pc[t] = "idle" => left[t] = <<>>
  /\ Scans(t) /\ pc[t] = "scan" => results[t] = <<>>
  /\ Scans(t) /\ pc[t] # "scan" => OnceInv(t) /\ FoundInv(t)

ScansInv == \A t \in Tools : ScanInv(t)

\* What scandir returns has each name once, and every board.
LEMMA EntriesAre ==
  ASSUME NEW s \in Entries
  PROVE  /\ s \in Seq(Names)
         /\ \A i, j \in DOMAIN s : s[i] = s[j] => i = j
         /\ \A n \in Boards \cap ToSet(Nodes) : \E j \in DOMAIN s : s[j] = n
<1>1. s \in Seq(ToSet(Nodes)) /\ ToSet(s) = {n \in ToSet(Nodes) : files[n] # "none"}
  BY DEF Entries, SeqOf
<1>2. \A i, j \in DOMAIN s : i < j => Rank(s[i]) < Rank(s[j])
  BY DEF Entries
<1>3. \A n \in ToSet(Nodes) : Rank(n) \in Nat
  <2> SUFFICES ASSUME NEW n \in ToSet(Nodes) PROVE Rank(n) \in Nat
    OBVIOUS
  <2>1. \E i \in DOMAIN Nodes : Nodes[i] = n
    BY DEF ToSet
  <2>2. Rank(n) \in DOMAIN Nodes
    BY <2>1 DEF Rank
  <2>3. DOMAIN Nodes \subseteq Nat
    BY ToolAssumption
  <2> QED
    BY <2>2, <2>3
<1>4. ASSUME NEW i \in DOMAIN s, NEW j \in DOMAIN s, s[i] = s[j] PROVE i = j
  <2>1. i \in Nat /\ j \in Nat /\ Rank(s[i]) \in Nat
    BY <1>1, <1>3
  <2>2. ~(i < j) /\ ~(j < i)
    <3> HIDE DEF Rank
    <3> QED
      BY <1>2, <1>4, <2>1
  <2> QED
    BY <2>1, <2>2
<1>5. ASSUME NEW n \in Boards \cap ToSet(Nodes) PROVE \E j \in DOMAIN s : s[j] = n
  <2>1. n \in ToSet(s)
    BY <1>1 DEF Boards
  <2> QED
    BY <2>1 DEF ToSet
<1>6. s \in Seq(Names)
  BY <1>1 DEF Names
<1> QED
  BY <1>4, <1>5, <1>6

\* The end of work on a file, found to be there if it is a board.
LEMMA FinishScan ==
  ASSUME TypeInv, NEW t \in Tools, ScanInv(t), left[t] # <<>>, pc[t] \notin {"idle", "scan"},
         NEW ret, NEW outcome, Finish(t, ret, outcome), UNCHANGED files,
         files[File(t)] = "board" => outcome # "no_board"
  PROVE  ScanInv(t)'
<1> DEFINE r == [file |-> File(t), ret |-> ret, outcome |-> outcome]
           s == results[t]
           l == left[t]
<1>0. ToolTypes
  BY DEF TypeInv
<1>1. /\ results'[t] = Append(s, r) /\ left'[t] = Tail(l) /\ pc'[t] = "next"
      /\ UNCHANGED <<line, steady>>
  BY <1>0 DEF Finish, ToolTypes
<1>2. s \in Seq(Result) /\ l \in Seq(Names) /\ l # <<>>
  BY <1>0 DEF ToolTypes
<1>3. r.file = l[1] /\ r.outcome = outcome
  BY <1>2, HeadTailProperties DEF File
<1> HIDE DEF r
<1>4. /\ Len(s) \in Nat /\ DOMAIN s = 1..Len(s)
      /\ DOMAIN Append(s, r) = 1..(Len(s) + 1)
      /\ Append(s, r)[Len(s) + 1] = r
      /\ \A i \in 1..Len(s) : Append(s, r)[i] = s[i]
  <2>1. IsSequence(s)
    BY <1>2 DEF IsSequence
  <2>2. Len(Append(s, r)) = Len(s) + 1
    BY <2>1, OneMore
  <2>3. IsSequence(Append(s, r))
    BY <2>1, OneMore
  <2>4. DOMAIN Append(s, r) = 1..Len(Append(s, r))
    BY <2>3 DEF IsSequence
  <2> QED
    BY <1>2, <2>1, <2>2, <2>4, OneMore
<1>5. /\ Len(l) \in Nat /\ Len(l) >= 1 /\ DOMAIN l = 1..Len(l)
      /\ DOMAIN Tail(l) = 1..(Len(l) - 1)
      /\ \A j \in 1..(Len(l) - 1) : Tail(l)[j] = l[j + 1]
  BY <1>2, HeadTailProperties
<1>6. \A i \in DOMAIN Append(s, r) : i \in DOMAIN s \/ i = Len(s) + 1
  BY <1>4
<1>7. \A j \in DOMAIN Tail(l) : j + 1 \in DOMAIN l /\ j + 1 # 1 /\ Tail(l)[j] = l[j + 1]
  BY <1>5
<1>8. 1 \in DOMAIN l
  BY <1>5
<1>9. ASSUME Scans(t) PROVE OnceInv(t)' /\ FoundInv(t)'
  <2>1. OnceInv(t) /\ FoundInv(t)
    BY <1>9 DEF ScanInv
  <2>2. \A i, j \in DOMAIN Append(s, r) : Append(s, r)[i].file = Append(s, r)[j].file => i = j
    <3> SUFFICES ASSUME NEW i \in DOMAIN Append(s, r), NEW j \in DOMAIN Append(s, r),
                        Append(s, r)[i].file = Append(s, r)[j].file
                 PROVE  i = j
      OBVIOUS
    <3>1. ASSUME NEW k \in DOMAIN s PROVE s[k].file # r.file
      BY <1>3, <1>8, <2>1 DEF OnceInv
    <3>2. CASE i \in DOMAIN s /\ j \in DOMAIN s
      BY <1>4, <2>1, <3>2 DEF OnceInv
    <3>3. CASE ~(i \in DOMAIN s /\ j \in DOMAIN s)
      BY <1>4, <1>6, <3>1, <3>3
    <3> QED
      BY <3>2, <3>3
  <2>3. \A i, j \in DOMAIN Tail(l) : Tail(l)[i] = Tail(l)[j] => i = j
    <3> SUFFICES ASSUME NEW i \in DOMAIN Tail(l), NEW j \in DOMAIN Tail(l), Tail(l)[i] = Tail(l)[j]
                 PROVE  i = j
      OBVIOUS
    <3>1. i + 1 = j + 1
      BY <1>7, <2>1 DEF OnceInv
    <3> QED
      BY <1>5, <3>1
  <2>4. \A i \in DOMAIN Append(s, r), j \in DOMAIN Tail(l) : Append(s, r)[i].file # Tail(l)[j]
    <3> SUFFICES ASSUME NEW i \in DOMAIN Append(s, r), NEW j \in DOMAIN Tail(l)
                 PROVE  Append(s, r)[i].file # Tail(l)[j]
      OBVIOUS
    <3>1. j + 1 \in DOMAIN l /\ j + 1 # 1 /\ Tail(l)[j] = l[j + 1]
      BY <1>7
    <3>2. CASE i \in DOMAIN s
      BY <1>4, <2>1, <3>1, <3>2 DEF OnceInv
    <3>3. CASE i = Len(s) + 1
      BY <1>3, <1>4, <1>8, <2>1, <3>1, <3>3 DEF OnceInv
    <3> QED
      BY <1>6, <3>2, <3>3
  <2>5. OnceInv(t)'
    BY <1>1, <2>2, <2>3, <2>4 DEF OnceInv
  <2>6. ASSUME NEW n \in steady[t] \cap ToSet(Nodes)
        PROVE  WorkedOn(t, n)' \/ ToWorkOn(t, n)'
    <3>1. CASE WorkedOn(t, n)
      <4>1. PICK i \in DOMAIN s : s[i].file = n /\ s[i].outcome # "no_board"
        BY <3>1 DEF WorkedOn
      <4>2. i \in DOMAIN Append(s, r) /\ Append(s, r)[i] = s[i]
        BY <1>4
      <4> QED
        BY <1>1, <4>1, <4>2 DEF WorkedOn
    <3>2. CASE ToWorkOn(t, n)
      <4>1. PICK j \in DOMAIN l : l[j] = n
        BY <3>2 DEF ToWorkOn
      <4>2. CASE j = 1
        <5>1. files[File(t)] = "board" /\ r.file = n
          BY <1>2, <1>3, <4>1, <4>2 DEF ScanInv, Boards, File
        <5>2. Len(s) + 1 \in DOMAIN Append(s, r)
          BY <1>4
        <5>3. outcome # "no_board"
          BY <5>1
        <5>4. results'[t][Len(s) + 1] = r /\ r.file = n /\ r.outcome # "no_board"
          BY <1>1, <1>3, <1>4, <5>1, <5>3
        <5> QED
          BY <1>1, <5>2, <5>4, Zenon DEF WorkedOn
      <4>3. CASE j # 1
        <5>1. PICK k \in DOMAIN Tail(l) : k + 1 = j
          <6>1. j \in 1..Len(l)
            BY <1>5
          <6>2. PICK k \in Nat : k + 1 = j
            BY <6>1
          <6>3. k \in 1..(Len(l) - 1)
            BY <1>5, <4>3, <6>1, <6>2
          <6> QED
            BY <1>5, <6>2, <6>3
        <5>2. Tail(l)[k] = n
          BY <1>7, <4>1, <5>1
        <5> QED
          BY <1>1, <5>2 DEF ToWorkOn
      <4> QED
        BY <4>2, <4>3
    <3> QED
      BY <2>1, <3>1, <3>2 DEF FoundInv
  <2> QED
    BY <1>1, <2>5, <2>6 DEF FoundInv
<1> QED
  BY <1>1, <1>9 DEF ScanInv, Scans, Mode, strict, Boards

\* Steps that change nothing that a process has to do keep what is known of it.
LEMMA SameScan ==
  ASSUME NEW t \in Tools, ScanInv(t), UNCHANGED <<line[t], left[t], results[t], files, steady[t]>>,
         \/ pc'[t] = pc[t]
         \/ pc[t] \notin {"idle", "scan"} /\ pc'[t] \notin {"idle", "scan"}
  PROVE  ScanInv(t)'
BY DEF ScanInv, OnceInv, FoundInv, WorkedOn, ToWorkOn, Scans, Mode, strict, Boards
LEMMA StartScan ==
  ASSUME TypeInv, NEW t \in Tools, Start(t)
  PROVE  ScanInv(t)'
<1>0. ToolTypes
  BY DEF TypeInv
<1>1. /\ line' \in [Tools -> CommandType]
      /\ results'[t] = <<>> /\ left'[t] = line'[t].names /\ steady'[t] = Boards
      /\ pc'[t] = IF line'[t].mode \in {"HELP", "USAGE"} THEN "idle"
                  ELSE IF line'[t].names # <<>> THEN "next" ELSE "scan"
      /\ UNCHANGED files
  <2>1. TypeInv'
    BY StartTypes
  <2> QED
    BY <1>0, <2>1 DEF Start, TypeInv, ToolTypes, boardVars
<1>2. Scans(t)' => pc'[t] = "scan"
  BY <1>1 DEF Scans, Mode, strict
<1> QED
  BY <1>1, <1>2 DEF ScanInv, Boards

LEMMA ScanScan ==
  ASSUME TypeInv, NEW t \in Tools, ScanInv(t), Scan(t)
  PROVE  ScanInv(t)'
<1>0. ToolTypes
  BY DEF TypeInv
<1>1. PICK present \in Entries : left' = [left EXCEPT ![t] = present]
  BY DEF Scan, Listed
<1>2. /\ left'[t] = present /\ pc[t] = "scan" /\ pc'[t] = "next"
      /\ UNCHANGED <<line, results, files, steady>>
  BY <1>0, <1>1 DEF Scan, ToolTypes, boardVars
<1>3. ASSUME Scans(t) PROVE OnceInv(t)' /\ FoundInv(t)'
  <2>1. results[t] = <<>> /\ steady[t] \subseteq Boards
    BY <1>2, <1>3 DEF ScanInv
  <2>2. DOMAIN results'[t] = {}
    BY <1>2, <2>1
  <2>3. OnceInv(t)'
    BY <1>2, <2>2, EntriesAre DEF OnceInv
  <2>4. FoundInv(t)'
    BY <1>2, <2>1, EntriesAre DEF FoundInv, ToWorkOn
  <2> QED
    BY <2>3, <2>4
<1> QED
  BY <1>2, <1>3 DEF ScanInv, Scans, Mode, strict, Boards

LEMMA QuitScan ==
  ASSUME TypeInv, NEW t \in Tools, ScanInv(t), Quit(t)
  PROVE  ScanInv(t)'
<1>1. /\ pc[t] = "next" /\ left[t] = <<>> /\ pc'[t] = "idle"
      /\ UNCHANGED <<line, left, results, files, steady>>
  BY DEF Quit, TypeInv, ToolTypes, boardVars
<1> QED
  BY <1>1 DEF ScanInv, OnceInv, FoundInv, WorkedOn, ToWorkOn, Scans, Mode, strict, Boards

\* The steps of process that go on with the file at hand, and those that are done
\* with it: a board is always found to be there.
LEMMA ProcessScan ==
  ASSUME TypeInv, NEW t \in Tools, ScanInv(t), process(t)
  PROVE  ScanInv(t)'
<1>0. ToolTypes /\ HandInv
  BY DEF TypeInv
<1>1. left[t] # <<>> /\ pc[t] \notin {"idle", "scan"} /\ UNCHANGED files
  BY <1>0 DEF process, Open, OpenFails, Identify, IdentifyFails, NoBoard, Show, NothingToDo,
     Refused, Reset, Down, Up, Clock, Status, GetLevel, SetLevel, Acts, AsksDriver, HandInv,
     boardVars
<1>2. CASE \/ Open(t) \/ Identify(t)
           \/ GetLevel(t) /\ line[t].on \cup line[t].off # {}
  <2>1. /\ UNCHANGED <<line, left, results, steady>>
        /\ \E to \in {"identify", "act", "set"} : pc' = [pc EXCEPT ![t] = to]
    BY <1>2 DEF Open, Identify, GetLevel
  <2>2. pc'[t] \notin {"idle", "scan"}
    BY <1>0, <2>1 DEF ToolTypes
  <2> QED
    BY <1>1, <2>1, <2>2, SameScan
<1>3. CASE OpenFails(t) \/ IdentifyFails(t)
  <2>1. PICK ret, outcome : /\ Finish(t, ret, outcome)
                            /\ files[File(t)] = "board" => outcome # "no_board"
    BY <1>3 DEF OpenFails, IdentifyFails, NoBoard
  <2> QED
    BY <1>1, <2>1, FinishScan
<1>4. ASSUME \E ret, outcome : Finish(t, ret, outcome) /\ outcome # "no_board"
      PROVE  ScanInv(t)'
  BY <1>1, <1>4, FinishScan
<1>5. CASE \/ Show(t) \/ NothingToDo(t) \/ Refused(t) \/ Reset(t) \/ Down(t) \/ Up(t)
           \/ Clock(t) \/ Status(t) \/ SetLevel(t)
           \/ GetLevel(t) /\ line[t].on \cup line[t].off = {}
  <2>1. \E ret, outcome : Finish(t, ret, outcome) /\ outcome # "no_board"
    BY <1>5 DEF Show, NothingToDo, Refused, Reset, Down, Up, Clock, Status, SetLevel,
       GetLevel, Returns, UnlessOvertaken
  <2> QED
    BY <1>4, <2>1
<1> QED
  BY <1>2, <1>3, <1>5 DEF process

\* A process leaves the boards that have been there to the others.
LEMMA OthersScan ==
  ASSUME TypeInv, ScansInv, NEW t \in Tools, main(t) \/ process(t), NEW u \in Tools \ {t}
  PROVE  ScanInv(u)'
<1>1. /\ pc'[u] = pc[u] /\ line'[u] = line[u] /\ left'[u] = left[u]
      /\ results'[u] = results[u]
  <2>1. ToolDomains
    BY DEF TypeInv, ToolTypes, ToolDomains
  <2> QED
    BY <2>1, OwnPartOnly
<1>2. steady'[u] = steady[u] /\ UNCHANGED files
  BY DEF main, Start, Scan, Quit, process, Open, OpenFails, Identify, IdentifyFails, NoBoard,
     Show, NothingToDo, Refused, Reset, Down, Up, Clock, Status, GetLevel, SetLevel, Finish,
     Returns, boardVars, TypeInv, ToolTypes
<1> QED
  BY <1>1, <1>2, SameScan DEF ScansInv

\* A board that comes has not been there, and one that goes is no longer steady.
LEMMA ComesGoesScan ==
  ASSUME TypeInv, ScansInv, NEW n \in ToSet(Nodes), Comes(n) \/ Goes(n), NEW t \in Tools
  PROVE  ScanInv(t)'
<1>1. /\ UNCHANGED <<pc, line, left, results>>
      /\ steady'[t] \subseteq steady[t] /\ steady'[t] \subseteq Boards'
  BY DEF Comes, Goes, toolVars, ScansInv, ScanInv, Boards, TypeInv, ToolTypes, BoardTypes
<1> QED
  BY <1>1 DEF ScansInv, ScanInv, OnceInv, FoundInv, WorkedOn, ToWorkOn, Scans, Mode, strict

LEMMA InitScan == Init => ScansInv
BY DEF Init, ScansInv, ScanInv, Scans, Mode, NoCommand, Command

LEMMA ScanStep == TypeInv /\ ScansInv /\ [Next]_vars => ScansInv'
<1> SUFFICES ASSUME TypeInv, ScansInv, [Next]_vars PROVE ScansInv'
  OBVIOUS
<1>1. ASSUME NEW t \in Tools, main(t) \/ process(t) PROVE ScansInv'
  <2>1. ScanInv(t)
    BY DEF ScansInv
  <2>2. ScanInv(t)'
    BY <1>1, <2>1, StartScan, ScanScan, QuitScan, ProcessScan DEF main
  <2>3. \A u \in Tools \ {t} : ScanInv(u)'
    BY <1>1, OthersScan
  <2> QED
    BY <2>2, <2>3 DEF ScansInv
<1>2. ASSUME NEW n \in ToSet(Nodes), Comes(n) \/ Goes(n) PROVE ScansInv'
  BY <1>2, ComesGoesScan DEF ScansInv
<1>3. CASE UNCHANGED vars
  BY <1>3, SameScan DEF vars, toolVars, boardVars, ScansInv
<1> QED
  BY <1>1, <1>2, <1>3 DEF Next

\* A command without names has tried each board that was there from its beginning
\* to its end, and no name twice, however many boards come and go
\* meanwhile and whatever other processes do (bluenoc.c:560-611).
THEOREM ScansAreComplete == Spec => []ScanFindsEveryBoard
<1>1. TypeInv /\ ScansInv => ScanFindsEveryBoard
  <2> SUFFICES ASSUME TypeInv, ScansInv, NEW t \in Tools, pc[t] = "idle",
                      Mode(t) \notin {"HELP", "USAGE"}, ~strict(t)
               PROVE  /\ \A n \in steady[t] \cap ToSet(Nodes) :
                           \E i \in DOMAIN results[t] :
                             results[t][i].file = n /\ results[t][i].outcome # "no_board"
                      /\ \A i, j \in DOMAIN results[t] :
                           results[t][i].file = results[t][j].file => i = j
    BY DEF ScanFindsEveryBoard
  <2>1. left[t] = <<>> /\ OnceInv(t) /\ FoundInv(t)
    BY DEF ScansInv, ScanInv, Scans
  <2>2. DOMAIN left[t] = {}
    BY <2>1
  <2> QED
    BY <2>1, <2>2 DEF OnceInv, FoundInv, WorkedOn, ToWorkOn
<1> QED
  BY <1>1, InitTypes, TypeStep, InitScan, ScanStep, PTL DEF Spec
=============================================================================
