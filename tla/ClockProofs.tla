---------------------------- MODULE ClockProofs ----------------------------
(***************************************************************************)
(* What is proved of the clock generator.  Of the arithmetic: which        *)
(* dividers calc_params finds, for every parent rate and every rate asked  *)
(* for, and which of them a register can hold.  Of ClockGen: its types;    *)
(* that the dividers chosen are legal and, from a parent of 125 MHz, exact *)
(* where they can be, for every set of rates and whatever the board does;  *)
(* and, for one tool on a board that is not slow, that the retries         *)
(* suffice, that each read takes its own answer, that the clock runs with  *)
(* one whole setting and that the rate shown is the one set.               *)
(***************************************************************************)
EXTENDS ClockGen, LeastNumber, SequenceTheorems, TLAPS

\* A divider that fits the two six-bit counts of a register is read back as it
\* was written: all but 127 and 128 do (clocking.cpp:80-93, 234-248, 270-276).
THEOREM DividersFit == \A n \in 1 .. 126 : DividerOf(PackCounts(CalcClkParams(n))) = n
<1> SUFFICES ASSUME NEW n \in 1 .. 126
             PROVE  DividerOf(PackCounts(CalcClkParams(n))) = n
  OBVIOUS
<1> DEFINE high == n \div 2
           low == n - n \div 2
           reg == 64 * high + low
<1>1. high \in 0 .. 63 /\ low \in 0 .. 63 /\ low + high = n
  OBVIOUS
<1>2. PackCounts(CalcClkParams(n)) = reg
  BY <1>1 DEF PackCounts, CalcClkParams
<1> HIDE DEF high, low
<1>3. reg % 64 = low /\ reg \div 64 = high /\ high % 64 = high
  BY <1>1
<1> QED
  BY <1>1, <1>2, <1>3 DEF DividerOf
-----------------------------------------------------------------------------
\* Quotients that are exact, and one that is rounded to the nearest.
LEMMA ExactQuotient ==
  ASSUME NEW a \in Nat, NEW d \in Nat \ {0}
  PROVE  (d * a) \div d = a
  OBVIOUS

LEMMA NearestQuotient ==
  ASSUME NEW a \in Nat, NEW d \in Nat \ {0}
  PROVE  DivRoundClosest(d * a, d) = a
<1>1. (2 * (d * a) + d) \div (2 * d) = a
  OBVIOUS
<1> QED
  BY <1>1 DEF DivRoundClosest
-----------------------------------------------------------------------------
\* A choice consists of positive dividers within the bounds of the loops.
LEMMA ChoiceRange ==
  ASSUME NEW fin \in Nat \ {0}, NEW fout \in Nat \ {0}, NEW c \in Choices(fin, fout)
  PROVE  /\ c.m \in MMin(fin) .. MMax(fin) /\ c.m \in Nat \ {0}
         /\ c.d \in DFirst(fin, c.m) .. DLast(fin, c.m) /\ c.d \in Nat \ {0}
         /\ c.dout \in 1 .. 128
<1>0. PICK m \in MMin(fin) .. MMax(fin) :
        \E d \in DFirst(fin, m) .. DLast(fin, m) :
          c = [d |-> d, m |-> m,
               dout |-> Clamp(DivRoundClosest((fin * m) \div d, fout), 1, 128)]
  BY DEF Choices
<1>1. PICK d \in DFirst(fin, m) .. DLast(fin, m) :
        c = [d |-> d, m |-> m,
             dout |-> Clamp(DivRoundClosest((fin * m) \div d, fout), 1, 128)]
  BY <1>0
<1>2. DMin(fin) \in Int /\ DMin(fin) >= 1
  BY DEF DMin, Greater, DivRoundUp, fpfd_max
<1>3. MMin(fin) \in Int /\ MMin(fin) >= 1
  BY <1>2 DEF MMin, Greater, DivRoundUp, fvco_min
<1>4. m \in Nat \ {0}
  BY <1>3
<1>5. DFirst(fin, m) \in Int /\ DFirst(fin, m) >= 1
  BY <1>2, <1>4 DEF DFirst, Greater, DivRoundUp, fvco_max
<1>6. d \in Nat \ {0}
  BY <1>5
<1>7. (fin * m) \div d \in Int
  BY <1>4, <1>6
<1>8. DivRoundClosest((fin * m) \div d, fout) \in Int
  BY <1>7 DEF DivRoundClosest
<1>9. Clamp(DivRoundClosest((fin * m) \div d, fout), 1, 128) \in 1 .. 128
  BY <1>8 DEF Clamp, Greater, Lesser
<1> QED
  BY <1>1, <1>4, <1>6, <1>9

\* Its frequency is a natural number.
LEMMA OutputType ==
  ASSUME NEW fin \in Nat \ {0}, NEW fout \in Nat \ {0}, NEW c \in Choices(fin, fout)
  PROVE  Output(fin, c) \in Nat
<1>0. c.m \in Nat \ {0} /\ c.d \in Nat \ {0} /\ c.dout \in 1 .. 128
  BY ChoiceRange
<1>1. c.m \in Nat \ {0} /\ c.d \in Nat \ {0} /\ c.dout \in Nat \ {0}
  BY <1>0
<1>2. fin * c.m \in Nat
  BY <1>1
<1>3. Fvco(fin, c) \in Nat
  BY <1>1, <1>2 DEF Fvco
<1> QED
  BY <1>1, <1>3 DEF Output
-----------------------------------------------------------------------------
\* The choices that calc_params would take over its initial best frequency, and
\* the order between them.
Candidates(fin, fout) ==
  {c \in Choices(fin, fout) : Nearer(Output(fin, c), 2147483647, fout)}

Beats(fin, fout, a, b) ==
  \/ Nearer(Output(fin, a), Output(fin, b), fout)
  \/ Output(fin, a) = Output(fin, b) /\ Earlier(a, b)

\* In a set of choices one is the earliest.
LEMMA EarliestChoice ==
  ASSUME NEW C, C # {}, \A c \in C : c.m \in Nat /\ c.d \in Nat
  PROVE  \E c \in C : \A e \in C : ~Earlier(e, c)
<1>1. {c.m : c \in C} \subseteq Nat /\ {c.m : c \in C} # {}
  OBVIOUS
<1>2. PICK m0 \in {c.m : c \in C} : \A m \in {c.m : c \in C} : m0 <= m
  BY <1>1, Least
<1> DEFINE D == {c \in C : c.m = m0}
<1>3. {c.d : c \in D} \subseteq Nat /\ {c.d : c \in D} # {}
  BY <1>2
<1>4. PICK d0 \in {c.d : c \in D} : \A d \in {c.d : c \in D} : d0 <= d
  BY <1>3, Least
<1>5. PICK c \in D : c.d = d0
  BY <1>4
<1>6. ASSUME NEW e \in C PROVE ~Earlier(e, c)
  <2>1. e.m \in Nat /\ e.d \in Nat /\ c.m \in Nat /\ c.d \in Nat
    OBVIOUS
  <2>2. c.m <= e.m
    BY <1>2, <1>5
  <2>3. e.m = c.m => c.d <= e.d
    BY <1>4, <1>5
  <2> QED
    BY <2>1, <2>2, <2>3 DEF Earlier
<1> QED
  BY <1>5, <1>6

\* If there are candidates, one is beaten by none: the nearest above the target,
\* or the lowest of all if none is above.
LEMMA SomeCandidateWins ==
  ASSUME NEW fin \in Nat \ {0}, NEW fout \in Nat \ {0}, Candidates(fin, fout) # {}
  PROVE  \E c \in Candidates(fin, fout) :
           \A e \in Candidates(fin, fout) : ~Beats(fin, fout, e, c)
<1> DEFINE C == Candidates(fin, fout)
           Out(c) == Output(fin, c)
           Above == {c \in C : Out(c) >= fout}
           G == IF Above # {} THEN Above ELSE C
<1>1. \A c \in C : c.m \in Nat /\ c.d \in Nat /\ Out(c) \in Nat
  BY ChoiceRange, OutputType DEF Candidates
<1> HIDE DEF C, Out
<1>2. G # {} /\ G \subseteq C
  BY DEF C
<1>3. {Out(c) : c \in G} \subseteq Nat /\ {Out(c) : c \in G} # {}
  BY <1>1, <1>2
<1>4. PICK f0 \in {Out(c) : c \in G} : \A f \in {Out(c) : c \in G} : f0 <= f
  BY <1>3, Least
<1> DEFINE B == {c \in G : Out(c) = f0}
<1>5. B # {} /\ \A c \in B : c.m \in Nat /\ c.d \in Nat
  BY <1>1, <1>2, <1>4
<1>6. PICK c \in B : \A e \in B : ~Earlier(e, c)
  <2> HIDE DEF B
  <2> QED
    BY <1>5, EarliestChoice
<1>7. ASSUME NEW e \in C PROVE ~Beats(fin, fout, e, c)
  <2>1. Out(e) \in Nat /\ Out(c) = f0 /\ f0 \in Nat /\ c \in C
    BY <1>1, <1>2, <1>6
  <2>2. e \in G => f0 <= Out(e)
    BY <1>4
  <2>3. e \notin G => Out(e) < fout /\ f0 >= fout
    BY <1>6, <2>1
  <2>4. f0 >= fout => (Out(e) >= fout => e \in G)
    OBVIOUS
  <2>5. ~Nearer(Out(e), Out(c), fout)
    <3>1. CASE e \in G
      <4>1. CASE Above # {}
        BY <2>1, <2>2, <3>1, <4>1, <1>6 DEF Nearer
      <4>2. CASE Above = {}
        <5>1. ~(f0 >= fout) /\ ~(Out(e) >= fout)
          BY <1>6, <2>1, <4>2
        <5> QED
          BY <2>1, <2>2, <3>1, <5>1 DEF Nearer
      <4> QED
        BY <4>1, <4>2
    <3>2. CASE e \notin G
      BY <2>1, <2>3, <3>2 DEF Nearer
    <3> QED
      BY <3>1, <3>2
  <2>6. ASSUME Out(e) = Out(c) PROVE ~Earlier(e, c)
    <3>1. e \in G
      BY <2>1, <2>3, <2>6
    <3> QED
      BY <1>6, <2>1, <2>6, <3>1
  <2> QED
    BY <2>5, <2>6 DEF Beats, Out
<1> QED
  BY <1>2, <1>6, <1>7 DEF C

\* So what calc_params returns is a choice that is beaten by none, unless there
\* is none to choose.
LEMMA CalcParamsChooses ==
  ASSUME NEW fin \in Nat \ {0}, NEW fout \in Nat \ {0}
  PROVE  \/ Candidates(fin, fout) = {} /\ CalcParams(fin, fout) = NoDividers
         \/ /\ CalcParams(fin, fout) \in Candidates(fin, fout)
            /\ \A e \in Candidates(fin, fout) :
                 ~Beats(fin, fout, e, CalcParams(fin, fout))
<1>1. CalcParams(fin, fout) =
        IF Candidates(fin, fout) = {} THEN NoDividers
        ELSE CHOOSE c \in Candidates(fin, fout) :
               \A e \in Candidates(fin, fout) : ~Beats(fin, fout, e, c)
  BY DEF CalcParams, Candidates, Beats
<1>2. CASE Candidates(fin, fout) = {}
  BY <1>1, <1>2
<1>3. CASE Candidates(fin, fout) # {}
  BY <1>1, <1>3, SomeCandidateWins
<1> QED
  BY <1>2, <1>3
-----------------------------------------------------------------------------
\* The limits of the clock manager, as LimitsKept states them for a choice.
Legal(fin, c) ==
  /\ c.m \in 1 .. 64 /\ c.d \in 1 .. 80 /\ c.dout \in 1 .. 128
  /\ fpfd_min * c.d <= fin /\ fin <= fpfd_max * c.d
  /\ fvco_min * c.d <= fin * c.m /\ fin * c.m <= fvco_max * c.d

\* Every choice is legal.
LEMMA ChoicesAreLegal ==
  ASSUME NEW fin \in Nat \ {0}, NEW fout \in Nat \ {0}, NEW c \in Choices(fin, fout)
  PROVE  Legal(fin, c)
<1>1. /\ c.m \in MMin(fin) .. MMax(fin) /\ c.m \in Nat \ {0}
      /\ c.d \in DFirst(fin, c.m) .. DLast(fin, c.m) /\ c.d \in Nat \ {0}
      /\ c.dout \in 1 .. 128
  BY ChoiceRange
<1> DEFINE x == fin * c.m
<1>2. x \in Nat
  BY <1>1
<1>3. fin \div 10000 \in Int /\ x \div 600000 \in Int
      /\ (fin + 300000 - 1) \div 300000 \in Int /\ (x + 1200000 - 1) \div 1200000 \in Int
  BY <1>2
<1>4. c.d <= fin \div 10000 /\ c.d <= 80 /\ c.d <= x \div 600000
  BY <1>1, <1>2, <1>3 DEF DLast, DMax, Lesser, fpfd_min, fvco_min
<1>5. c.d >= (fin + 300000 - 1) \div 300000 /\ c.d >= (x + 1200000 - 1) \div 1200000
  BY <1>1, <1>2, <1>3 DEF DFirst, DMin, Greater, DivRoundUp, fpfd_max, fvco_max
<1>6. c.m <= 64
  <2>1. MMax(fin) \in Int /\ MMax(fin) <= 64
    <3>1. DMax(fin) \in Int
      BY <1>3 DEF DMax, Lesser, fpfd_min
    <3>2. (fvco_max * DMax(fin)) \div fin \in Int
      BY <3>1 DEF fvco_max
    <3> QED
      BY <3>2 DEF MMax, Lesser
  <2>2. c.m <= MMax(fin)
    BY <1>1
  <2> QED
    BY <1>1, <2>1, <2>2
<1> HIDE DEF x
<1>7. 10000 * c.d <= fin /\ fin <= 300000 * c.d /\ 600000 * c.d <= x /\ x <= 1200000 * c.d
  BY <1>1, <1>2, <1>4, <1>5
<1> QED
  BY <1>1, <1>4, <1>6, <1>7 DEF Legal, x, fpfd_min, fpfd_max, fvco_min, fvco_max

\* The parent rate of every call of the tool, in kHz (clocking.h:109-110).
ToolParent == 125000

\* A rate that legal dividers make exactly, from that parent, is made by one of
\* the choices, and that is a candidate.
LEMMA ExactIsChoice ==
  ASSUME NEW fout \in Nat \ {0}, NEW m \in 1 .. 64, NEW d \in 1 .. 80, NEW dout \in 1 .. 128,
         fpfd_min * d <= ToolParent, ToolParent <= fpfd_max * d,
         fvco_min * d <= ToolParent * m, ToolParent * m <= fvco_max * d,
         ToolParent * m = fout * d * dout
  PROVE  \E e \in Candidates(ToolParent, fout) : Output(ToolParent, e) = fout
<1> DEFINE e == [d |-> d, m |-> m, dout |-> dout]
           a == fout * dout
           x == ToolParent * m
<1>1. /\ a \in Nat /\ a >= fout /\ d * a = x
      /\ m \in Nat /\ d \in Nat \ {0} /\ dout \in Nat \ {0} /\ x \in Nat
  <2>1. /\ m \in Nat /\ d \in Nat \ {0} /\ dout \in Nat \ {0}
        /\ x \in Nat /\ x = fout * d * dout
    BY SMT DEF ToolParent
  <2>2. a \in Nat /\ a >= fout
    BY <2>1, SMT
  <2> HIDE DEF x
  <2>3. d * a = fout * d * dout
    BY <2>1, SMT
  <2> QED
    BY <2>1, <2>2, <2>3
<1>2. x \div d = a
  <2> HIDE DEF a, x
  <2>1. (d * a) \div d = a
    BY <1>1, ExactQuotient
  <2> QED
    BY <1>1, <2>1
<1>3. Clamp(DivRoundClosest(a, fout), 1, 128) = dout
  <2>1. DivRoundClosest(fout * dout, fout) = dout
    BY <1>1, NearestQuotient
  <2> QED
    BY <2>1, SMT DEF Clamp, Greater, Lesser
<1>4. m \in MMin(ToolParent) .. MMax(ToolParent)
  <2>1. DMin(ToolParent) = 1 /\ DMax(ToolParent) = 12
    BY SMT DEF DMin, DMax, Greater, Lesser, DivRoundUp, fpfd_min, fpfd_max, ToolParent
  <2>2. MMin(ToolParent) = 5 /\ MMax(ToolParent) = 64
    BY <2>1, SMT DEF MMin, MMax, Greater, Lesser, DivRoundUp, fvco_min, fvco_max, ToolParent
  <2> QED
    BY <2>2, SMT DEF fvco_min, ToolParent
<1>5. d \in DFirst(ToolParent, m) .. DLast(ToolParent, m)
  <2>1. DMin(ToolParent) = 1 /\ DMax(ToolParent) = 12 /\ d <= 12
    BY SMT DEF DMin, DMax, Greater, Lesser, DivRoundUp, fpfd_min, fpfd_max, ToolParent
  <2> QED
    BY <2>1, SMT DEF DFirst, DLast, Greater, Lesser, DivRoundUp, fvco_min, fvco_max, ToolParent
<1>6. e = [d |-> d, m |-> m, dout |-> Clamp(DivRoundClosest(x \div d, fout), 1, 128)]
  BY <1>2, <1>3
<1>7. e \in Choices(ToolParent, fout)
  BY <1>4, <1>5, <1>6 DEF Choices
<1>8. Output(ToolParent, e) = fout
  <2>1. Fvco(ToolParent, e) = a
    BY <1>2 DEF Fvco
  <2>2. (dout * fout) \div dout = fout
    BY <1>1, ExactQuotient
  <2>3. dout * fout = a
    BY <1>1, SMT
  <2> QED
    BY <2>1, <2>2, <2>3 DEF Output
<1>9. fout < 2147483647
  <2>1. x <= 8000000
    BY SMT DEF ToolParent
  <2> HIDE DEF a, x
  <2>2. a <= d * a
    BY <1>1, SMT
  <2> QED
    BY <1>1, <2>1, <2>2, SMT
<1>10. Nearer(fout, 2147483647, fout)
  BY <1>9, SMT DEF Nearer
<1>11. e \in Candidates(ToolParent, fout)
  BY <1>7, <1>8, <1>10 DEF Candidates
<1> QED
  BY <1>8, <1>11

\* Then what calc_params returns makes it exactly.
LEMMA ExactIsFound ==
  ASSUME NEW fout \in Nat \ {0}, ParentKHz = ToolParent, Exact(fout)
  PROVE  /\ CalcParams(ParentKHz, fout) # NoDividers
         /\ Output(ParentKHz, CalcParams(ParentKHz, fout)) = fout
<1> DEFINE c == CalcParams(ToolParent, fout)
<1> HIDE DEF c
<1>0. ToolParent \in Nat \ {0}
  BY SMT DEF ToolParent
<1>1. \E e \in Candidates(ToolParent, fout) : Output(ToolParent, e) = fout
  <2>1. PICK m \in 1 .. 64, d \in 1 .. 80 :
          /\ fpfd_min * d <= ToolParent /\ ToolParent <= fpfd_max * d
          /\ fvco_min * d <= ToolParent * m /\ ToolParent * m <= fvco_max * d
          /\ \E dout \in 1 .. 128 : ToolParent * m = fout * d * dout
    BY Zenon DEF Exact
  <2>2. PICK dout \in 1 .. 128 : ToolParent * m = fout * d * dout
    BY <2>1, Zenon
  <2> QED
    BY <2>1, <2>2, ExactIsChoice, Zenon
<1>2. PICK e \in Candidates(ToolParent, fout) : Output(ToolParent, e) = fout
  BY <1>1
<1>3. c \in Candidates(ToolParent, fout) /\ ~Beats(ToolParent, fout, e, c)
  BY <1>0, <1>2, CalcParamsChooses DEF c
<1>4. Output(ToolParent, c) \in Nat /\ c.m # 0
  BY <1>0, <1>3, OutputType, ChoiceRange DEF Candidates
<1>5. ~Nearer(fout, Output(ToolParent, c), fout)
  BY <1>2, <1>3 DEF Beats
<1>6. Output(ToolParent, c) = fout
  BY <1>4, <1>5 DEF Nearer
<1>7. c # NoDividers
  BY <1>4 DEF NoDividers
<1> QED
  BY <1>6, <1>7 DEF c
-----------------------------------------------------------------------------
\* What a tool has chosen is what calc_params returns for some rate; and while
\* it sets the rate or waits for the lock, for the rate asked for.
ChosenInv ==
  /\ DOMAIN phase = Tools /\ DOMAIN rate = Tools /\ DOMAIN chosen = Tools
  /\ \A t \in Tools :
       /\ rate[t] \in Rates \cup {0}
       /\ chosen[t] # NoDividers => \E r \in Rates : chosen[t] = Params[r]
       /\ phase[t] \in {"setting", "locking"} => /\ rate[t] \in Rates
                                                 /\ chosen[t] = Params[rate[t]]

\* It holds at the start, when nothing is chosen.
LEMMA InitChosenInv == Init => ChosenInv
  BY DEF Init, ChosenInv

\* Every step keeps it.
LEMMA ChosenInvStep == ChosenInv /\ [Next]_vars => ChosenInv'
<1> SUFFICES ASSUME ChosenInv, [Next]_vars PROVE ChosenInv'
  OBVIOUS
<1>1. CASE UNCHANGED <<phase, rate, chosen>>
  BY <1>1 DEF ChosenInv
<1>2. ASSUME NEW t \in Tools, NEW ph \in {"done", "info", "before", "after"},
             phase' = [phase EXCEPT ![t] = ph], UNCHANGED chosen,
             NEW r \in Rates \cup {0},
             rate' = rate \/ rate' = [rate EXCEPT ![t] = r]
      PROVE  ChosenInv'
  BY <1>2 DEF ChosenInv
<1>3. ASSUME NEW t \in Tools, Info(t) PROVE ChosenInv'
  BY <1>2, <1>3 DEF Info, Call
<1>4. ASSUME NEW t \in Tools, NEW r \in Rates \cup {0}, Clock(t, r) PROVE ChosenInv'
  BY <1>4 DEF Clock, Call, ChosenInv
<1>5. ASSUME NEW t \in Tools, InfoDone(t) \/ ClockDone(t) PROVE ChosenInv'
  BY <1>2, <1>5 DEF InfoDone, ClockDone, Return
<1>6. ASSUME NEW t \in Tools, RateShown(t) PROVE ChosenInv'
  <2>1. CASE rate[t] = 0
    BY <1>2, <1>6, <2>1 DEF RateShown, Return
  <2>2. CASE rate[t] # 0
    <3>1. /\ rate[t] \in Rates /\ UNCHANGED rate
          /\ chosen' = [chosen EXCEPT ![t] = Params[rate[t]]]
          /\ \E ph \in {"setting", "locking"} : phase' = [phase EXCEPT ![t] = ph]
      BY <1>6, <2>2 DEF RateShown, Call, ChosenInv
    <3> QED
      BY <3>1 DEF ChosenInv
  <2> QED
    BY <2>1, <2>2
<1>7. ASSUME NEW t \in Tools, RateSet(t) PROVE ChosenInv'
  BY <1>7 DEF RateSet, Between, Call, ChosenInv
<1>8. ASSUME NEW t \in Tools, LockTested(t) PROVE ChosenInv'
  BY <1>2, <1>8 DEF LockTested, Call, Return
<1>9. ASSUME NEW t \in Tools,
             \/ BeginAccess(t) \/ PollIdle(t) \/ PollWord(t)
             \/ SendCtrl(t) \/ TakeWord(t) \/ ClearWord(t)
      PROVE  ChosenInv'
  BY <1>1, <1>9 DEF BeginAccess, PollIdle, PollWord, Seen, Missed, SendCtrl, TakeWord,
     ClearWord
<1>10. CASE CarryOut \/ UNCHANGED vars
  BY <1>1, <1>10 DEF CarryOut, toolVars, vars
<1> QED
  BY <1>3, <1>4, <1>5, <1>6, <1>7, <1>8, <1>9, <1>10 DEF Next, Command, Run

\* It holds in every state.
LEMMA ChosenInvHolds == Spec => []ChosenInv
  BY InitChosenInv, ChosenInvStep, PTL DEF Spec

\* The dividers that CalcParams chooses keep the limits.
LEMMA ChosenInvLegal == ChosenInv => LimitsKept
<1> SUFFICES ASSUME ChosenInv, NEW t \in Tools, chosen[t] # NoDividers
             PROVE  Legal(ParentKHz, chosen[t])
  BY DEF LimitsKept, Legal
<1>1. PICK r \in Rates : chosen[t] = Params[r]
  BY DEF ChosenInv
<1>2. r \in Nat \ {0} /\ ParentKHz \in Nat \ {0} /\ chosen[t] = CalcParams(ParentKHz, r)
  BY <1>1, ClockAssumption DEF Params
<1>3. chosen[t] \in Choices(ParentKHz, r)
  BY <1>2, CalcParamsChooses DEF Candidates
<1> QED
  BY <1>2, <1>3, ChoicesAreLegal

\* Whatever is chosen keeps the limits of the clock manager, for every parent
\* rate and every rate asked for, although the loops find it with divisions that
\* truncate (clocking.cpp:47-64).
THEOREM ChosenAreLegal == Spec => []LimitsKept
  BY ChosenInvHolds, ChosenInvLegal, PTL

\* From the parent of 125 MHz that the tool always has, what is chosen is legal
\* and a rate that legal dividers can make is made exactly, for every set of
\* rates: the loops miss none, and the comparison of unsigned differences, which
\* prefers any frequency above the target to all below, never prefers one to an
\* exact match (clocking.cpp:39-75).
THEOREM ChosenAreBest ==
  ASSUME ParentKHz = ToolParent
  PROVE  Spec => []SettingIsBest
<1>1. ChosenInv => ExactWhenPossible
  <2> SUFFICES ASSUME ChosenInv,
                      NEW t \in Tools, phase[t] \in {"setting", "locking"},
                      rate[t] \in ExactRates
               PROVE  chosen[t] # NoDividers /\ Output(ParentKHz, chosen[t]) = rate[t]
    BY DEF ExactWhenPossible
  <2>1. rate[t] \in Rates /\ Exact(rate[t])
    BY DEF ExactRates
  <2>2. rate[t] \in Nat \ {0}
    BY <2>1, ClockAssumption
  <2>3. chosen[t] = Params[rate[t]]
    BY DEF ChosenInv
  <2>4. chosen[t] = CalcParams(ParentKHz, rate[t])
    BY <2>1, <2>3 DEF Params
  <2> QED
    BY <2>1, <2>2, <2>4, ExactIsFound
<1>2. ChosenInv /\ LimitsKept => SettingIsBest
  BY <1>1 DEF SettingIsBest
<1> QED
  BY <1>2, ChosenInvHolds, ChosenAreLegal, PTL

-----------------------------------------------------------------------------
(***************************************************************************)
(* The accesses.  A function of ClockGenerator makes those of its program, *)
(* in their order, and has an answer for each read that it has made; and   *)
(* the retries that an access has left are as many as its loops allow.     *)
(***************************************************************************)
Enable == Write("update_enable", 1)
Disable == Write("update_enable", 0)

Program(t) ==
  CASE phase[t] \in {"info", "before", "after"} -> GetRate
    [] phase[t] = "locking"                     -> IsLocked
    [] phase[t] = "setting"                     -> SetRate(chosen[t])
    [] phase[t] = "done"                        -> <<>>

Made(t) == Len(Program(t)) - Len(todo[t])

ProgramInv(t) ==
  /\ Made(t) >= 0
  /\ \A j \in 1 .. Len(todo[t]) : todo[t][j] = Program(t)[Made(t) + j]
  /\ phase[t] # "setting" => Len(got[t]) = Made(t) + (IF pc[t] = "clear" THEN 1 ELSE 0)
  /\ phase[t] = "setting" => chosen[t] # NoDividers
  /\ pc[t] # "free" => todo[t] # <<>>
  /\ pc[t] \in {"await", "take", "clear"} => Head(todo[t]).rnw

TriesInv(t) ==
  /\ pc[t] = "poll" => tries[t] \in 0 .. 5
  /\ pc[t] \in {"send", "await"} => tries[t] \in -1 .. 5

TypeInv == TypeOK /\ ChosenInv /\ \A t \in Tools : ProgramInv(t) /\ TriesInv(t)

\* Dividers that can be set.
IsChoice(c) == c.d \in Nat /\ c.m \in Nat \ {0} /\ c.dout \in Nat

\* What is chosen is of that kind.
LEMMA ParamsAre ==
  ASSUME NEW r \in Rates
  PROVE  Params[r] \in Dividers /\ (Params[r] # NoDividers => IsChoice(Params[r]))
<1> DEFINE c == CalcParams(ParentKHz, r)
<1>1. Params[r] = c /\ ParentKHz \in Nat \ {0} /\ r \in Nat \ {0}
  BY ClockAssumption DEF Params
<1>2. CASE c = NoDividers
  BY <1>1, <1>2 DEF Dividers, NoDividers
<1>3. CASE c \in Candidates(ParentKHz, r)
  <2> HIDE DEF c
  <2>1. c \in Choices(ParentKHz, r)
    BY <1>3 DEF Candidates
  <2>2. /\ c.m \in Nat \ {0} /\ c.d \in Nat \ {0} /\ c.dout \in 1 .. 128
    BY <1>1, <2>1, ChoiceRange
  <2>3. \E m, d, o : c = [d |-> d, m |-> m, dout |-> o]
    BY <2>1 DEF Choices
  <2>4. c \in Dividers
    BY <2>2, <2>3 DEF Dividers
  <2> QED
    BY <1>1, <2>2, <2>4 DEF IsChoice
<1> QED
  BY <1>1, <1>2, <1>3, CalcParamsChooses

\* The values of a setting are natural numbers.
LEMMA SettingType ==
  ASSUME NEW c, IsChoice(c)
  PROVE  Setting(c) \in [SettingRegs -> Nat]
<1> DEFINE P(n) == CalcClkParams(n)
<1>1. ASSUME NEW n \in Nat PROVE PackCounts(P(n)) \in Nat /\ Flags(P(n)) \in Nat
  <2>1. /\ P(n).nocount \in {0, 1} /\ P(n).edge \in {0, 1}
        /\ P(n).high \in Nat /\ P(n).low \in Nat
    BY DEF CalcClkParams
  <2> HIDE DEF P
  <2>2. P(n).high + 1 - (P(n).high % 2) \in Nat
    BY <2>1
  <2> QED
    BY <2>1, <2>2 DEF PackCounts, Flags
<1> HIDE DEF P
<1>2. lookup_lock(c.m - 1) \in Nat /\ lookup_filter(c.m - 1) \in Nat
  BY DEF lookup_lock, lookup_filter, Lesser, IsChoice
<1>3. /\ PackCounts(P(c.dout)) \in Nat /\ Flags(P(c.dout)) \in Nat
      /\ PackCounts(P(c.d)) + 64 * Flags(P(c.d)) \in Nat
      /\ PackCounts(P(c.m)) \in Nat /\ Flags(P(c.m)) \in Nat
  BY <1>1 DEF IsChoice
<1> QED
  BY <1>2, <1>3 DEF Setting, SettingRegs, P

\* The accesses that make a setting.
Settle(c, r) == Write(r, Setting(c)[r])
SettingAccesses(c) == {Settle(c, r) : r \in SettingRegs}

\* SetRate: updates are disabled, each register of the setting is written, and
\* updates are enabled.
LEMMA SetRateIs ==
  ASSUME NEW c
  PROVE  /\ SetRate(c) \in Seq({Disable, Enable} \cup SettingAccesses(c))
         /\ Len(SetRate(c)) = 12
         /\ SetRate(c)[1] = Disable /\ SetRate(c)[12] = Enable
         /\ \A i \in 2 .. 11 : SetRate(c)[i] \in SettingAccesses(c)
         /\ \A r \in SettingRegs : \E i \in 2 .. 11 : SetRate(c)[i] = Settle(c, r)
<1> DEFINE w(r) == Settle(c, r)
           S == {Disable, Enable} \cup SettingAccesses(c)
           V == SettingWrites(c)
           A == <<Disable>>
           B == <<Enable>>
<1>1. V = <<w("clkout_1"), w("clkout_2"), w("clk_div"), w("clk_fb_1"), w("clk_fb_2"),
            w("lock_1"), w("lock_2"), w("lock_3"), w("filter_1"), w("filter_2")>>
  BY DEF SettingWrites, Settle
<1>2. \A r \in SettingRegs : w(r) \in SettingAccesses(c)
  BY DEF SettingAccesses
<1> HIDE DEF w, V
<1>3. /\ w("clkout_1") \in SettingAccesses(c) /\ w("clkout_2") \in SettingAccesses(c)
      /\ w("clk_div") \in SettingAccesses(c) /\ w("clk_fb_1") \in SettingAccesses(c)
      /\ w("clk_fb_2") \in SettingAccesses(c) /\ w("lock_1") \in SettingAccesses(c)
      /\ w("lock_2") \in SettingAccesses(c) /\ w("lock_3") \in SettingAccesses(c)
      /\ w("filter_1") \in SettingAccesses(c) /\ w("filter_2") \in SettingAccesses(c)
  BY <1>2 DEF SettingRegs
<1>4. V \in Seq(SettingAccesses(c)) /\ Len(V) = 10
  BY <1>1, <1>3
<1>5. ASSUME NEW r \in SettingRegs PROVE \E k \in 1 .. 10 : V[k] = w(r)
  <2>1. /\ V[1] = w("clkout_1") /\ V[2] = w("clkout_2") /\ V[3] = w("clk_div")
        /\ V[4] = w("clk_fb_1") /\ V[5] = w("clk_fb_2") /\ V[6] = w("lock_1")
        /\ V[7] = w("lock_2") /\ V[8] = w("lock_3") /\ V[9] = w("filter_1")
        /\ V[10] = w("filter_2")
    BY <1>1
  <2> QED
    BY <2>1 DEF SettingRegs
<1> HIDE DEF S
<1>6. A \in Seq(S) /\ V \in Seq(S) /\ B \in Seq(S) /\ Len(A) = 1 /\ Len(B) = 1
      /\ A[1] = Disable /\ B[1] = Enable
  BY <1>4 DEF S
<1> HIDE DEF A, B
<1>7. /\ A \o V \in Seq(S) /\ Len(A \o V) = 1 + 10
      /\ \A i \in 1 .. (1 + 10) : (A \o V)[i] = IF i <= 1 THEN A[i] ELSE V[i - 1]
  <2> HIDE DEF S
  <2>1. /\ A \o V \in Seq(S) /\ Len(A \o V) = Len(A) + Len(V)
        /\ \A i \in 1 .. (Len(A) + Len(V)) :
             (A \o V)[i] = IF i <= Len(A) THEN A[i] ELSE V[i - Len(A)]
    BY <1>6, ConcatProperties, Zenon
  <2> QED
    BY <1>4, <1>6, <2>1
<1>8. /\ A \o V \o B \in Seq(S) /\ Len(A \o V \o B) = 11 + 1
      /\ \A i \in 1 .. (11 + 1) : (A \o V \o B)[i] = IF i <= 11 THEN (A \o V)[i] ELSE B[i - 11]
  <2> DEFINE U == A \o V
  <2>1. U \in Seq(S) /\ Len(U) = 11
    BY <1>7
  <2> HIDE DEF U
  <2>2. /\ U \o B \in Seq(S) /\ Len(U \o B) = Len(U) + Len(B)
        /\ \A i \in 1 .. (Len(U) + Len(B)) :
             (U \o B)[i] = IF i <= Len(U) THEN U[i] ELSE B[i - Len(U)]
    BY <1>6, <2>1, ConcatProperties, Zenon
  <2>3. /\ U \o B \in Seq(S) /\ Len(U \o B) = 11 + 1
        /\ \A i \in 1 .. (11 + 1) : (U \o B)[i] = IF i <= 11 THEN U[i] ELSE B[i - 11]
    BY <1>6, <2>1, <2>2
  <2> QED
    BY <2>3 DEF U
<1>9. SetRate(c) = A \o V \o B
  BY Zenon DEF SetRate, A, B, V, Enable, Disable
<1> DEFINE U == A \o V
           W == A \o V \o B
<1>10. /\ \A i \in 1 .. (1 + 10) : U[i] = IF i <= 1 THEN A[i] ELSE V[i - 1]
       /\ \A i \in 1 .. (11 + 1) : W[i] = IF i <= 11 THEN U[i] ELSE B[i - 11]
       /\ W \in Seq(S) /\ Len(W) = 11 + 1 /\ SetRate(c) = W
  BY <1>7, <1>8, <1>9, Zenon
<1> HIDE DEF U, W
<1>11. W[1] = Disable /\ W[12] = Enable
  BY <1>6, <1>10
<1>12. \A i \in 2 .. 11 : W[i] = V[i - 1] /\ i - 1 \in 1 .. 10
  BY <1>10
<1>13. \A k \in 1 .. 10 : W[k + 1] = V[k] /\ k + 1 \in 2 .. 11
  BY <1>10
<1>14. ASSUME NEW i \in 2 .. 11 PROVE W[i] \in SettingAccesses(c)
  <2>1. W[i] = V[i - 1] /\ i - 1 \in 1 .. 10
    BY <1>12
  <2>2. i - 1 \in 1 .. Len(V)
    BY <1>4, <2>1
  <2>3. V[i - 1] \in SettingAccesses(c)
    BY <1>4, <2>2, ElementOfSeq
  <2> QED
    BY <2>1, <2>3
<1>15. ASSUME NEW r \in SettingRegs PROVE \E i \in 2 .. 11 : W[i] = Settle(c, r)
  <2>1. PICK k \in 1 .. 10 : V[k] = w(r)
    BY <1>5
  <2>2. W[k + 1] = Settle(c, r) /\ k + 1 \in 2 .. 11
    BY <1>13, <2>1 DEF w
  <2> QED
    BY <2>2
<1>16. W \in Seq({Disable, Enable} \cup SettingAccesses(c)) /\ Len(W) = 12
  BY <1>10 DEF S
<1> QED
  BY <1>10, <1>11, <1>14, <1>15, <1>16, Zenon

\* A setting is made by requests.
LEMMA SettingRequests ==
  ASSUME NEW c, IsChoice(c)
  PROVE  SettingAccesses(c) \subseteq Requests
<1>1. ASSUME NEW r \in SettingRegs PROVE Settle(c, r) \in Requests
  <2>1. Setting(c)[r] \in Nat /\ r \in Registers
    BY SettingType DEF Registers
  <2> QED
    BY <2>1 DEF Settle, Write, Requests
<1> QED
  BY <1>1 DEF SettingAccesses

\* Programs consist of requests.
LEMMA ProgramsType ==
  /\ GetRate \in Seq(Requests) /\ IsLocked \in Seq(Requests)
  /\ \A c : IsChoice(c) => SetRate(c) \in Seq(Requests)
<1>1. GetRate \in Seq(Requests) /\ IsLocked \in Seq(Requests)
  BY DEF GetRate, IsLocked, Read, Requests, Registers, SettingRegs
<1>2. ASSUME NEW c, IsChoice(c) PROVE SetRate(c) \in Seq(Requests)
  <2>1. SettingAccesses(c) \subseteq Requests
    BY <1>2, SettingRequests
  <2>2. Enable \in Requests /\ Disable \in Requests
    BY DEF Enable, Disable, Write, Requests, Registers
  <2>3. {Disable, Enable} \cup SettingAccesses(c) \subseteq Requests
    BY <2>1, <2>2
  <2>4. SetRate(c) \in Seq({Disable, Enable} \cup SettingAccesses(c))
    BY SetRateIs
  <2> HIDE DEF Requests
  <2> QED
    BY <2>3, <2>4
<1> QED
  BY <1>1, <1>2

\* So the program of each phase consists of requests.
LEMMA ProgramType ==
  ASSUME NEW t \in Tools, phase[t] \in Phases, phase[t] = "setting" => IsChoice(chosen[t])
  PROVE  Program(t) \in Seq(Requests)
BY ProgramsType DEF Program, Phases

\* What GetRate makes of three answers is dividers.
LEMMA DecodedType ==
  ASSUME NEW g \in Seq(Nat), Len(g) = 3
  PROVE  Decoded(g) \in Dividers
<1>1. g[1] \in Nat /\ g[2] \in Nat /\ g[3] \in Nat
  <2>1. 1 \in 1 .. Len(g) /\ 2 \in 1 .. Len(g) /\ 3 \in 1 .. Len(g)
    OBVIOUS
  <2> QED
    BY <2>1, ElementOfSeq
<1>2. ASSUME NEW n \in Nat PROVE DividerOf(n) \in Nat
  BY DEF DividerOf
<1> QED
  BY <1>1, <1>2 DEF Decoded, Dividers, NoDividers

\* A function of ClockGenerator has ended and the next one begins, or none.
Jump(t) ==
  /\ pc[t] = "free" /\ todo[t] = <<>>
  /\ UNCHANGED <<pc, tries, boardVars, ranOut>>
  /\ \E ph \in Phases : phase' = [phase EXCEPT ![t] = ph]
  /\ todo' = [todo EXCEPT ![t] = Program(t)']
  /\ got' = [got EXCEPT ![t] = <<>>]
  /\ chosen' \in [Tools -> Dividers]
  /\ \A u \in Tools \ {t} : chosen'[u] = chosen[u]
  /\ phase'[t] = "setting" => chosen'[t] # NoDividers

\* What else such a step gives a tool has its type.
JumpTypes ==
  /\ rate' \in [Tools -> Rates \cup {0}]
  /\ shown' \in [Tools -> Dividers]
  /\ ret' \in [Tools -> {-1, 0, 1}]
  /\ commands' \in [Tools -> 0 .. MaxCommands]

Function(t) ==
  \/ Command(t) \/ InfoDone(t) \/ RateShown(t) \/ RateSet(t) \/ LockTested(t) \/ ClockDone(t)

\* The answers are there when a rate is shown.
LEMMA ShownType ==
  ASSUME TypeInv, NEW t \in Tools, NEW ph \in {"info", "before", "after"}, Between(t, ph)
  PROVE  Decoded(got[t]) \in Dividers
<1>1. got[t] \in Seq(Nat) /\ ProgramInv(t)
  BY DEF TypeInv, TypeOK
<1>2. Len(got[t]) = 3
  <2>1. Program(t) = GetRate /\ Len(GetRate) = 3 /\ Len(todo[t]) = 0
    BY DEF Between, Program, GetRate
  <2> QED
    BY <1>1, <2>1 DEF Between, ProgramInv, Made
<1> QED
  BY <1>1, <1>2, DecodedType

\* Each function of ClockGenerator begins or ends in that way.
LEMMA FunctionJumps ==
  ASSUME TypeInv, NEW t \in Tools, Function(t)
  PROVE  Jump(t) /\ JumpTypes
<1>0. TypeOK /\ ChosenInv
  BY DEF TypeInv
<1>1. ASSUME NEW ph \in Phases, NEW P, Call(t, ph, P), pc[t] = "free", todo[t] = <<>>,
             P = Program(t)', UNCHANGED <<tries, boardVars, ranOut>>,
             chosen' \in [Tools -> Dividers], \A u \in Tools \ {t} : chosen'[u] = chosen[u],
             ph = "setting" => chosen'[t] # NoDividers
      PROVE  Jump(t)
  BY <1>0, <1>1 DEF Call, Jump, TypeOK
<1>2. ASSUME NEW r, Return(t, r), pc[t] = "free", todo[t] = <<>>,
             UNCHANGED <<tries, chosen, boardVars, ranOut>>
      PROVE  Jump(t)
  <2>1. phase'[t] = "done"
    BY <1>0, <1>2 DEF Return, TypeOK
  <2>2. Program(t)' = <<>>
    BY <2>1 DEF Program
  <2>3. todo' = [todo EXCEPT ![t] = <<>>]
    BY <1>0, <1>2 DEF Return, TypeOK
  <2> QED
    BY <1>0, <1>2, <2>2, <2>3 DEF Return, Jump, TypeOK, Phases
<1>3. ASSUME Info(t) PROVE Jump(t) /\ JumpTypes
  <2>1. phase'[t] = "info"
    BY <1>0, <1>3 DEF Info, Call, TypeOK
  <2>2. GetRate = Program(t)'
    BY <2>1 DEF Program
  <2>3. Jump(t)
    BY <1>0, <1>1, <1>3, <2>2 DEF Info, Between, TypeOK, Phases
  <2>4. commands' \in [Tools -> 0 .. MaxCommands]
    BY <1>0, <1>3, ClockAssumption DEF Info, TypeOK
  <2> QED
    BY <1>0, <1>3, <2>3, <2>4 DEF Info, JumpTypes, TypeOK
<1>4. ASSUME NEW r \in Rates \cup {0}, Clock(t, r) PROVE Jump(t) /\ JumpTypes
  <2>1. phase'[t] = "before"
    BY <1>0, <1>4 DEF Clock, Call, TypeOK
  <2>2. GetRate = Program(t)'
    BY <2>1 DEF Program
  <2>3. chosen' \in [Tools -> Dividers] /\ \A u \in Tools \ {t} : chosen'[u] = chosen[u]
    BY <1>0, <1>4 DEF Clock, TypeOK, Dividers, NoDividers
  <2>4. Jump(t)
    BY <1>1, <1>4, <2>2, <2>3 DEF Clock, Between, Phases
  <2>5. commands' \in [Tools -> 0 .. MaxCommands]
    BY <1>0, <1>4, ClockAssumption DEF Clock, TypeOK
  <2> QED
    BY <1>0, <1>4, <2>4, <2>5 DEF Clock, JumpTypes, TypeOK
<1>5. ASSUME InfoDone(t) \/ ClockDone(t) PROVE Jump(t) /\ JumpTypes
  <2>1. Decoded(got[t]) \in Dividers
    BY <1>5, ShownType DEF InfoDone, ClockDone
  <2>2. Jump(t)
    BY <1>2, <1>5 DEF InfoDone, ClockDone, Between
  <2> QED
    BY <1>0, <1>5, <2>1, <2>2 DEF InfoDone, ClockDone, Return, JumpTypes, TypeOK
<1>6. ASSUME RateShown(t) PROVE Jump(t) /\ JumpTypes
  <2>1. Decoded(got[t]) \in Dividers /\ pc[t] = "free" /\ todo[t] = <<>>
        /\ UNCHANGED <<tries, rate, commands, boardVars, ranOut>>
        /\ shown' = [shown EXCEPT ![t] = Decoded(got[t])]
    BY <1>6, ShownType DEF RateShown, Between
  <2>2. CASE rate[t] = 0
    <3>1. Return(t, 1) /\ UNCHANGED chosen
      BY <1>6, <2>2 DEF RateShown
    <3> QED
      BY <1>0, <1>2, <2>1, <3>1 DEF Return, JumpTypes, TypeOK
  <2>3. CASE rate[t] # 0
    <3> DEFINE c == Params[rate[t]]
    <3>1. /\ chosen' = [chosen EXCEPT ![t] = c] /\ UNCHANGED ret
          /\ IF c = NoDividers THEN Call(t, "locking", IsLocked)
                               ELSE Call(t, "setting", SetRate(c))
      BY <1>6, <2>3 DEF RateShown
    <3>2. c \in Dividers
      BY <1>0, <2>3, ParamsAre DEF TypeOK
    <3> HIDE DEF c
    <3>3. /\ chosen'[t] = c /\ chosen' \in [Tools -> Dividers]
          /\ \A u \in Tools \ {t} : chosen'[u] = chosen[u]
      BY <1>0, <3>1, <3>2 DEF TypeOK
    <3>4. CASE c = NoDividers
      <4>1. Call(t, "locking", IsLocked)
        BY <3>1, <3>4
      <4>2. IsLocked = Program(t)'
        BY <1>0, <4>1 DEF Call, Program, TypeOK
      <4> QED
        BY <1>0, <1>1, <2>1, <3>1, <3>3, <4>1, <4>2 DEF JumpTypes, TypeOK, Phases
    <3>5. CASE c # NoDividers
      <4>1. Call(t, "setting", SetRate(c))
        BY <3>1, <3>5
      <4>2. SetRate(c) = Program(t)'
        BY <1>0, <3>3, <4>1 DEF Call, Program, TypeOK
      <4> QED
        BY <1>0, <1>1, <2>1, <3>1, <3>3, <3>5, <4>1, <4>2 DEF JumpTypes, TypeOK, Phases
    <3> QED
      BY <3>4, <3>5
  <2> QED
    BY <2>2, <2>3
<1>7. ASSUME RateSet(t) PROVE Jump(t) /\ JumpTypes
  <2>1. IsLocked = Program(t)'
    BY <1>0, <1>7 DEF RateSet, Call, Program, TypeOK
  <2> QED
    BY <1>0, <1>1, <1>7, <2>1 DEF RateSet, Between, JumpTypes, TypeOK, Phases
<1>8. ASSUME LockTested(t) PROVE Jump(t) /\ JumpTypes
  <2>1. CASE Head(got[t]) % 2 = 1
    <3>1. Call(t, "after", GetRate) /\ UNCHANGED ret
      BY <1>8, <2>1 DEF LockTested
    <3>2. GetRate = Program(t)'
      BY <1>0, <3>1 DEF Call, Program, TypeOK
    <3> QED
      BY <1>0, <1>1, <1>8, <3>1, <3>2 DEF LockTested, Between, JumpTypes, TypeOK, Phases
  <2>2. CASE ~(Head(got[t]) % 2 = 1)
    <3>1. Return(t, -1)
      BY <1>8, <2>2 DEF LockTested
    <3> QED
      BY <1>0, <1>2, <1>8, <3>1 DEF LockTested, Between, Return, JumpTypes, TypeOK
  <2> QED
    BY <2>1, <2>2
<1> QED
  BY <1>3, <1>4, <1>5, <1>6, <1>7, <1>8 DEF Function, Command

\* What is known of the accesses of a tool concerns that tool alone.
LEMMA SameAccess ==
  ASSUME NEW t \in Tools, ProgramInv(t), TriesInv(t),
         UNCHANGED <<pc[t], phase[t], todo[t], tries[t], got[t], chosen[t]>>
  PROVE  ProgramInv(t)' /\ TriesInv(t)'
BY DEF ProgramInv, TriesInv, Program, Made

\* Dividers that are being set can be.
LEMMA SetsChoice ==
  ASSUME TypeInv, NEW t \in Tools
  PROVE  phase[t] = "setting" => IsChoice(chosen[t])
BY ParamsAre DEF TypeInv, ChosenInv, ProgramInv

\* So the accesses a tool has to make are requests.
LEMMA ToMakeType ==
  ASSUME TypeInv, NEW t \in Tools
  PROVE  Program(t) \in Seq(Requests) /\ todo[t] \in Seq(Requests)
BY SetsChoice, ProgramType DEF TypeInv, TypeOK

\* The next function keeps the types.
LEMMA JumpStep ==
  ASSUME TypeInv, NEW t \in Tools, Jump(t), JumpTypes, ChosenInv'
  PROVE  TypeInv'
<1>0. TypeOK
  BY DEF TypeInv
<1>1. PICK ph \in Phases : phase' = [phase EXCEPT ![t] = ph]
  BY DEF Jump
<1>2. phase'[t] \in Phases /\ phase' \in [Tools -> Phases]
  BY <1>0, <1>1 DEF TypeOK
<1>3. phase'[t] = "setting" => IsChoice(chosen'[t])
  BY ParamsAre DEF ChosenInv, Jump
<1>4. Program(t)' \in Seq(Requests)
  <2>1. ASSUME NEW c, NEW p \in Phases, p = "setting" => IsChoice(c)
        PROVE  (CASE p \in {"info", "before", "after"} -> GetRate
                  [] p = "locking"                     -> IsLocked
                  [] p = "setting"                     -> SetRate(c)
                  [] p = "done"                        -> <<>>) \in Seq(Requests)
    BY <2>1, ProgramsType DEF Phases
  <2> QED
    BY <1>2, <1>3, <2>1 DEF Program
<1>5. todo' \in [Tools -> Seq(Requests)] /\ todo'[t] = Program(t)'
  BY <1>0, <1>4 DEF TypeOK, Jump
<1>6. got' \in [Tools -> Seq(Nat)] /\ got'[t] = <<>>
  BY <1>0 DEF TypeOK, Jump
<1>7. TypeOK'
  <2>1. regs' \in [Registers -> Nat] /\ loaded' \in [SettingRegs -> Nat]
        /\ job' \in Requests \cup {NoJob} /\ misses' \in 0 .. Delay /\ word' \in Nat
        /\ full' \in BOOLEAN /\ late' \in BOOLEAN /\ slow' \in 0 .. MaxSlow
        /\ ranOut' \in BOOLEAN
    BY <1>0 DEF TypeOK, Jump, boardVars
  <2> QED
    BY <1>0, <1>2, <1>5, <1>6, <2>1 DEF TypeOK, Jump, JumpTypes
<1>8. ProgramInv(t)' /\ TriesInv(t)'
  <2>1. pc'[t] = "free" /\ Made(t)' = 0 /\ Len(got'[t]) = 0
    BY <1>4, <1>5, <1>6 DEF Jump, Made
  <2>2. \A j \in 1 .. Len(todo'[t]) : 0 + j = j
    BY <1>4, <1>5
  <2>3. \A j \in 1 .. Len(todo'[t]) : todo'[t][j] = Program(t)'[0 + j]
    BY <1>5, <2>2
  <2> QED
    BY <2>1, <2>3 DEF ProgramInv, TriesInv, Jump
<1>9. ASSUME NEW u \in Tools, u # t PROVE ProgramInv(u)' /\ TriesInv(u)'
  <2>1. ProgramInv(u) /\ TriesInv(u)
    BY DEF TypeInv
  <2>2. UNCHANGED <<pc[u], phase[u], todo[u], tries[u], got[u], chosen[u]>>
    BY <1>0, <1>1, <1>9 DEF Jump, TypeOK
  <2> QED
    BY <2>1, <2>2, SameAccess
<1> QED
  BY <1>7, <1>8, <1>9 DEF TypeInv

\* The access at hand is that of the program which comes after those made.
LEMMA AtHand ==
  ASSUME TypeInv, NEW t \in Tools, todo[t] # <<>>
  PROVE  /\ Made(t) \in Nat /\ Made(t) + 1 \in 1 .. Len(Program(t))
         /\ Head(todo[t]) = Program(t)[Made(t) + 1] /\ Head(todo[t]) \in Requests
         /\ phase[t] # "setting" => Head(todo[t]).rnw
<1>1. Program(t) \in Seq(Requests) /\ todo[t] \in Seq(Requests) /\ ProgramInv(t)
  BY ToMakeType DEF TypeInv
<1>2. Len(todo[t]) \in Nat /\ Len(todo[t]) >= 1 /\ Head(todo[t]) = todo[t][1]
  BY <1>1, HeadTailProperties
<1>3. Len(Program(t)) \in Nat
  BY <1>1
<1>4. Made(t) \in Nat /\ Made(t) + 1 \in 1 .. Len(Program(t))
  BY <1>1, <1>2, <1>3 DEF ProgramInv, Made
<1>5. Head(todo[t]) = Program(t)[Made(t) + 1]
  BY <1>1, <1>2 DEF ProgramInv
<1>6. ASSUME phase[t] # "setting" PROVE Program(t)[Made(t) + 1].rnw
  <2>1. Program(t) \in {GetRate, IsLocked, <<>>}
    BY <1>6 DEF Program, TypeInv, TypeOK, Phases
  <2>2. \A P \in {GetRate, IsLocked, <<>>} : \A i \in 1 .. Len(P) : P[i].rnw
    BY DEF GetRate, IsLocked, Read
  <2> QED
    BY <1>4, <2>1, <2>2
<1>7. Head(todo[t]) \in Requests
  BY <1>1, <1>4, <1>5, ElementOfSeq
<1> QED
  BY <1>4, <1>5, <1>6, <1>7

\* An access is made.
LEMMA OneMade ==
  ASSUME TypeInv, NEW t \in Tools, todo[t] # <<>>, todo'[t] = Tail(todo[t]),
         UNCHANGED <<phase[t], chosen[t]>>
  PROVE  /\ todo'[t] \in Seq(Requests) /\ Len(todo'[t]) = Len(todo[t]) - 1
         /\ Made(t)' = Made(t) + 1 /\ Made(t) \in Nat
         /\ \A j \in 1 .. Len(todo'[t]) : /\ todo'[t][j] = todo[t][j + 1]
                                          /\ todo'[t][j] = Program(t)'[Made(t)' + j]
<1> DEFINE l == todo[t]
           P == Program(t)
<1>1. P \in Seq(Requests) /\ l \in Seq(Requests) /\ ProgramInv(t)
  BY ToMakeType DEF TypeInv
<1>2. /\ Tail(l) \in Seq(Requests) /\ Len(Tail(l)) = Len(l) - 1 /\ Len(l) >= 1
      /\ Len(l) \in Nat /\ \A j \in 1 .. (Len(l) - 1) : Tail(l)[j] = l[j + 1]
  BY <1>1, HeadTailProperties
<1>3. Program(t)' = P
  BY DEF Program
<1>4. Len(P) \in Nat /\ Made(t) = Len(P) - Len(l) /\ Made(t)' = Len(P) - Len(Tail(l))
  BY <1>1, <1>3 DEF Made
<1>5. Made(t)' = Made(t) + 1 /\ Made(t) \in Nat
  <2>1. Made(t) >= 0
    BY <1>1 DEF ProgramInv
  <2>2. PICK n, k, m0, m1 : n = Len(P) /\ k = Len(l) /\ m0 = Made(t) /\ m1 = Made(t)'
    OBVIOUS
  <2>3. n \in Nat /\ k \in Nat /\ m0 = n - k /\ m1 = n - (k - 1) /\ m0 >= 0
    BY <1>2, <1>4, <2>1, <2>2, Zenon
  <2>4. m1 = m0 + 1 /\ m0 \in Nat
    BY <2>3
  <2> QED
    BY <2>2, <2>4, Zenon
<1>6. ASSUME NEW j \in 1 .. Len(Tail(l)) PROVE Tail(l)[j] = P[Made(t)' + j]
  <2>1. j + 1 \in 1 .. Len(l) /\ Tail(l)[j] = l[j + 1]
    BY <1>2
  <2>2. Made(t) + (j + 1) = Made(t)' + j
    BY <1>2, <1>5
  <2>3. l[j + 1] = P[Made(t) + (j + 1)]
    BY <1>1, <2>1 DEF ProgramInv
  <2> QED
    BY <2>1, <2>2, <2>3
<1> QED
  BY <1>2, <1>3, <1>5, <1>6

\* Steps of an access leave the rest of the tool alone.
Access(t) ==
  \/ BeginAccess(t) \/ PollIdle(t) \/ PollWord(t)
  \/ SendCtrl(t) \/ TakeWord(t) \/ ClearWord(t)

\* They are a tool's own, but for the board's request and its answer.
LEMMA AccessFrame ==
  ASSUME TypeInv, NEW t \in Tools, Access(t)
  PROVE  /\ UNCHANGED <<phase, rate, chosen, shown, ret, commands, regs, loaded, word>>
         /\ \A u \in Tools \ {t} :
              UNCHANGED <<pc[u], phase[u], todo[u], tries[u], got[u], chosen[u]>>
BY DEF Access, BeginAccess, PollIdle, PollWord, Seen, Missed, SendCtrl, TakeWord, ClearWord,
   Finish, Counted, boardVars, TypeInv, TypeOK

\* And the types of what they change.
LEMMA AccessTypes ==
  ASSUME TypeInv, NEW t \in Tools, Access(t)
  PROVE  TypeOK' /\ ProgramInv(t)' /\ TriesInv(t)'
<1>0. TypeOK /\ ProgramInv(t) /\ TriesInv(t)
  BY DEF TypeInv
<1>f. UNCHANGED <<phase, rate, chosen, shown, ret, commands, regs, loaded, word>>
  BY AccessFrame
<1>1. ASSUME /\ pc' \in [Tools -> Steps] /\ todo' \in [Tools -> Seq(Requests)]
             /\ tries' \in [Tools -> -2 .. 5] /\ got' \in [Tools -> Seq(Nat)]
             /\ job' \in Requests \cup {NoJob} /\ misses' \in 0 .. Delay
             /\ full' \in BOOLEAN /\ late' \in BOOLEAN /\ slow' \in 0 .. MaxSlow
             /\ ranOut' \in BOOLEAN
      PROVE  TypeOK'
  BY <1>0, <1>f, <1>1 DEF TypeOK
<1>2. CASE BeginAccess(t)
  <2>1. /\ pc'[t] = "poll" /\ tries'[t] = 5 /\ UNCHANGED <<todo, got, boardVars, ranOut>>
        /\ todo[t] # <<>> /\ pc[t] = "free"
    BY <1>0, <1>2 DEF BeginAccess, Retries, TypeOK
  <2>2. TypeOK'
    BY <1>0, <1>1, <1>2, <2>1 DEF BeginAccess, Retries, TypeOK, Steps, boardVars
  <2>3. Program(t)' = Program(t) /\ Made(t)' = Made(t)
    BY <1>f, <2>1 DEF Program, Made
  <2> QED
    BY <1>0, <1>f, <2>1, <2>2, <2>3 DEF ProgramInv, TriesInv
<1>3. ASSUME NEW from, NEW bit, NEW to, Seen(t, from, bit, to),
             (from = "poll" /\ to = "send") \/ (from = "await" /\ to = "take")
      PROVE  TypeOK' /\ ProgramInv(t)' /\ TriesInv(t)'
  <2>1. /\ pc[t] = from /\ pc'[t] = to
        /\ UNCHANGED <<todo, tries, got, boardVars, ranOut>>
    BY <1>0, <1>3 DEF Seen, TypeOK
  <2>2. TypeOK'
    BY <1>0, <1>1, <1>3, <2>1 DEF Seen, TypeOK, Steps, boardVars
  <2>3. Program(t)' = Program(t) /\ Made(t)' = Made(t)
    BY <1>f, <2>1 DEF Program, Made
  <2>4. todo[t] # <<>>
    BY <1>0, <1>3, <2>1 DEF ProgramInv
  <2>5. to = "take" => Head(todo[t]).rnw
    BY <1>0, <1>3, <2>1 DEF ProgramInv
  <2>6. ProgramInv(t)'
    BY <1>0, <1>f, <1>3, <2>1, <2>3, <2>4, <2>5 DEF ProgramInv
  <2>7. TriesInv(t)'
    <3>1. to = "send" => tries[t] \in 0 .. 5
      BY <1>0, <1>3, <2>1 DEF TriesInv
    <3> QED
      BY <1>3, <2>1, <3>1 DEF TriesInv
  <2> QED
    BY <2>2, <2>6, <2>7
<1>4. ASSUME NEW from, NEW bit, NEW to, Missed(t, from, bit, to),
             (from = "poll" /\ to = "send") \/ (from = "await" /\ to = "take")
      PROVE  TypeOK' /\ ProgramInv(t)' /\ TriesInv(t)'
  <2>1. /\ pc[t] = from /\ tries'[t] = tries[t] - 1
        /\ tries' = [tries EXCEPT ![t] = @ - 1] /\ misses' = Lesser(misses + 1, Delay)
        /\ UNCHANGED <<todo, got, job, full, late, slow>>
        /\ \/ tries[t] > 0 /\ UNCHANGED <<pc, ranOut>>
           \/ tries[t] <= 0 /\ pc' = [pc EXCEPT ![t] = to] /\ ranOut' = TRUE
    <3>1. tries' = [tries EXCEPT ![t] = @ - 1] /\ tries \in [Tools -> -2 .. 5]
      BY <1>0, <1>4, Zenon DEF Missed, Counted, TypeOK
    <3>2. tries'[t] = tries[t] - 1
      BY <3>1
    <3>3. tries[t] > 0 => UNCHANGED <<pc, ranOut>>
      BY <1>4, Zenon DEF Missed
    <3>4. ~(tries[t] > 0) => pc' = [pc EXCEPT ![t] = to] /\ ranOut' = TRUE
      BY <1>4, Zenon DEF Missed
    <3>5. tries[t] \in Int
      BY <3>1
    <3>6. tries[t] > 0 \/ (tries[t] <= 0 /\ ~(tries[t] > 0))
      BY <3>5
    <3>7. /\ pc[t] = from /\ misses' = Lesser(misses + 1, Delay)
          /\ UNCHANGED <<todo, got, job, full, late, slow>>
      BY <1>4, Zenon DEF Missed
    <3> QED
      BY <3>1, <3>2, <3>3, <3>4, <3>6, <3>7, Zenon
  <2>2. tries[t] \in -1 .. 5 /\ tries' \in [Tools -> -2 .. 5]
    BY <1>0, <1>4, <2>1 DEF TriesInv, TypeOK
  <2>3. misses' \in 0 .. Delay
    BY <1>0, <2>1, ClockAssumption DEF Lesser, TypeOK
  <2>4. TypeOK'
    BY <1>0, <1>1, <1>4, <2>1, <2>2, <2>3 DEF TypeOK, Steps
  <2>5. pc'[t] = from \/ pc'[t] = to
    BY <1>0, <2>1 DEF TypeOK
  <2>6. TriesInv(t)'
    BY <1>0, <1>4, <2>1, <2>2, <2>5 DEF TriesInv, TypeOK
  <2>7. ProgramInv(t)'
    BY <1>0, <1>f, <1>4, <2>1, <2>5 DEF ProgramInv, Program, Made
  <2> QED
    BY <2>4, <2>6, <2>7
<1>5. CASE SendCtrl(t)
  <2>1. /\ pc[t] = "send" /\ todo[t] # <<>> /\ UNCHANGED <<tries, got, full, ranOut>>
    BY <1>0, <1>5 DEF SendCtrl, ProgramInv
  <2>2. Head(todo[t]) \in Requests /\ (phase[t] # "setting" => Head(todo[t]).rnw)
    BY <2>1, AtHand
  <2>3. /\ job' \in Requests \cup {NoJob} /\ misses' \in 0 .. Delay /\ late' \in BOOLEAN
        /\ slow' \in 0 .. MaxSlow
    <3>1. CASE Accept(Head(todo[t]))
      <4>1. job' \in Requests \cup {NoJob} /\ misses' \in 0 .. Delay
        BY <2>2, <3>1, ClockAssumption DEF Accept
      <4>2. late' = FALSE \/ (late' = (slow < MaxSlow))
        BY <3>1 DEF Accept
      <4>3. late' \in BOOLEAN /\ (late' => slow < MaxSlow)
        <5>1. (slow < MaxSlow) \in BOOLEAN
          BY <1>0, ClockAssumption DEF TypeOK
        <5>2. CASE late' = FALSE
          BY <5>2
        <5>3. CASE late' = (slow < MaxSlow)
          BY <5>1, <5>3, Zenon
        <5> QED
          BY <4>2, <5>2, <5>3
      <4>4. slow' \in 0 .. MaxSlow
        BY <1>0, <3>1, <4>3, ClockAssumption DEF Accept, TypeOK
      <4> QED
        BY <4>1, <4>3, <4>4
    <3>2. CASE UNCHANGED <<job, misses, late, slow>>
      BY <1>0, <3>2 DEF TypeOK
    <3> QED
      BY <1>5, <3>1, <3>2 DEF SendCtrl
  <2>4. CASE Head(todo[t]).rnw
    <3>1. pc' = [pc EXCEPT ![t] = "await"] /\ pc'[t] = "await" /\ UNCHANGED todo
      BY <1>0, <1>5, <2>4 DEF SendCtrl, TypeOK
    <3>2. TypeOK'
      BY <1>0, <1>1, <2>1, <2>3, <3>1 DEF TypeOK, Steps
    <3> QED
      BY <1>0, <1>f, <2>1, <2>4, <3>1, <3>2 DEF ProgramInv, TriesInv, Program, Made
  <2>5. CASE ~Head(todo[t]).rnw
    <3>1. /\ pc' = [pc EXCEPT ![t] = "free"] /\ pc'[t] = "free"
          /\ todo' = [todo EXCEPT ![t] = Tail(@)] /\ todo'[t] = Tail(todo[t])
      BY <1>0, <1>5, <2>5 DEF SendCtrl, Finish, TypeOK
    <3>2. /\ todo'[t] \in Seq(Requests) /\ Made(t)' >= 0
          /\ \A j \in 1 .. Len(todo'[t]) : todo'[t][j] = Program(t)'[Made(t)' + j]
      BY <1>f, <2>1, <3>1, OneMade
    <3>3. TypeOK'
      BY <1>0, <1>1, <2>1, <2>3, <3>1, <3>2 DEF TypeOK, Steps
    <3> QED
      BY <1>0, <1>f, <2>2, <2>5, <3>1, <3>2, <3>3 DEF ProgramInv, TriesInv
  <2> QED
    BY <2>4, <2>5
<1>6. CASE TakeWord(t)
  <2>1. /\ pc[t] = "take" /\ pc'[t] = "clear" /\ pc' = [pc EXCEPT ![t] = "clear"]
        /\ got'[t] = Append(got[t], word) /\ got' = [got EXCEPT ![t] = Append(@, word)]
        /\ UNCHANGED <<todo, tries, boardVars, ranOut>>
    BY <1>0, <1>6 DEF TakeWord, TypeOK
  <2>2. got'[t] \in Seq(Nat) /\ Len(got'[t]) = Len(got[t]) + 1
    BY <1>0, <2>1 DEF TypeOK
  <2>3. TypeOK'
    BY <1>0, <1>1, <2>1, <2>2 DEF TypeOK, Steps, boardVars
  <2>4. Program(t)' = Program(t) /\ Made(t)' = Made(t) /\ Made(t) \in Nat
    <3>1. todo[t] # <<>>
      BY <1>0, <2>1 DEF ProgramInv
    <3> QED
      BY <1>f, <2>1, <3>1, AtHand DEF Program, Made
  <2> QED
    BY <1>0, <1>f, <2>1, <2>2, <2>3, <2>4 DEF ProgramInv, TriesInv
<1>7. CASE ClearWord(t)
  <2>1. /\ pc[t] = "clear" /\ todo[t] # <<>>
        /\ pc' = [pc EXCEPT ![t] = "free"] /\ pc'[t] = "free"
        /\ todo' = [todo EXCEPT ![t] = Tail(@)] /\ todo'[t] = Tail(todo[t])
        /\ full' = FALSE /\ UNCHANGED <<tries, got, job, misses, late, slow, ranOut>>
    BY <1>0, <1>7 DEF ClearWord, Finish, ProgramInv, TypeOK
  <2>2. /\ todo'[t] \in Seq(Requests) /\ Made(t)' = Made(t) + 1 /\ Made(t) \in Nat
        /\ \A j \in 1 .. Len(todo'[t]) : todo'[t][j] = Program(t)'[Made(t)' + j]
    BY <1>f, <2>1, OneMade
  <2>3. TypeOK'
    BY <1>0, <1>1, <2>1, <2>2 DEF TypeOK, Steps
  <2> QED
    BY <1>0, <1>f, <2>1, <2>2, <2>3 DEF ProgramInv, TriesInv
<1> QED
  BY <1>2, <1>3, <1>4, <1>5, <1>6, <1>7 DEF Access, PollIdle, PollWord

\* The board keeps the types.
LEMMA CarryOutTypes ==
  ASSUME TypeInv, CarryOut
  PROVE  TypeInv'
<1>0. TypeOK /\ UNCHANGED <<toolVars, misses, late, slow, ranOut>> /\ job \in Requests
  BY DEF TypeInv, TypeOK, CarryOut
<1>1. /\ regs' \in [Registers -> Nat] /\ loaded' \in [SettingRegs -> Nat]
      /\ job' = NoJob /\ word' \in Nat /\ full' \in BOOLEAN
  <2>1. CASE job.rnw
    BY <1>0, <2>1 DEF CarryOut, TypeOK, Requests
  <2>2. CASE ~job.rnw
    <3>1. regs' \in [Registers -> Nat]
      <4>1. CASE job.reg = "update_enable" /\ job.val = 1
        <5>1. PICK lock \in {0, 1} :
                regs' = [regs EXCEPT !["update_enable"] = 1, !["status"] = lock]
          BY <2>2, <4>1 DEF CarryOut
        <5> DEFINE once == [regs EXCEPT !["update_enable"] = 1]
        <5>2. once \in [Registers -> Nat]
          BY <1>0 DEF TypeOK
        <5>3. regs' = [once EXCEPT !["status"] = lock]
          BY <5>1
        <5> HIDE DEF once
        <5>4. lock \in Nat
          OBVIOUS
        <5> QED
          BY <5>2, <5>3, <5>4
      <4>2. CASE ~(job.reg = "update_enable" /\ job.val = 1)
        <5>1. regs' = [regs EXCEPT ![job.reg] = job.val]
          BY <2>2, <4>2 DEF CarryOut
        <5>2. job.val \in Nat
          BY <1>0 DEF Requests
        <5> QED
          BY <1>0, <5>1, <5>2 DEF TypeOK
      <4> QED
        BY <4>1, <4>2
    <3>2. loaded' \in [SettingRegs -> Nat]
      BY <1>0, <2>2 DEF CarryOut, TypeOK, Requests, Registers
    <3> QED
      BY <1>0, <2>2, <3>1, <3>2 DEF CarryOut, TypeOK
  <2> QED
    BY <2>1, <2>2
<1>2. TypeOK'
  BY <1>0, <1>1 DEF TypeOK, toolVars
<1>3. ChosenInv'
  BY <1>0 DEF TypeInv, ChosenInv, toolVars
<1>4. \A t \in Tools : ProgramInv(t)' /\ TriesInv(t)'
  BY <1>0, SameAccess DEF TypeInv, toolVars
<1> QED
  BY <1>2, <1>3, <1>4 DEF TypeInv

\* The types hold at the start.
LEMMA InitTypes == Init => TypeInv
<1> SUFFICES ASSUME Init PROVE TypeInv
  OBVIOUS
<1>1. PowerUp.m \in Nat \ {0} /\ IsChoice(PowerUp)
  BY DEF PowerUp, IsChoice
<1>2. Setting(PowerUp) \in [SettingRegs -> Nat]
  BY <1>1, SettingType
<1>3. regs \in [Registers -> Nat] /\ loaded \in [SettingRegs -> Nat]
  BY <1>2 DEF Init, Registers
<1>4. TypeOK
  <2>1. NoDividers \in Dividers
    BY DEF NoDividers, Dividers
  <2>2. 0 \in 0 .. Delay /\ 0 \in 0 .. MaxSlow /\ 0 \in 0 .. MaxCommands
    BY ClockAssumption
  <2>3. <<>> \in Seq(Requests) /\ <<>> \in Seq(Nat)
    OBVIOUS
  <2> HIDE DEF Dividers, Requests
  <2>4. /\ pc \in [Tools -> Steps] /\ phase \in [Tools -> Phases]
        /\ todo \in [Tools -> Seq(Requests)] /\ tries \in [Tools -> -2 .. 5]
        /\ got \in [Tools -> Seq(Nat)] /\ rate \in [Tools -> Rates \cup {0}]
    BY <2>3 DEF Init, Steps, Phases
  <2>5. /\ chosen \in [Tools -> Dividers] /\ shown \in [Tools -> Dividers]
        /\ ret \in [Tools -> {-1, 0, 1}] /\ commands \in [Tools -> 0 .. MaxCommands]
    BY <2>1, <2>2 DEF Init
  <2>6. /\ job \in Requests \cup {NoJob} /\ misses \in 0 .. Delay /\ word \in Nat
        /\ full \in BOOLEAN /\ late \in BOOLEAN /\ slow \in 0 .. MaxSlow
        /\ ranOut \in BOOLEAN
    BY <2>2 DEF Init
  <2> QED
    BY <1>3, <2>4, <2>5, <2>6 DEF TypeOK
<1>5. \A t \in Tools : ProgramInv(t) /\ TriesInv(t)
  BY DEF Init, ProgramInv, TriesInv, Program, Made
<1> QED
  BY <1>4, <1>5, InitChosenInv DEF TypeInv

\* Every step keeps them.
LEMMA TypeStep == TypeInv /\ [Next]_vars => TypeInv'
<1> SUFFICES ASSUME TypeInv, [Next]_vars PROVE TypeInv'
  OBVIOUS
<1>1. ChosenInv'
  BY ChosenInvStep DEF TypeInv
<1>2. ASSUME NEW t \in Tools, Function(t) PROVE TypeInv'
  BY <1>1, <1>2, FunctionJumps, JumpStep
<1>3. ASSUME NEW t \in Tools, Access(t) PROVE TypeInv'
  <2>1. TypeOK' /\ ProgramInv(t)' /\ TriesInv(t)'
    BY <1>3, AccessTypes
  <2>2. \A u \in Tools \ {t} : ProgramInv(u)' /\ TriesInv(u)'
    BY <1>3, AccessFrame, SameAccess DEF TypeInv
  <2> QED
    BY <1>1, <2>1, <2>2 DEF TypeInv
<1>4. CASE UNCHANGED vars
  <2>1. TypeOK'
    BY <1>4 DEF vars, toolVars, boardVars, TypeInv, TypeOK
  <2>2. \A t \in Tools : ProgramInv(t)' /\ TriesInv(t)'
    BY <1>4, SameAccess DEF vars, toolVars, TypeInv
  <2> QED
    BY <1>1, <2>1, <2>2 DEF TypeInv
<1> QED
  BY <1>2, <1>3, <1>4, CarryOutTypes DEF Next, Function, Run, Access

\* The variables have the values that the source gives them, whatever the board does
\* and however many tools run (the retry counter goes down to -2,
\* clocking.cpp:108-116, 129, 137-166).
THEOREM ClockTypes == Spec => []TypeOK
<1>1. TypeInv => TypeOK
  BY DEF TypeInv
<1> QED
  BY <1>1, InitTypes, TypeStep, PTL DEF Spec

-----------------------------------------------------------------------------
(***************************************************************************)
(* A tool that runs alone, on a board that answers every request within    *)
(* two polls.                                                              *)
(***************************************************************************)

\* An access: what is left of the retries, which request the board works on, and
\* which answer it holds.
AccessInv(t) ==
  /\ ~ranOut /\ ~late
  /\ pc[t] \in {"free", "poll", "send"} => ~full /\ (job # NoJob => ~job.rnw)
  /\ pc[t] = "free" => (job # NoJob => misses = 0)
  /\ pc[t] = "poll" => tries[t] >= 5 - Delay /\ (job # NoJob => tries[t] = 5 - misses)
  /\ pc[t] = "send" => tries[t] >= 5 - Delay /\ job = NoJob
  /\ pc[t] = "await" =>
       \/ job = Head(todo[t]) /\ ~full /\ tries[t] >= 5 - Delay - misses
       \/ job = NoJob /\ full /\ word = regs[Head(todo[t]).reg]
  /\ pc[t] = "take" => job = NoJob /\ word = regs[Head(todo[t]).reg]
  /\ pc[t] = "clear" => job = NoJob /\ got[t][Len(got[t])] = regs[Head(todo[t]).reg]

\* No request is late once one could have been.
LEMMA SlowGrows ==
  ASSUME TypeInv, [Next]_vars, slow' = 0
  PROVE  slow = 0
<1>1. slow \in Nat
  BY ClockAssumption DEF TypeInv, TypeOK
<1>2. ASSUME NEW q, Accept(q) PROVE slow = 0
  <2>1. slow' = slow + 1 \/ slow' = slow
    BY <1>2 DEF Accept
  <2> QED
    BY <1>1, <2>1
<1>3. CASE UNCHANGED slow
  BY <1>3
<1>4. ASSUME NEW t \in Tools, SendCtrl(t) PROVE slow = 0
  BY <1>2, <1>4 DEF SendCtrl
<1>5. ASSUME NEW t \in Tools, Function(t) PROVE slow = 0
  BY <1>5, FunctionJumps DEF Jump, boardVars
<1>6. ASSUME NEW t \in Tools, Access(t), ~SendCtrl(t) PROVE slow = 0
  BY <1>6 DEF Access, BeginAccess, PollIdle, PollWord, Seen, Missed, TakeWord, ClearWord,
    boardVars
<1> QED
  BY <1>3, <1>4, <1>5, <1>6 DEF Next, Run, Function, Access, CarryOut, vars, boardVars

\* An access begins.
LEMMA BeginAlone ==
  ASSUME NEW t, Tools = {t}, TypeInv, AccessInv(t), BeginAccess(t)
  PROVE  AccessInv(t)'
<1>1. /\ pc[t] = "free" /\ pc'[t] = "poll" /\ tries'[t] = 5
      /\ UNCHANGED <<job, misses, full, late, ranOut>>
  BY DEF BeginAccess, Retries, TypeInv, TypeOK, boardVars
<1>2. 5 >= 5 - Delay /\ 5 = 5 - 0
  BY ClockAssumption
<1> QED
  BY <1>1, <1>2 DEF AccessInv

\* A poll sees what it waits for.
LEMMA SeenAlone ==
  ASSUME NEW t, Tools = {t}, TypeInv, AccessInv(t),
         Seen(t, "poll", idle, "send") \/ Seen(t, "await", full, "take")
  PROVE  AccessInv(t)'
<1>1. UNCHANGED <<todo, tries, got, regs, job, misses, word, full, late, ranOut>>
  BY DEF Seen, boardVars
<1>2. CASE Seen(t, "poll", idle, "send")
  <2>1. pc[t] = "poll" /\ pc'[t] = "send" /\ job = NoJob
    BY <1>2 DEF Seen, idle, TypeInv, TypeOK
  <2> QED
    BY <1>1, <2>1 DEF AccessInv
<1>3. CASE Seen(t, "await", full, "take")
  <2>1. pc[t] = "await" /\ pc'[t] = "take" /\ full
    BY <1>3 DEF Seen, TypeInv, TypeOK
  <2> QED
    BY <1>1, <2>1 DEF AccessInv
<1> QED
  BY <1>2, <1>3

\* A poll comes too early: at most Delay of them do so for a request, so that neither
\* loop comes to the end of the retries.
LEMMA MissedAlone ==
  ASSUME NEW t, Tools = {t}, Delay <= 2, TypeInv, AccessInv(t),
         Missed(t, "poll", idle, "send") \/ Missed(t, "await", full, "take")
  PROVE  AccessInv(t)'
<1>0. TypeOK /\ tries[t] \in Int /\ misses \in 0 .. Delay /\ Delay \in Nat
  BY ClockAssumption DEF TypeInv, TypeOK
<1>1. /\ UNCHANGED <<todo, got, regs, job, word, full, late>> /\ tries'[t] = tries[t] - 1
      /\ misses' = Lesser(misses + 1, Delay)
      /\ tries[t] > 0 => UNCHANGED <<pc, ranOut>>
      /\ (job # NoJob /\ ~late) => misses < Delay
  <2>1. tries' = [tries EXCEPT ![t] = @ - 1] /\ tries \in [Tools -> -2 .. 5]
    BY <1>0, Zenon DEF Missed, Counted, TypeOK
  <2>2. tries'[t] = tries[t] - 1
    BY <2>1
  <2> QED
    BY <2>2, Zenon DEF Missed
<1>2. CASE Missed(t, "poll", idle, "send")
  <2>1. pc[t] = "poll" /\ job # NoJob
    BY <1>2 DEF Missed, idle
  <2>2. ~late /\ ~ranOut /\ ~full /\ ~job.rnw /\ tries[t] = 5 - misses
    BY <2>1 DEF AccessInv
  <2>3. /\ misses' = misses + 1 /\ tries[t] > 0
        /\ tries'[t] = 5 - misses' /\ tries'[t] >= 5 - Delay
    <3>1. misses < Delay /\ misses' = misses + 1
      BY <1>0, <1>1, <2>1, <2>2 DEF Lesser
    <3> QED
      BY <1>0, <1>1, <2>2, <3>1
  <2>4. pc'[t] = "poll" /\ UNCHANGED ranOut
    BY <1>1, <2>1, <2>3
  <2> QED
    BY <1>1, <2>1, <2>2, <2>3, <2>4 DEF AccessInv
<1>3. CASE Missed(t, "await", full, "take")
  <2>1. pc[t] = "await" /\ ~full
    BY <1>3 DEF Missed
  <2>2. ~late /\ ~ranOut /\ job = Head(todo[t]) /\ tries[t] >= 5 - Delay - misses
    BY <2>1 DEF AccessInv
  <2>3. todo[t] # <<>>
    BY <2>1 DEF TypeInv, ProgramInv
  <2>4. job # NoJob
    BY <2>2, <2>3, AtHand, NoJobAssumption
  <2>5. misses' = misses + 1 /\ tries[t] > 0 /\ tries'[t] >= 5 - Delay - misses'
    BY <1>0, <1>1, <2>2, <2>4 DEF Lesser
  <2>6. pc'[t] = "await" /\ UNCHANGED ranOut
    BY <1>1, <2>1, <2>5
  <2> QED
    BY <1>1, <2>1, <2>2, <2>5, <2>6 DEF AccessInv
<1> QED
  BY <1>2, <1>3

\* What the step that sends a request does when the tool runs alone.
LEMMA Sent ==
  ASSUME NEW t, Tools = {t}, TypeInv, AccessInv(t), SendCtrl(t), slow = 0, slow' = 0
  PROVE  /\ pc[t] = "send" /\ todo[t] # <<>> /\ Head(todo[t]) \in Requests
         /\ job = NoJob /\ job' = Head(todo[t]) /\ misses' = 0 /\ ~late'
         /\ UNCHANGED <<tries, got, full, ranOut>>
         /\ Head(todo[t]).rnw => pc'[t] = "await" /\ UNCHANGED todo
         /\ ~Head(todo[t]).rnw => pc'[t] = "free" /\ todo'[t] = Tail(todo[t])
<1>1. pc[t] = "send" /\ UNCHANGED <<tries, got, full, ranOut>>
  BY DEF SendCtrl
<1>2. todo[t] # <<>> /\ job = NoJob
  BY <1>1 DEF TypeInv, ProgramInv, AccessInv
<1>3. Head(todo[t]) \in Requests
  BY <1>2, AtHand
<1>4. Accept(Head(todo[t]))
  BY <1>2 DEF SendCtrl, idle
<1>5. ~late'
  BY <1>4 DEF Accept
<1>6. Head(todo[t]).rnw => pc'[t] = "await" /\ UNCHANGED todo
  BY DEF SendCtrl, TypeInv, TypeOK
<1>7. ~Head(todo[t]).rnw => pc'[t] = "free" /\ todo'[t] = Tail(todo[t])
  BY DEF SendCtrl, Finish, TypeInv, TypeOK
<1> QED
  BY <1>1, <1>2, <1>3, <1>4, <1>5, <1>6, <1>7 DEF Accept

\* The request is sent.
LEMMA SendAlone ==
  ASSUME NEW t, Tools = {t}, TypeInv, AccessInv(t), SendCtrl(t), slow = 0, slow' = 0
  PROVE  AccessInv(t)'
<1>0. tries[t] \in Int /\ Delay \in Nat
  BY ClockAssumption DEF TypeInv, TypeOK
<1>1. ~ranOut /\ ~full /\ tries[t] >= 5 - Delay
  BY Sent DEF AccessInv
<1>2. CASE Head(todo[t]).rnw
  <2>1. tries'[t] >= 5 - Delay - misses'
    BY <1>0, <1>1, Sent
  <2> QED
    BY <1>1, <1>2, <2>1, Sent DEF AccessInv
<1>3. CASE ~Head(todo[t]).rnw
  BY <1>1, <1>3, Sent DEF AccessInv
<1> QED
  BY <1>2, <1>3

\* The answer is taken.
LEMMA TakeAlone ==
  ASSUME NEW t, Tools = {t}, TypeInv, AccessInv(t), TakeWord(t)
  PROVE  AccessInv(t)'
<1>1. /\ pc[t] = "take" /\ pc'[t] = "clear" /\ got'[t] = Append(got[t], word)
      /\ UNCHANGED <<todo, regs, job, full, late, ranOut>>
  BY DEF TakeWord, TypeInv, TypeOK, boardVars
<1>2. got[t] \in Seq(Nat) /\ word \in Nat
  BY DEF TypeInv, TypeOK
<1>3. got'[t][Len(got'[t])] = word
  <2> DEFINE s == got[t]
             s2 == Append(s, word)
  <2>1. s \in Seq(Nat)
    BY <1>2
  <2> HIDE DEF s
  <2>2. s2[Len(s2)] = word
    BY <1>2, <2>1
  <2> QED
    BY <1>1, <2>2 DEF s
<1> QED
  BY <1>1, <1>3 DEF AccessInv

\* The flag is cleared.
LEMMA ClearAlone ==
  ASSUME NEW t, Tools = {t}, TypeInv, AccessInv(t), ClearWord(t)
  PROVE  AccessInv(t)'
<1>1. pc[t] = "clear" /\ pc'[t] = "free" /\ full' = FALSE /\ UNCHANGED <<job, late, ranOut>>
  BY DEF ClearWord, Finish, TypeInv, TypeOK
<1> QED
  BY <1>1 DEF AccessInv

\* The board carries out its request.
LEMMA CarryOutAlone ==
  ASSUME NEW t, Tools = {t}, TypeInv, AccessInv(t), CarryOut
  PROVE  AccessInv(t)'
<1>1. /\ job # NoJob /\ job' = NoJob
      /\ UNCHANGED <<pc, todo, tries, got, misses, late, ranOut>>
  BY DEF CarryOut, toolVars
<1>2. job.rnw => word' = regs[job.reg] /\ full' = TRUE /\ UNCHANGED regs
  BY DEF CarryOut
<1>3. ~job.rnw => UNCHANGED <<word, full>>
  BY DEF CarryOut
<1>4. pc[t] \in {"free", "poll", "send", "await", "take", "clear"}
  BY DEF TypeInv, TypeOK, Steps
<1>5. CASE pc[t] \in {"free", "poll", "send"}
  BY <1>1, <1>2, <1>3, <1>5 DEF AccessInv
<1>6. CASE pc[t] = "await"
  <2>1. job = Head(todo[t])
    BY <1>1, <1>6 DEF AccessInv
  <2>2. Head(todo[t]).rnw
    BY <1>6 DEF TypeInv, ProgramInv
  <2> QED
    BY <1>1, <1>2, <1>6, <2>1, <2>2 DEF AccessInv
<1>7. CASE pc[t] \in {"take", "clear"}
  BY <1>1, <1>7 DEF AccessInv
<1> QED
  BY <1>4, <1>5, <1>6, <1>7

\* A function begins or ends between two accesses.
LEMMA FunctionAlone ==
  ASSUME NEW t, Tools = {t}, TypeInv, AccessInv(t), Function(t)
  PROVE  AccessInv(t)'
BY FunctionJumps DEF Jump, AccessInv, boardVars

\* So every step keeps what is known of the access.
LEMMA AccessAlone ==
  ASSUME NEW t, Tools = {t}, Delay <= 2, TypeInv, AccessInv(t), [Next]_vars, slow = 0, slow' = 0
  PROVE  AccessInv(t)'
<1>1. CASE UNCHANGED vars
  BY <1>1 DEF vars, toolVars, boardVars, AccessInv
<1>2. CASE CarryOut
  BY <1>2, CarryOutAlone
<1>3. CASE Function(t)
  BY <1>3, FunctionAlone
<1>4. CASE Access(t)
  BY <1>4, BeginAlone, SeenAlone, MissedAlone, SendAlone, TakeAlone, ClearAlone
     DEF Access, PollIdle, PollWord
<1> QED
  BY <1>1, <1>2, <1>3, <1>4 DEF Next, Run, Function, Access

-----------------------------------------------------------------------------
(***************************************************************************)
(* The registers.  Between two settings they hold the one the clock runs   *)
(* with, and updates are enabled; SetRate disables updates, writes each    *)
(* register of its setting, and enables them again.                        *)
(***************************************************************************)
Settings == {PowerUp} \cup ({Params[r] : r \in Rates} \ {NoDividers})

Holds(c) == \A r \in SettingRegs : regs[r] = Setting(c)[r]
IsLoaded == \E c \in Settings : loaded = Setting(c)

\* The board runs with setting c, and is not asked for another one.
Enabled(c) ==
  /\ regs["update_enable"] = 1 /\ Holds(c) /\ loaded = Setting(c)
  /\ job # NoJob => job.rnw

Enabling(c) == job = Enable /\ regs["update_enable"] = 0 /\ Holds(c) /\ IsLoaded

Disabling ==
  /\ job = Disable /\ regs["update_enable"] = 1
  /\ \E c \in Settings : Holds(c) /\ loaded = Setting(c)

\* A register has still to be written, is being written, or holds its new value.
Written(t, r) ==
  \/ \E j \in 1 .. Len(todo[t]) : todo[t][j].reg = r
  \/ regs[r] = Setting(chosen[t])[r] /\ (job # NoJob => job.reg # r)
  \/ job = Settle(chosen[t], r)

Writing(t) ==
  /\ regs["update_enable"] = 0 /\ IsLoaded
  /\ \A r \in SettingRegs : Written(t, r)
  /\ job # NoJob => job \in SettingAccesses(chosen[t])

SetInv(t) ==
  \/ Len(todo[t]) = 12 /\ \E c \in Settings : Enabled(c)
  \/ Len(todo[t]) = 11 /\ Disabling
  \/ Len(todo[t]) \in 1 .. 11 /\ Writing(t)
  \/ Len(todo[t]) = 0 /\ (Enabled(chosen[t]) \/ Enabling(chosen[t]))

\* The setting of the rate asked for, if it has one.
IsAsked(t, c) == c \in Settings /\ (chosen[t] # NoDividers => c = chosen[t])

BoardInv(t) ==
  /\ phase[t] \in {"done", "info", "before"} => \E c \in Settings : Enabled(c)
  /\ phase[t] = "setting" => SetInv(t)
  /\ phase[t] = "locking" =>
       \E c : /\ IsAsked(t, c)
              /\ Enabled(c) \/ (pc[t] \in {"free", "poll"} /\ todo[t] # <<>> /\ Enabling(c))
  /\ phase[t] = "after" => \E c : IsAsked(t, c) /\ Enabled(c)

\* Whatever the phase, the board runs with one whole setting.
LEMMA OneSetting ==
  ASSUME TypeInv, NEW t \in Tools, BoardInv(t)
  PROVE  /\ IsLoaded
         /\ regs["update_enable"] = 1 => loaded = [r \in SettingRegs |-> regs[r]]
<1>0. \A c \in Settings : IsChoice(c)
  BY ParamsAre DEF Settings, PowerUp, IsChoice
<1>1. ASSUME NEW c \in Settings PROVE Setting(c) = [r \in SettingRegs |-> Setting(c)[r]]
  <2>1. Setting(c) \in [SettingRegs -> Nat]
    BY <1>0, SettingType
  <2> QED
    BY <2>1
<1>2. ASSUME NEW c \in Settings, Holds(c), loaded = Setting(c)
      PROVE  loaded = [r \in SettingRegs |-> regs[r]]
  BY <1>1, <1>2, Zenon DEF Holds
<1>3. phase[t] = "setting" => IsChoice(chosen[t]) /\ chosen[t] \in Settings
  BY SetsChoice DEF TypeInv, ChosenInv, ProgramInv, Settings
<1>4. ASSUME NEW c \in Settings, Enabled(c) \/ Enabling(c)
      PROVE  IsLoaded /\ (regs["update_enable"] = 1 => loaded = [r \in SettingRegs |-> regs[r]])
  BY <1>2, <1>4 DEF Enabled, Enabling, IsLoaded
<1>5. CASE phase[t] = "setting"
  <2>1. SetInv(t)
    BY <1>5 DEF BoardInv
  <2>2. CASE \E c \in Settings : Enabled(c)
    BY <1>4, <2>2
  <2>3. CASE Disabling
    BY <1>2, <2>3 DEF Disabling, IsLoaded
  <2>4. CASE Writing(t)
    BY <2>4 DEF Writing
  <2>5. CASE Enabled(chosen[t]) \/ Enabling(chosen[t])
    BY <1>3, <1>4, <1>5, <2>5
  <2> QED
    BY <2>1, <2>2, <2>3, <2>4, <2>5 DEF SetInv
<1>6. CASE phase[t] # "setting"
  <2>1. \E c \in Settings : Enabled(c) \/ Enabling(c)
    BY <1>6 DEF BoardInv, IsAsked, TypeInv, TypeOK, Phases
  <2> QED
    BY <1>4, <2>1
<1> QED
  BY <1>5, <1>6

\* The invariant speaks of these variables only.
LEMMA SameBoard ==
  ASSUME NEW t, BoardInv(t),
         UNCHANGED <<phase[t], chosen[t], regs, loaded, job>>,
         UNCHANGED todo[t] \/ phase[t] # "setting",
         \/ job = NoJob
         \/ UNCHANGED todo[t] /\ (pc'[t] \in {"free", "poll"} \/ pc[t] \notin {"free", "poll"})
  PROVE  BoardInv(t)'
<1>1. UNCHANGED <<phase[t], chosen[t]>> /\ IsLoaded' = IsLoaded
  BY DEF IsLoaded
<1>2. \A c : Enabled(c)' = Enabled(c) /\ Enabling(c)' = Enabling(c)
  BY DEF Enabled, Enabling, Holds, IsLoaded
<1>3. phase[t] = "setting" => SetInv(t)' = SetInv(t)
  BY DEF SetInv, Enabled, Enabling, Disabling, Holds, IsLoaded, Writing, Written
<1>4. \A c : IsAsked(t, c)' = IsAsked(t, c)
  BY DEF IsAsked
<1>5. job = NoJob => \A c : ~Enabling(c)
  <2>1. Enable \in Requests
    BY DEF Enable, Write, Requests, Registers
  <2> QED
    BY <2>1, NoJobAssumption DEF Enabling
<1> QED
  BY <1>1, <1>2, <1>3, <1>4, <1>5 DEF BoardInv

\* Which access SetRate has at hand.
LEMMA HandOfSetRate ==
  ASSUME TypeInv, NEW t \in Tools, phase[t] = "setting", todo[t] # <<>>
  PROVE  /\ Len(todo[t]) \in 1 .. 12 /\ ~Head(todo[t]).rnw
         /\ Len(todo[t]) = 12 => Head(todo[t]) = Disable
         /\ Len(todo[t]) \in 2 .. 11 => Head(todo[t]) \in SettingAccesses(chosen[t])
         /\ Len(todo[t]) = 1 => Head(todo[t]) = Enable
<1> DEFINE c == chosen[t]
           k == Len(todo[t])
<1>1. /\ Program(t) = SetRate(c) /\ Len(SetRate(c)) = 12
      /\ SetRate(c)[1] = Disable /\ SetRate(c)[12] = Enable
      /\ \A i \in 2 .. 11 : SetRate(c)[i] \in SettingAccesses(c)
  BY SetRateIs DEF Program
<1>2. todo[t] \in Seq(Requests)
  BY ToMakeType
<1>3. k \in Nat /\ Made(t) = 12 - k
  BY <1>1, <1>2 DEF Made
<1>4. Made(t) \in Nat /\ Made(t) + 1 \in 1 .. 12 /\ Head(todo[t]) = SetRate(c)[Made(t) + 1]
  BY <1>1, AtHand
<1> HIDE DEF c, k
<1>5. k \in 1 .. 12 /\ Head(todo[t]) = SetRate(c)[13 - k]
  <2>1. PICK m : m = Made(t)
    OBVIOUS
  <2>2. k \in 1 .. 12 /\ m + 1 = 13 - k
    BY <1>3, <1>4, <2>1
  <2> QED
    BY <1>4, <2>1, <2>2, Zenon
<1>6. k = 12 => Head(todo[t]) = Disable
  BY <1>1, <1>5
<1>7. k = 1 => Head(todo[t]) = Enable
  BY <1>1, <1>5
<1>8. k \in 2 .. 11 => Head(todo[t]) \in SettingAccesses(c)
  <2>1. k \in 2 .. 11 => 13 - k \in 2 .. 11
    OBVIOUS
  <2> QED
    BY <1>1, <1>5, <2>1
<1>9. ~Head(todo[t]).rnw
  BY <1>5, <1>6, <1>7, <1>8 DEF Enable, Disable, Write, SettingAccesses, Settle
<1> QED
  BY <1>5, <1>6, <1>7, <1>8, <1>9 DEF c, k

\* A setting is what the registers hold when each of them holds its value.
LEMMA WholeSetting ==
  ASSUME TypeInv, NEW c \in Settings, Holds(c)
  PROVE  [r \in SettingRegs |-> regs[r]] = Setting(c)
<1>1. Setting(c) \in [SettingRegs -> Nat]
  BY SettingType, ParamsAre DEF Settings, PowerUp, IsChoice
<1> QED
  BY <1>1 DEF Holds

\* The accesses that only poll or take an answer.
LEMMA PollsBoard ==
  ASSUME NEW t, Tools = {t}, TypeInv, AccessInv(t), AccessInv(t)', BoardInv(t),
         Access(t), ~SendCtrl(t)
  PROVE  BoardInv(t)'
<1>1. UNCHANGED <<phase[t], chosen[t], regs, loaded, job>>
  BY AccessFrame DEF Access, BeginAccess, PollIdle, PollWord, Seen, Missed, TakeWord, ClearWord,
    boardVars
<1>2. CASE ClearWord(t)
  <2>1. pc[t] = "clear" /\ job = NoJob
    BY <1>2 DEF ClearWord, AccessInv
  <2>2. todo[t] # <<>> /\ Head(todo[t]).rnw
    BY <2>1 DEF TypeInv, ProgramInv
  <2>3. phase[t] # "setting"
    BY <2>2, HandOfSetRate
  <2> QED
    BY <1>1, <2>1, <2>3, SameBoard
<1>3. CASE ~ClearWord(t)
  <2>1. UNCHANGED todo
    BY <1>3 DEF Access, BeginAccess, PollIdle, PollWord, Seen, Missed, TakeWord
  <2>2. \/ job = NoJob
        \/ pc'[t] \in {"free", "poll"}
        \/ pc[t] \notin {"free", "poll"}
    <3>1. CASE BeginAccess(t)
      BY <3>1 DEF BeginAccess, TypeInv, TypeOK
    <3>2. CASE Seen(t, "poll", idle, "send")
      BY <3>2 DEF Seen, idle
    <3>3. CASE Missed(t, "poll", idle, "send")
      <4>1. tries[t] > 0
        BY <3>3 DEF Missed, AccessInv
      <4> QED
        BY <3>3, <4>1 DEF Missed
    <3>4. CASE PollWord(t) \/ TakeWord(t)
      BY <3>4 DEF PollWord, TakeWord, Seen, Missed
    <3> QED
      BY <1>3, <3>1, <3>2, <3>3, <3>4 DEF Access, PollIdle
  <2> QED
    BY <1>1, <2>1, <2>2, SameBoard
<1> QED
  BY <1>2, <1>3

\* A request is sent.
LEMMA SendBoard ==
  ASSUME NEW t, Tools = {t}, TypeInv, AccessInv(t), BoardInv(t), SendCtrl(t),
         slow = 0, slow' = 0
  PROVE  BoardInv(t)'
<1>0. UNCHANGED <<phase, chosen, regs, loaded>>
  BY AccessFrame DEF Access
<1>1. /\ pc[t] = "send" /\ todo[t] # <<>> /\ job = NoJob /\ job' = Head(todo[t])
      /\ ~Head(todo[t]).rnw => todo'[t] = Tail(todo[t])
      /\ Head(todo[t]).rnw => UNCHANGED todo
  BY Sent
<1>2. \A c : Holds(c)' = Holds(c)
  BY <1>0 DEF Holds
<1>3. ~Disabling /\ \A c : ~Enabling(c)
  <2>1. Enable \in Requests /\ Disable \in Requests
    BY DEF Enable, Disable, Write, Requests, Registers
  <2> QED
    BY <1>1, <2>1, NoJobAssumption DEF Enabling, Disabling
<1>4. CASE phase[t] # "setting"
  <2>1. Head(todo[t]).rnw
    BY <1>1, <1>4, AtHand
  <2>2. \A c : Enabled(c) => Enabled(c)'
    BY <1>0, <1>1, <1>2, <2>1 DEF Enabled
  <2>3. \A c : IsAsked(t, c)' = IsAsked(t, c)
    BY <1>0 DEF IsAsked
  <2> QED
    BY <1>0, <1>3, <1>4, <2>2, <2>3 DEF BoardInv
<1>5. CASE phase[t] = "setting"
  <2> DEFINE k == Len(todo[t])
  <2>0. SetInv(t) /\ todo[t] \in Seq(Requests)
    BY <1>5, ToMakeType DEF BoardInv
  <2>1. /\ k \in 1 .. 12 /\ ~Head(todo[t]).rnw
        /\ k = 12 => Head(todo[t]) = Disable
        /\ k \in 2 .. 11 => Head(todo[t]) \in SettingAccesses(chosen[t])
        /\ k = 1 => Head(todo[t]) = Enable
    BY <1>1, <1>5, HandOfSetRate
  <2>2. /\ todo'[t] = Tail(todo[t]) /\ Len(todo'[t]) = k - 1 /\ Head(todo[t]) = todo[t][1]
        /\ \A j \in 1 .. (k - 1) : todo'[t][j] = todo[t][j + 1]
    <3>1. todo'[t] = Tail(todo[t]) /\ Head(todo[t]) = todo[t][1]
      BY <1>1, <2>0, <2>1, HeadTailProperties
    <3>2. UNCHANGED <<phase[t], chosen[t]>>
      BY <1>0
    <3>3. /\ Len(todo'[t]) = k - 1
          /\ \A j \in 1 .. Len(todo'[t]) : todo'[t][j] = todo[t][j + 1]
      BY <1>1, <3>1, <3>2, OneMade
    <3> QED
      BY <3>1, <3>3
  <2> HIDE DEF k
  <2>3. SetInv(t)'
    <3>1. CASE k = 12
      <4>1. \E c \in Settings : Enabled(c)
        BY <2>0, <3>1 DEF SetInv, k
      <4>2. Disabling'
        BY <1>0, <1>1, <1>2, <2>1, <3>1, <4>1 DEF Enabled, Disabling
      <4>3. Len(todo'[t]) = 11
        BY <2>2, <3>1
      <4> QED
        BY <4>2, <4>3 DEF SetInv
    <3>2. CASE k \in 2 .. 11
      <4>1. Writing(t)
        <5>1. k # 12 /\ k # 0
          BY <3>2
        <5> QED
          BY <1>3, <2>0, <5>1, Zenon DEF SetInv, k
      <4>2. PICK s \in SettingRegs : job' = Settle(chosen[t], s)
        BY <1>1, <2>1, <3>2 DEF SettingAccesses
      <4>3. job'.reg = s
        BY <4>2 DEF Settle, Write
      <4>4. ASSUME NEW r \in SettingRegs, r # s PROVE Written(t, r)'
        <5>1. Written(t, r)
          BY <4>1 DEF Writing
        <5>2. CASE \E j \in 1 .. k : todo[t][j].reg = r
          <6>1. PICK j \in 1 .. k : todo[t][j].reg = r
            BY <5>2
          <6>2. j # 1
            BY <1>1, <2>2, <4>3, <4>4, <6>1
          <6>3. j - 1 \in 1 .. (k - 1) /\ (j - 1) + 1 = j
            BY <2>1, <6>2
          <6>4. todo'[t][j - 1].reg = r
            BY <2>2, <6>1, <6>3
          <6>5. \E i \in 1 .. Len(todo'[t]) : todo'[t][i].reg = r
            BY <2>2, <6>3, <6>4
          <6> QED
            BY <6>5 DEF Written
        <5>3. CASE regs[r] = Setting(chosen[t])[r]
          BY <1>0, <4>3, <4>4, <5>3 DEF Written
        <5>4. job # Settle(chosen[t], r)
          <6>1. SettingAccesses(chosen[t]) \subseteq Requests
            BY <1>5, SetsChoice, SettingRequests
          <6> QED
            BY <1>1, <6>1, NoJobAssumption DEF SettingAccesses
        <5> QED
          BY <5>1, <5>2, <5>3, <5>4 DEF Written, k
      <4>5. Written(t, s)'
        BY <1>0, <4>2 DEF Written
      <4>6. Writing(t)'
        BY <1>0, <4>1, <4>2, <4>4, <4>5 DEF Writing, IsLoaded, SettingAccesses
      <4>7. Len(todo'[t]) \in 1 .. 11
        <5>1. k - 1 \in 1 .. 11
          BY <3>2
        <5> QED
          BY <2>2, <5>1
      <4> QED
        BY <4>6, <4>7 DEF SetInv
    <3>3. CASE k = 1
      <4>1. Writing(t)
        BY <1>3, <2>0, <3>3 DEF SetInv, k
      <4>2. job' = Enable /\ todo[t][1] = Enable
        BY <1>1, <2>1, <2>2, <3>3
      <4>3. ASSUME NEW r \in SettingRegs PROVE regs[r] = Setting(chosen[t])[r]
        <5>1. Written(t, r)
          BY <4>1 DEF Writing
        <5>2. \A j \in 1 .. k : todo[t][j].reg # r
          BY <3>3, <4>2 DEF Enable, Write, SettingRegs
        <5>3. job # Settle(chosen[t], r)
          <6>1. SettingAccesses(chosen[t]) \subseteq Requests
            BY <1>5, SetsChoice, SettingRequests
          <6> QED
            BY <1>1, <6>1, NoJobAssumption DEF SettingAccesses
        <5> QED
          BY <5>1, <5>2, <5>3 DEF Written, k
      <4>4. Enabling(chosen[t])'
        BY <1>0, <4>1, <4>2, <4>3 DEF Enabling, Writing, Holds, IsLoaded
      <4>5. Len(todo'[t]) = 0
        BY <2>2, <3>3
      <4> QED
        BY <1>0, <4>4, <4>5 DEF SetInv
    <3>4. k = 12 \/ k \in 2 .. 11 \/ k = 1
      BY <2>1
    <3> QED
      BY <3>1, <3>2, <3>3, <3>4
  <2> QED
    BY <1>0, <1>5, <2>3 DEF BoardInv
<1> QED
  BY <1>4, <1>5

\* The board carries out its request.
LEMMA CarryOutBoard ==
  ASSUME NEW t, Tools = {t}, TypeInv, BoardInv(t), CarryOut
  PROVE  BoardInv(t)'
<1>0. /\ job # NoJob /\ job' = NoJob /\ regs \in [Registers -> Nat]
      /\ UNCHANGED <<pc, phase, todo, chosen>>
  BY DEF CarryOut, toolVars, TypeInv, TypeOK
<1>1. \A c : IsAsked(t, c)' = IsAsked(t, c)
  BY <1>0 DEF IsAsked
<1>2. job.rnw => UNCHANGED <<regs, loaded>>
  BY DEF CarryOut
<1>3. ASSUME NEW c, Enabled(c) PROVE Enabled(c)'
  BY <1>0, <1>2, <1>3 DEF Enabled, Holds
<1>4. ASSUME NEW c \in Settings, Enabling(c) PROVE Enabled(c)'
  <2>1. /\ ~job.rnw /\ job.reg = "update_enable" /\ job.val = 1 /\ Holds(c)
    BY <1>4 DEF Enabling, Enable, Write
  <2>2. /\ loaded' = [r \in SettingRegs |-> regs[r]]
        /\ \E lock \in {0, 1} :
             regs' = [regs EXCEPT !["update_enable"] = 1, !["status"] = lock]
    BY <2>1 DEF CarryOut
  <2>3. loaded' = Setting(c)
    BY <2>1, <2>2, WholeSetting
  <2>4. regs'["update_enable"] = 1 /\ \A r \in SettingRegs : regs'[r] = regs[r]
    BY <1>0, <2>2 DEF Registers, SettingRegs
  <2> QED
    BY <1>0, <2>1, <2>3, <2>4 DEF Enabled, Holds
<1>5. CASE phase[t] = "setting"
  <2>1. SetInv(t) /\ IsChoice(chosen[t]) /\ chosen[t] \in Settings
    BY <1>5, SetsChoice DEF BoardInv, TypeInv, ChosenInv, ProgramInv, Settings
  <2>2. SetInv(t)'
    <3>2. CASE Len(todo[t]) = 12 /\ \E c \in Settings : Enabled(c)
      BY <1>0, <1>3, <3>2 DEF SetInv
    <3>3. CASE Len(todo[t]) = 11 /\ Disabling
      <4>1. job = Disable /\ \E c \in Settings : loaded = Setting(c)
        BY <3>3 DEF Disabling
      <4>2. regs' = [regs EXCEPT !["update_enable"] = 0] /\ UNCHANGED loaded
        BY <4>1 DEF CarryOut, Disable, Write
      <4>3. regs'["update_enable"] = 0
        BY <1>0, <4>2 DEF Registers
      <4>4. ASSUME NEW r \in SettingRegs PROVE \E j \in 1 .. Len(todo[t]) : todo[t][j].reg = r
        <5>1. PICK i \in 2 .. 11 : SetRate(chosen[t])[i] = Settle(chosen[t], r)
          BY SetRateIs
        <5>2. Program(t) = SetRate(chosen[t]) /\ Len(Program(t)) = 12
          BY <1>5, SetRateIs DEF Program
        <5>3. i - 1 \in 1 .. Len(todo[t]) /\ Made(t) + (i - 1) = i
          BY <3>3, <5>2 DEF Made
        <5>4. todo[t][i - 1] = Program(t)[Made(t) + (i - 1)]
          BY <5>3 DEF TypeInv, ProgramInv
        <5>5. todo[t][i - 1].reg = r
          BY <5>1, <5>2, <5>3, <5>4 DEF Settle, Write
        <5> QED
          BY <5>3, <5>5
      <4>5. Writing(t)'
        BY <1>0, <4>1, <4>2, <4>3, <4>4 DEF Writing, Written, IsLoaded
      <4> QED
        BY <1>0, <3>3, <4>5 DEF SetInv
    <3>4. CASE Len(todo[t]) \in 1 .. 11 /\ Writing(t)
      <4> DEFINE c == chosen[t]
      <4>1. PICK s \in SettingRegs : job = Settle(c, s)
        BY <1>0, <3>4 DEF Writing, SettingAccesses
      <4>2. ~job.rnw /\ job.reg = s /\ job.val = Setting(c)[s] /\ s # "update_enable"
        BY <4>1 DEF Settle, Write, SettingRegs
      <4>3. regs' = [regs EXCEPT ![s] = Setting(c)[s]] /\ UNCHANGED loaded
        BY <4>2 DEF CarryOut
      <4>4. /\ regs'["update_enable"] = 0 /\ regs'[s] = Setting(c)[s]
            /\ \A r \in SettingRegs \ {s} : regs'[r] = regs[r]
        BY <1>0, <3>4, <4>2, <4>3 DEF Registers, Writing
      <4>5. ASSUME NEW r \in SettingRegs PROVE Written(t, r)'
        <5>1. CASE r = s
          BY <1>0, <4>4, <5>1 DEF Written
        <5>2. CASE r # s
          <6>1. job # Settle(c, r)
            BY <4>2, <5>2 DEF Settle, Write
          <6> QED
            BY <1>0, <3>4, <4>4, <5>2, <6>1 DEF Writing, Written
        <5> QED
          BY <5>1, <5>2
      <4>6. Writing(t)'
        BY <1>0, <3>4, <4>3, <4>4, <4>5 DEF Writing, IsLoaded
      <4> QED
        BY <1>0, <3>4, <4>6 DEF SetInv
    <3>5. CASE Len(todo[t]) = 0 /\ (Enabled(chosen[t]) \/ Enabling(chosen[t]))
      BY <1>0, <1>3, <1>4, <2>1, <3>5 DEF SetInv
    <3> QED
      BY <2>1, <3>2, <3>3, <3>4, <3>5 DEF SetInv
  <2> QED
    BY <1>0, <1>5, <2>2 DEF BoardInv
<1>6. CASE phase[t] # "setting"
  BY <1>0, <1>1, <1>3, <1>4, <1>6 DEF BoardInv, IsAsked
<1> QED
  BY <1>5, <1>6

\* A function of ClockGenerator begins or ends.
LEMMA FunctionBoard ==
  ASSUME NEW t, Tools = {t}, TypeInv, BoardInv(t), Function(t)
  PROVE  BoardInv(t)'
<1>0. /\ pc[t] = "free" /\ todo[t] = <<>> /\ Len(todo[t]) = 0 /\ TypeOK
      /\ UNCHANGED <<pc, regs, loaded, job>>
  BY FunctionJumps DEF Jump, boardVars, TypeInv
<1>1. \A c : Enabled(c)' = Enabled(c) /\ Enabling(c)' = Enabling(c)
  BY <1>0 DEF Enabled, Enabling, Holds, IsLoaded
<1>2. CASE Command(t) \/ InfoDone(t)
  <2>1. phase[t] \in {"done", "info"} /\ phase'[t] \in {"done", "info", "before"}
    BY <1>0, <1>2 DEF Command, Info, Clock, InfoDone, Between, Call, Return, TypeOK
  <2> QED
    BY <1>1, <2>1 DEF BoardInv
<1>3. CASE RateShown(t)
  <2>1. phase[t] = "before" /\ \E c \in Settings : Enabled(c)
    BY <1>3 DEF RateShown, Between, BoardInv
  <2>2. CASE rate[t] = 0
    <3>1. phase'[t] = "done"
      BY <1>0, <1>3, <2>2 DEF RateShown, Return, TypeOK
    <3> QED
      BY <1>1, <2>1, <3>1 DEF BoardInv
  <2>3. CASE rate[t] # 0
    <3>1. /\ chosen'[t] = Params[rate[t]]
          /\ IF chosen'[t] = NoDividers THEN Call(t, "locking", IsLocked)
                                        ELSE Call(t, "setting", SetRate(chosen'[t]))
      BY <1>0, <1>3, <2>3 DEF RateShown, TypeOK
    <3>2. CASE chosen'[t] = NoDividers
      <4>1. phase'[t] = "locking"
        BY <1>0, <3>1, <3>2 DEF Call, TypeOK
      <4> QED
        BY <1>1, <2>1, <3>2, <4>1 DEF BoardInv, IsAsked
    <3>3. CASE chosen'[t] # NoDividers
      <4>1. phase'[t] = "setting" /\ todo'[t] = SetRate(chosen'[t])
        BY <1>0, <3>1, <3>3 DEF Call, TypeOK
      <4>2. \A c : Len(SetRate(c)) = 12
        BY SetRateIs
      <4>3. Len(todo'[t]) = 12
        BY <4>1, <4>2
      <4>4. SetInv(t)'
        BY <1>1, <2>1, <4>3 DEF SetInv
      <4> QED
        BY <4>1, <4>4 DEF BoardInv
    <3> QED
      BY <3>2, <3>3
  <2> QED
    BY <2>2, <2>3
<1>4. CASE RateSet(t)
  <2>1. /\ phase[t] = "setting" /\ phase'[t] = "locking" /\ todo'[t] = IsLocked
        /\ UNCHANGED chosen
    BY <1>0, <1>4 DEF RateSet, Between, Call, TypeOK
  <2>2. Enabled(chosen[t]) \/ Enabling(chosen[t])
    <3>1. SetInv(t)
      BY <2>1 DEF BoardInv
    <3>2. Len(todo[t]) # 12 /\ Len(todo[t]) # 11 /\ Len(todo[t]) \notin 1 .. 11
      BY <1>0
    <3> QED
      BY <3>1, <3>2, Zenon DEF SetInv
  <2>3. chosen[t] \in Settings
    <3>1. chosen[t] # NoDividers
      BY <2>1 DEF TypeInv, ProgramInv
    <3>2. \E r \in Rates : chosen[t] = Params[r]
      BY <3>1 DEF TypeInv, ChosenInv
    <3> QED
      BY <3>1, <3>2 DEF Settings
  <2>4. IsLocked # <<>>
    BY DEF IsLocked
  <2> QED
    BY <1>0, <1>1, <2>1, <2>2, <2>3, <2>4 DEF BoardInv, IsAsked
<1>5. CASE LockTested(t) \/ ClockDone(t)
  <2>1. /\ phase[t] \in {"locking", "after"} /\ phase'[t] \in {"after", "done"}
        /\ UNCHANGED chosen
    BY <1>0, <1>5 DEF LockTested, ClockDone, Between, Call, Return, TypeOK
  <2>2. PICK c : IsAsked(t, c) /\ Enabled(c)
    BY <1>0, <2>1 DEF BoardInv
  <2> QED
    BY <1>1, <2>1, <2>2 DEF BoardInv, IsAsked
<1> QED
  BY <1>2, <1>3, <1>4, <1>5 DEF Function

\* So every step keeps what is known of the registers.
LEMMA BoardAlone ==
  ASSUME NEW t, Tools = {t}, TypeInv, AccessInv(t), AccessInv(t)', BoardInv(t),
         [Next]_vars, slow = 0, slow' = 0
  PROVE  BoardInv(t)'
<1>1. CASE UNCHANGED vars
  BY <1>1 DEF vars, toolVars, boardVars, BoardInv, SetInv, IsAsked, Enabled, Enabling,
              Disabling, Holds, IsLoaded, Writing, Written
<1>2. CASE CarryOut
  BY <1>2, CarryOutBoard
<1>3. CASE Function(t)
  BY <1>3, FunctionBoard
<1>4. CASE Access(t)
  BY <1>4, SendBoard, PollsBoard
<1> QED
  BY <1>1, <1>2, <1>3, <1>4 DEF Next, Run, Function, Access

(***************************************************************************)
(* What is read and shown.                                                 *)
(***************************************************************************)
Shows(t) == phase[t] \in {"info", "before", "after"}

ReadInv(t) ==
  /\ Shows(t) => \A i \in 1 .. Len(got[t]) : got[t][i] = regs[GetRate[i].reg]
  /\ phase[t] = "info" => rate[t] = 0

ShownInv(t) ==
  (phase[t] = "done" /\ ret[t] = 1 /\ chosen[t].dout \in 1 .. 126 /\ rate[t] # 0)
    => shown[t] = chosen[t]

\* GetRate finds the dividers of a setting in its registers.
LEMMA DecodesSetting ==
  ASSUME NEW c \in Dividers, c.dout \in 1 .. 126, c.d \in 1 .. 80, c.m \in 1 .. 64, NEW g,
         g[1] = Setting(c)["clkout_1"], g[2] = Setting(c)["clk_div"],
         g[3] = Setting(c)["clk_fb_1"]
  PROVE  Decoded(g) = c
<1>1. /\ g[1] = PackCounts(CalcClkParams(c.dout)) /\ g[3] = PackCounts(CalcClkParams(c.m))
      /\ g[2] = PackCounts(CalcClkParams(c.d)) + 64 * Flags(CalcClkParams(c.d))
  BY DEF Setting, SettingRegs
<1>2. DividerOf(g[1]) = c.dout
  BY <1>1, DividersFit
<1>3. DividerOf(g[3]) = c.m
  BY <1>1, DividersFit
<1>4. DividerOf(g[2]) = c.d
  <2> DEFINE p == PackCounts(CalcClkParams(c.d))
             edge == c.d % 2
             none == IF c.d = 1 THEN 1 ELSE 0
  <2>1. g[2] = p + 64 * (128 * edge + 64 * none)
    BY <1>1 DEF Flags, CalcClkParams
  <2>2. DividerOf(p) = c.d
    BY DividersFit
  <2>3. p \in Nat /\ edge \in Nat /\ none \in Nat
    BY DEF PackCounts, CalcClkParams
  <2> HIDE DEF p, edge, none
  <2>4. g[2] % 64 = p % 64 /\ g[2] \div 64 = (p \div 64) + 128 * edge + 64 * none
    BY <2>1, <2>3
  <2>5. (g[2] \div 64) % 64 = (p \div 64) % 64
    BY <2>3, <2>4
  <2> QED
    BY <2>2, <2>4, <2>5 DEF DividerOf
<1>5. c = [d |-> c.d, m |-> c.m, dout |-> c.dout]
  BY DEF Dividers
<1> QED
  BY <1>2, <1>3, <1>4, <1>5 DEF Decoded

\* What is chosen is legal.
LEMMA ChosenLegal ==
  ASSUME TypeInv, NEW t \in Tools, chosen[t] # NoDividers
  PROVE  chosen[t].d \in 1 .. 80 /\ chosen[t].m \in 1 .. 64
BY ChosenInvLegal DEF TypeInv, LimitsKept

\* What GetRate has read so far is still in the registers.
LEMMA ReadAlone ==
  ASSUME NEW t, Tools = {t}, TypeInv, AccessInv(t), BoardInv(t), ReadInv(t), [Next]_vars
  PROVE  ReadInv(t)'
<1>0. TypeOK /\ got[t] \in Seq(Nat)
  BY DEF TypeInv, TypeOK
<1>1. CASE UNCHANGED <<phase, got, regs, rate>>
  BY <1>1 DEF ReadInv, Shows
<1>2. CASE CarryOut
  <2>1. UNCHANGED <<phase, got, rate>> /\ job # NoJob
    BY <1>2 DEF CarryOut, toolVars
  <2>2. Shows(t) => job.rnw
    BY <2>1 DEF Shows, BoardInv, Enabled
  <2>3. Shows(t) => UNCHANGED regs
    BY <1>2, <2>2 DEF CarryOut
  <2> QED
    BY <2>1, <2>3 DEF ReadInv, Shows
<1>3. CASE Function(t)
  <2>1. got'[t] = <<>>
    BY <1>0, <1>3, FunctionJumps DEF Jump, TypeOK
  <2>2. phase'[t] = "info" => rate'[t] = 0
    <3>1. CASE Info(t)
      BY <1>0, <3>1 DEF Info, TypeOK
    <3>2. CASE ~Info(t)
      <4>1. phase'[t] # "info"
        <5>1. \A ph, P : Call(t, ph, P) /\ ph # "info" => phase'[t] # "info"
          BY <1>0 DEF Call, TypeOK
        <5>2. \A r : Return(t, r) => phase'[t] # "info"
          BY <1>0 DEF Return, TypeOK
        <5> QED
          BY <1>3, <3>2, <5>1, <5>2 DEF Function, Command, Clock, InfoDone, RateShown, RateSet,
             LockTested, ClockDone
      <4> QED
        BY <4>1
    <3> QED
      BY <3>1, <3>2
  <2> QED
    BY <2>1, <2>2 DEF ReadInv
<1>4. CASE TakeWord(t)
  <2>1. /\ pc[t] = "take" /\ got'[t] = Append(got[t], word) /\ UNCHANGED <<phase, regs, rate>>
    BY <1>0, <1>4 DEF TakeWord, boardVars, TypeOK
  <2>2. todo[t] # <<>> /\ word = regs[Head(todo[t]).reg]
    BY <2>1 DEF TypeInv, ProgramInv, AccessInv
  <2>3. Shows(t) => Program(t) = GetRate /\ Len(got[t]) = Made(t)
    <3>1. Shows(t) => Program(t) = GetRate /\ phase[t] # "setting"
      BY DEF Shows, Program
    <3>2. phase[t] # "setting" => Len(got[t]) = Made(t) + 0
      BY <2>1 DEF TypeInv, ProgramInv
    <3>3. Made(t) \in Nat
      BY <2>2, AtHand
    <3> QED
      BY <3>1, <3>2, <3>3
  <2>4. Shows(t) => word = regs[GetRate[Len(got[t]) + 1].reg]
    BY <2>2, <2>3, AtHand
  <2>5. /\ Len(got'[t]) = Len(got[t]) + 1 /\ Len(got[t]) \in Nat
        /\ \A i \in 1 .. Len(got[t]) : got'[t][i] = got[t][i]
        /\ got'[t][Len(got[t]) + 1] = word
    <3> DEFINE s == got[t]
               s2 == Append(s, word)
    <3>1. s \in Seq(Nat) /\ word \in Nat
      BY <1>0 DEF TypeOK
    <3> HIDE DEF s
    <3>2. /\ Len(s2) = Len(s) + 1 /\ Len(s) \in Nat
          /\ \A i \in 1 .. Len(s) : s2[i] = s[i]
          /\ s2[Len(s) + 1] = word
      BY <3>1
    <3> QED
      BY <2>1, <3>2 DEF s
  <2>6. ASSUME Shows(t), NEW i \in 1 .. Len(got'[t]) PROVE got'[t][i] = regs[GetRate[i].reg]
    <3>1. CASE i = Len(got[t]) + 1
      BY <2>4, <2>5, <2>6, <3>1
    <3>2. CASE i \in 1 .. Len(got[t])
      BY <2>5, <2>6, <3>2 DEF ReadInv
    <3> QED
      BY <2>5, <3>1, <3>2
  <2> QED
    BY <2>1, <2>6 DEF ReadInv, Shows
<1>5. CASE Access(t) /\ ~TakeWord(t)
  <2>1. UNCHANGED <<phase, regs, rate>>
    BY <1>5, AccessFrame
  <2>2. UNCHANGED got
    BY <1>5 DEF Access, BeginAccess, PollIdle, PollWord, Seen, Missed, SendCtrl, ClearWord
  <2> QED
    BY <1>1, <2>1, <2>2
<1>6. CASE UNCHANGED vars
  BY <1>1, <1>6 DEF vars, toolVars, boardVars
<1> QED
  BY <1>2, <1>3, <1>4, <1>5, <1>6 DEF Next, Run, Function, Access

\* What is printed after a command is what was chosen.
LEMMA ShownAlone ==
  ASSUME NEW t, Tools = {t}, TypeInv, BoardInv(t), ReadInv(t), ShownInv(t), [Next]_vars
  PROVE  ShownInv(t)'
<1>0. TypeOK
  BY DEF TypeInv
<1>1. CASE UNCHANGED <<phase, ret, chosen, rate, shown>>
  BY <1>1 DEF ShownInv
<1>2. CASE CarryOut \/ UNCHANGED vars
  BY <1>1, <1>2 DEF CarryOut, vars, toolVars
<1>3. CASE Access(t)
  BY <1>1, <1>3, AccessFrame
<1>4. CASE Function(t) /\ ~ClockDone(t)
  <2>1. phase'[t] # "done" \/ ret'[t] = -1 \/ rate'[t] = 0
    <3>1. CASE Command(t) \/ RateSet(t)
      BY <1>0, <3>1 DEF Command, Info, Clock, RateSet, Call, TypeOK
    <3>2. CASE InfoDone(t)
      BY <3>2 DEF InfoDone, Between, ReadInv
    <3>3. CASE RateShown(t)
      BY <1>0, <3>3 DEF RateShown, Call, TypeOK
    <3>4. CASE LockTested(t)
      BY <1>0, <3>4 DEF LockTested, Call, Return, TypeOK
    <3> QED
      BY <1>4, <3>1, <3>2, <3>3, <3>4 DEF Function
  <2> QED
    BY <2>1 DEF ShownInv
<1>5. CASE ClockDone(t)
  <2> SUFFICES ASSUME chosen[t].dout \in 1 .. 126
               PROVE  Decoded(got[t]) = chosen[t]
    BY <1>0, <1>5 DEF ClockDone, ShownInv, TypeOK
  <2>1. phase[t] = "after" /\ todo[t] = <<>> /\ pc[t] = "free"
    BY <1>5 DEF ClockDone, Between
  <2>2. chosen[t] # NoDividers
    BY DEF NoDividers
  <2>3. Enabled(chosen[t])
    BY <2>1, <2>2 DEF BoardInv, IsAsked
  <2>4. Len(got[t]) = 3
    <3>1. Len(got[t]) = Made(t) + 0 /\ got[t] \in Seq(Nat)
      BY <1>0, <2>1 DEF TypeInv, ProgramInv, TypeOK
    <3>2. Program(t) = GetRate /\ Len(GetRate) = 3 /\ Len(todo[t]) = 0
      BY <2>1 DEF Program, GetRate
    <3>3. Made(t) = 3
      BY <3>2 DEF Made
    <3> QED
      BY <3>1, <3>3
  <2>5. /\ got[t][1] = regs["clkout_1"] /\ got[t][2] = regs["clk_div"]
        /\ got[t][3] = regs["clk_fb_1"]
    <3>1. \A i \in 1 .. 3 : got[t][i] = regs[GetRate[i].reg]
      BY <2>1, <2>4 DEF ReadInv, Shows
    <3>2. /\ GetRate[1].reg = "clkout_1" /\ GetRate[2].reg = "clk_div"
          /\ GetRate[3].reg = "clk_fb_1"
      BY DEF GetRate, Read
    <3> QED
      BY <3>1, <3>2
  <2>6. /\ got[t][1] = Setting(chosen[t])["clkout_1"]
        /\ got[t][2] = Setting(chosen[t])["clk_div"]
        /\ got[t][3] = Setting(chosen[t])["clk_fb_1"]
    BY <2>3, <2>5 DEF Enabled, Holds, SettingRegs
  <2>7. chosen[t].d \in 1 .. 80 /\ chosen[t].m \in 1 .. 64
    BY <2>2, ChosenLegal
  <2> QED
    BY <1>0, <2>6, <2>7, DecodesSetting DEF TypeOK
<1> QED
  BY <1>2, <1>3, <1>4, <1>5 DEF Next, Run, Function, Access

\* All of it, as long as no request could have been late.
SoloInv(t) ==
  slow = 0 => AccessInv(t) /\ BoardInv(t) /\ ReadInv(t) /\ ShownInv(t)

LEMMA SoloInit ==
  ASSUME NEW t, Tools = {t}
  PROVE  Init => SoloInv(t)
<1> SUFFICES ASSUME Init PROVE AccessInv(t) /\ BoardInv(t) /\ ReadInv(t) /\ ShownInv(t)
  BY DEF SoloInv
<1>1. phase[t] = "done" /\ pc[t] = "free" /\ ret[t] = 0 /\ job = NoJob
  BY DEF Init
<1>2. AccessInv(t) /\ ReadInv(t) /\ ShownInv(t)
  BY <1>1 DEF Init, AccessInv, ReadInv, ShownInv, Shows
<1>3. Enabled(PowerUp)
  BY DEF Init, Enabled, Holds, Registers, SettingRegs
<1> QED
  BY <1>1, <1>2, <1>3 DEF BoardInv, Settings

LEMMA SoloStep ==
  ASSUME NEW t, Tools = {t}, Delay <= 2
  PROVE  TypeInv /\ SoloInv(t) /\ [Next]_vars => SoloInv(t)'
BY AccessAlone, BoardAlone, ReadAlone, ShownAlone, SlowGrows DEF SoloInv

\* The retries suffice, though the two loops of a read share them, for a tool that
\* runs alone on a board that misses at most two polls (clocking.cpp:108-116,
\* 137-166).
THEOREM RetriesSuffice ==
  ASSUME NEW CONSTANT t, Tools = {t}, Delay <= 2
  PROVE  Spec => []PatienceSuffices
<1>1. SoloInv(t) => PatienceSuffices
  BY DEF SoloInv, PatienceSuffices, AccessInv
<1> QED
  BY <1>1, SoloInit, SoloStep, InitTypes, TypeStep, PTL DEF Spec

\* Then a read takes the answer of its own request: the flag that it polls is not
\* that of an earlier one (clocking.cpp:158-177).
THEOREM AnswersAreOwn ==
  ASSUME NEW CONSTANT t, Tools = {t}, Delay <= 2
  PROVE  Spec => []AnswersMatch
<1>1. SoloInv(t) => AnswersMatch
  BY DEF SoloInv, AnswersMatch, AccessInv
<1> QED
  BY <1>1, SoloInit, SoloStep, InitTypes, TypeStep, PTL DEF Spec

\* Then the clock always runs with one whole setting, and while updates are enabled
\* the registers hold it (clocking.cpp:228-252).
THEOREM SettingsAreWhole ==
  ASSUME NEW CONSTANT t, Tools = {t}, Delay <= 2
  PROVE  Spec => []SettingIsWhole
<1>1. TypeInv /\ SoloInv(t) => SettingIsWhole
  <2> SUFFICES ASSUME TypeInv, BoardInv(t) PROVE SettingIsWhole
    BY DEF SoloInv, SettingIsWhole
  <2>1. /\ IsLoaded
        /\ regs["update_enable"] = 1 => loaded = [r \in SettingRegs |-> regs[r]]
    BY OneSetting
  <2>2. IsLoaded => loaded \in {Setting(PowerUp)} \cup {Setting(Params[r]) : r \in Rates}
    BY DEF IsLoaded, Settings
  <2> QED
    BY <2>1, <2>2 DEF SettingIsWhole
<1> QED
  BY <1>1, SoloInit, SoloStep, InitTypes, TypeStep, PTL DEF Spec

\* And then the rate printed after a successful clock command is made of the dividers
\* that SetRate has chosen, if they fit their registers (bluenoc.c:336-342,
\* clocking.cpp:255-278).
THEOREM ShownIsSet ==
  ASSUME NEW CONSTANT t, Tools = {t}, Delay <= 2
  PROVE  Spec => []ShowsWhatWasSet
<1>1. SoloInv(t) => ShowsWhatWasSet
  BY DEF SoloInv, ShowsWhatWasSet, ShownInv
<1> QED
  BY <1>1, SoloInit, SoloStep, InitTypes, TypeStep, PTL DEF Spec
=============================================================================
