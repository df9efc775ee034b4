----------------------------- MODULE ClockRates -----------------------------
(***************************************************************************)
(* The arithmetic of the clock generator (clocking.cpp, clocking.h): how a *)
(* rate becomes the three dividers of the clock manager, and how a divider *)
(* is packed into a register and read back from it.                        *)
(*                                                                         *)
(* Frequencies are in kHz, as calc_params makes them with its first two    *)
(* assignments.  Both are positive and below 2^31, the range in which the  *)
(* initial best frequency 16r7FFFFFFF does not wrap.                       *)
(***************************************************************************)
EXTENDS Integers

\* The limits of the clock manager, in kHz.
fpfd_min == 10000
fpfd_max == 300000
fvco_min == 600000
fvco_max == 1200000

\* The macros of clocking.h.
Lesser(x, y)  == IF x < y THEN x ELSE y
Greater(x, y) == IF x > y THEN x ELSE y
DivRoundUp(x, y) == (x + y - 1) \div y
DivRoundClosest(x, y) == (2 * x + y) \div (2 * y)
Clamp(val, low, high) == Greater(low, Lesser(val, high))

\* Dividers: the input divider, the feedback multiplier, the output divider.
NoDividers == [d |-> 0, m |-> 0, dout |-> 0]

DMin(fin) == Greater(DivRoundUp(fin, fpfd_max), 1)
DMax(fin) == Lesser(fin \div fpfd_min, 80)

\* The bounds of the two loops of calc_params.
MMin(fin) == Greater(DivRoundUp(fvco_min, fin) * DMin(fin), 1)
MMax(fin) == Lesser((fvco_max * DMax(fin)) \div fin, 64)

\* Mutant of DFirst: the quotient is rounded down.
DFirstRoundedDown(fin, m) == Greater(DMin(fin), (fin * m) \div fvco_max)

DFirst(fin, m) == Greater(DMin(fin), DivRoundUp(fin * m, fvco_max))
DLast(fin, m) == Lesser(DMax(fin), (fin * m) \div fvco_min)

Fvco(fin, c) == (fin * c.m) \div c.d
Output(fin, c) == Fvco(fin, c) \div c.dout

Choices(fin, fout) ==
  UNION {{[d |-> d, m |-> m,
           dout |-> Clamp(DivRoundClosest((fin * m) \div d, fout), 1, 128)]
            : d \in DFirst(fin, m) .. DLast(fin, m)}
            : m \in MMin(fin) .. MMax(fin)}

\* Mutant of Nearer: the target is forgotten.
NearerToZero(f, g, fout) == f < g

\* The comparison ABS(f - fout) < ABS(best_f - fout).  The difference is
\* unsigned, so that ABS changes nothing and a frequency below the target
\* wraps to a distance greater than that of every frequency above it.
Nearer(f, g, fout) ==
  IF (f >= fout) <=> (g >= fout) THEN f < g ELSE f >= fout

\* The order in which the loops reach the choices.
Earlier(a, b) == a.m < b.m \/ (a.m = b.m /\ a.d < b.d)

\* calc_params: a strictly nearer choice replaces the best one, which begins
\* with no dividers and frequency 16r7FFFFFFF; so the result is the earliest of
\* the nearest.  The early return on an exact match changes nothing, for no
\* later choice is strictly nearer.
CalcParams(fin, fout) ==
  LET C == {c \in Choices(fin, fout) :
              Nearer(Output(fin, c), 2147483647, fout)}
      Beats(a, b) == \/ Nearer(Output(fin, a), Output(fin, b), fout)
                     \/ Output(fin, a) = Output(fin, b) /\ Earlier(a, b)
  IN  IF C = {} THEN NoDividers
                ELSE CHOOSE c \in C : \A e \in C : ~Beats(e, c)

\* calc_clk_params: the two counters of a divider, and its two flags.
CalcClkParams(divider) ==
  [nocount |-> IF divider = 1 THEN 1 ELSE 0,
   high    |-> divider \div 2,
   edge    |-> divider % 2,
   low     |-> divider - divider \div 2]

\* (high << 6) | low.  A low count of 64 does not fit its six bits and is
\* or-ed into the lowest bit of the high count.
PackCounts(p) ==
  IF p.low < 64 THEN 64 * p.high + p.low
                ELSE 64 * (p.high + 1 - (p.high % 2))

\* The divider that GetRate takes from a register.
DividerOf(reg) == (reg % 64) + ((reg \div 64) % 64)

=============================================================================
