-------------------------- MODULE BnocBoardsProofs --------------------------
(***************************************************************************)
(* Proofs about the life of the boards, for every set of devices, every    *)
(* number of files and of board numbers, when the driver is used one call  *)
(* at a time and no device goes away while a file of it is open.           *)
(***************************************************************************)
EXTENDS BnocBoards, FiniteSetTheorems, SequenceTheorems, TLAPS

\* The use of the driver in which it is correct.
GoodHands == OneAtATime /\ ~UnplugWhileOpen /\ IsFiniteSet(Files)

(***************************************************************************)
(* The inductive invariant.                                                *)
(***************************************************************************)
Busy(a) == op[a] # Idle

\* At most one call is under way.
OneInv == \A a, c \in Actors : Busy(a) /\ Busy(c) => a = c

\* What a call on a board that has come to o has made of its level and hardware.
Rung(o, l, h, m) ==
  /\ o.task # "idle"
  /\ o.task \in {"scan", "assign"} => l = PROBED /\ h = {}
  /\ o.task = "activate" => l # PROBED /\ o.at = l /\ h = HeldAt(l, m)
  /\ o.task = "deactivate" =>
       /\ o.at <= l
       /\ o.at <= BOARD_NUM_ASSIGNED => l = o.at
       /\ h = HeldAt(o.at, m)
  /\ o.task = "resetting" => l = BLUENOC_ACTIVE /\ h = HeldAt(PCI_BUS_MASTER, m)

\* And between calls.
Rest(l, h, m) == l \in {BOARD_NUM_ASSIGNED, BLUENOC_ACTIVE} /\ h = HeldAt(l, m)

BoardAt(a) == Rung(op[a], level[BoardOf(a)], hw[BoardOf(a)], msix[BoardOf(a)])

LadderInv ==
  /\ \A a \in Actors : Busy(a) => BoardOf(a) \in alive /\ BoardAt(a)
  /\ \A d \in alive : (\A a \in Actors : Busy(a) => BoardOf(a) # d)
                        => Rest(level[d], hw[d], msix[d])

\* A board has no device file while it is probed, and then it is first in the
\* list; files are open on no board that is being removed.
CallInv ==
  /\ \A d \in Devices : Busy(d) =>
       /\ op[d].call \in {"probe", "remove"}
       /\ op[d].call = "probe" <=> d \notin cdevs
       /\ op[d].call = "remove" =>
            op[d].task = "deactivate" /\ \A f \in Files : file[f].board # d
       /\ op[d].task # "resetting"
  /\ \A f \in Files : Busy(f) => op[f].task \notin {"scan", "assign"}
  /\ \A d \in alive \ cdevs : Busy(d) /\ list # <<>> /\ list[1] = d

\* A number to be assigned is free; a board that has one keeps it from others.
NumberInv ==
  /\ \A a \in Actors : op[a].task = "assign" =>
       op[a].pick \in 1..NumBoards /\ \A e \in alive : number[e] # op[a].pick
  /\ \A d \in alive : number[d] = UNASSIGNED <=> level[d] = PROBED
  /\ \A d \in cdevs : level[d] # PROBED
  /\ \A d, e \in alive : number[d] = number[e] /\ number[d] # UNASSIGNED => d = e

OpenFiles(n) == {f \in Files : file[f].board # None /\ file[f].minor = n}

FileInv ==
  /\ \A f \in Files :
       file[f].board # None => file[f].board \in cdevs /\ number[file[f].board] = file[f].minor
  /\ \A n \in 1..NumBoards : open_count[n] = Cardinality(OpenFiles(n))

ModuleInv ==
  /\ alive # {} => class # "none" /\ module \in {"in", "exiting"}
  /\ module \in {"in", "exiting"} => region
  /\ nodes \subseteq cdevs
  /\ nodes # {} => class = "made"

Inv ==
  /\ TypeOK
  /\ OneInv
  /\ LadderInv
  /\ CallInv
  /\ ListIsAlive
  /\ NumberInv
  /\ FileInv
  /\ ModuleInv
  /\ misuse \subseteq {"down", "no_class"}
-----------------------------------------------------------------------------
(***************************************************************************)
(* What a board holds.                                                     *)
(***************************************************************************)
LEMMA LevelValues ==
  /\ Levels = 0..11 /\ UNASSIGNED = 0 /\ PROBED = 0 /\ BOARD_NUM_ASSIGNED = 1
  /\ PCI_DEV_ENABLED = 2 /\ BARS_ALLOCATED = 3 /\ BARS_MAPPED = 4 /\ MAGIC_MATCH = 5
  /\ DMA_MASK_SET = 6 /\ MSI_ENABLED = 7 /\ IRQ_ASSIGNED = 8 /\ MSIX_INITIALIZED = 9
  /\ PCI_BUS_MASTER = 10 /\ BLUENOC_ACTIVE = 11
  BY DEF Levels, UNASSIGNED, PROBED, BOARD_NUM_ASSIGNED, PCI_DEV_ENABLED, BARS_ALLOCATED,
     BARS_MAPPED, MAGIC_MATCH, DMA_MASK_SET, MSI_ENABLED, IRQ_ASSIGNED, MSIX_INITIALIZED,
     PCI_BUS_MASTER, BLUENOC_ACTIVE

\* Each case of activate adds what it takes.
LEMMA HeldUp ==
  ASSUME NEW l \in 0..10, NEW m
  PROVE  HeldAt(l + 1, m) = HeldAt(l, m) \cup Acquires(l, m)
<1> DEFINE T(n) == UNION {Acquires(k, m) : k \in 0..(n - 1)}
<1>1. 0..((l + 1) - 1) = (0..(l - 1)) \cup {l}
  OBVIOUS
<1>2. T(l + 1) = T(l) \cup Acquires(l, m)
  <2> HIDE DEF Acquires
  <2> QED
    BY <1>1
<1> QED
  BY <1>2 DEF HeldAt

\* Nothing is held at the two lowest levels.
LEMMA HeldBelow ==
  ASSUME NEW m
  PROVE  HeldAt(0, m) = {} /\ HeldAt(1, m) = {}
<1>1. 0..(0 - 1) = {} /\ 0..(1 - 1) = {0}
  OBVIOUS
<1>2. Acquires(0, m) = {}
  BY LevelValues DEF Acquires
<1> QED
  BY <1>1, <1>2 DEF HeldAt

\* All the levels, one after the other.
LEMMA HeldTable ==
  ASSUME NEW m \in BOOLEAN
  PROVE  /\ HeldAt(0, m) = {} /\ HeldAt(1, m) = {}
         /\ HeldAt(2, m) = {"device"}
         /\ HeldAt(3, m) = {"device", "region"}
         /\ HeldAt(4, m) = {"device", "region", "mapping"}
         /\ HeldAt(5, m) = HeldAt(4, m)
         /\ HeldAt(6, m) = HeldAt(4, m)
         /\ HeldAt(7, m) = {"device", "region", "mapping", "msi"}
         /\ HeldAt(8, m) = {"device", "region", "mapping", "msi", "irq"}
         /\ HeldAt(9, m) = HeldAt(8, m) \cup (IF m THEN {"unmasked"} ELSE {})
         /\ HeldAt(10, m) = HeldAt(9, m) \cup {"master"}
         /\ HeldAt(11, m) = HeldAt(10, m) \cup {"network"}
<1>1. /\ Acquires(1, m) = {"device"} /\ Acquires(2, m) = {"region"}
      /\ Acquires(3, m) = {"mapping"} /\ Acquires(4, m) = {} /\ Acquires(5, m) = {}
      /\ Acquires(6, m) = {"msi"} /\ Acquires(7, m) = {"irq"}
      /\ Acquires(8, m) = (IF m THEN {"unmasked"} ELSE {})
      /\ Acquires(9, m) = {"master"} /\ Acquires(10, m) = {"network"}
  BY LevelValues DEF Acquires
<1> HIDE DEF Acquires
<1>2. \A l \in 0..10 : HeldAt(l + 1, m) = HeldAt(l, m) \cup Acquires(l, m)
  BY HeldUp
<1>3. /\ HeldAt(2, m) = HeldAt(1, m) \cup Acquires(1, m)
      /\ HeldAt(3, m) = HeldAt(2, m) \cup Acquires(2, m)
      /\ HeldAt(4, m) = HeldAt(3, m) \cup Acquires(3, m)
      /\ HeldAt(5, m) = HeldAt(4, m) \cup Acquires(4, m)
      /\ HeldAt(6, m) = HeldAt(5, m) \cup Acquires(5, m)
  BY <1>2, SMT
<1>4. /\ HeldAt(7, m) = HeldAt(6, m) \cup Acquires(6, m)
      /\ HeldAt(8, m) = HeldAt(7, m) \cup Acquires(7, m)
      /\ HeldAt(9, m) = HeldAt(8, m) \cup Acquires(8, m)
      /\ HeldAt(10, m) = HeldAt(9, m) \cup Acquires(9, m)
      /\ HeldAt(11, m) = HeldAt(10, m) \cup Acquires(10, m)
  BY <1>2, SMT
<1>5. HeldAt(2, m) = {"device"} /\ HeldAt(3, m) = {"device", "region"}
  BY <1>1, <1>3, HeldBelow
<1>6. /\ HeldAt(4, m) = {"device", "region", "mapping"}
      /\ HeldAt(5, m) = HeldAt(4, m) /\ HeldAt(6, m) = HeldAt(4, m)
  BY <1>1, <1>3, <1>5
<1>7. /\ HeldAt(7, m) = {"device", "region", "mapping", "msi"}
      /\ HeldAt(8, m) = {"device", "region", "mapping", "msi", "irq"}
  BY <1>1, <1>4, <1>6
<1> QED
  BY <1>1, <1>4, <1>5, <1>6, <1>7, HeldBelow

\* Each case of deactivate takes that away again, and it was held.
LEMMA HeldDown ==
  ASSUME NEW l \in 2..11, NEW m \in BOOLEAN
  PROVE  /\ HeldAt(l - 1, m) = HeldAt(l, m) \ GivesBack(l, m)
         /\ GivesBack(l, m) \cap Counted \subseteq HeldAt(l, m)
<1>1. /\ GivesBack(2, m) = {"device"} /\ GivesBack(3, m) = {"region"}
      /\ GivesBack(4, m) = {"mapping"} /\ GivesBack(5, m) = {} /\ GivesBack(6, m) = {}
      /\ GivesBack(7, m) = {"msi"} /\ GivesBack(8, m) = {"irq"}
      /\ GivesBack(9, m) = (IF m THEN {"unmasked"} ELSE {})
      /\ GivesBack(10, m) = {"master"} /\ GivesBack(11, m) = {"network"}
  BY LevelValues DEF GivesBack
<1>2. CASE l \in 2..4
  <2>1. l = 2 \/ l = 3 \/ l = 4
    BY <1>2
  <2>2. l - 1 = 1 \/ l - 1 = 2 \/ l - 1 = 3
    BY <2>1
  <2> QED
    BY <1>1, <2>1, HeldTable DEF Counted
<1>3. CASE l \in 5..8
  <2>1. l = 5 \/ l = 6 \/ l = 7 \/ l = 8
    BY <1>3
  <2> QED
    BY <1>1, <2>1, HeldTable DEF Counted
<1>4. CASE l \in 9..11
  <2>1. l = 9 \/ l = 10 \/ l = 11
    BY <1>4
  <2> QED
    BY <1>1, <2>1, HeldTable DEF Counted
<1> QED
  BY <1>2, <1>3, <1>4

\* Where the registers are accessed they are mapped.
LEMMA Mapped ==
  ASSUME NEW l \in 4..11, NEW m \in BOOLEAN
  PROVE  "mapping" \in HeldAt(l, m)
<1>1. l = 4 \/ l = 5 \/ l = 6 \/ l = 7 \/ l = 8 \/ l = 9 \/ l = 10 \/ l = 11
  OBVIOUS
<1> QED
  BY <1>1, HeldTable

\* The choice between MSI and MSI-X makes no difference before it is made.
LEMMA MsixLater ==
  ASSUME NEW l \in 0..8, NEW m \in BOOLEAN, NEW n \in BOOLEAN
  PROVE  HeldAt(l, m) = HeldAt(l, n)
<1>1. \A k \in 0..(l - 1) : Acquires(k, m) = Acquires(k, n)
  <2>1. \A k \in 0..(l - 1) : k # 8
    OBVIOUS
  <2> QED
    BY <2>1, LevelValues DEF Acquires
<1> HIDE DEF Acquires
<1> DEFINE T(x) == {Acquires(k, x) : k \in 0..(l - 1)}
<1>2. T(m) = T(n)
  BY <1>1
<1> QED
  BY <1>2 DEF HeldAt
-----------------------------------------------------------------------------
(***************************************************************************)
(* A call that goes on, and touches no board but its own.                  *)
(***************************************************************************)

\* The actors and their boards.
LEMMA ActorFacts ==
  ASSUME TypeOK
  PROVE  /\ Devices \cap Files = {} /\ None \notin Devices /\ Actors = Devices \cup Files
         /\ NumBoards \in Nat \ {0}
         /\ op \in [Actors -> Op]
         /\ \A d \in Devices : BoardOf(d) = d
         /\ \A f \in Files : BoardOf(f) = file[f].board
         /\ Idle \in Op /\ Idle.task = "idle" /\ Idle.call = "none"
  BY BoardsAssumption, LevelValues DEF TypeOK, Actors, BoardOf, Idle, Op

\* A list of the boards that are allocated: looking through it is looking
\* through them.
LEMMA ListedAlive == Inv => Listed = alive
<1> SUFFICES ASSUME Inv PROVE Listed = alive
  OBVIOUS
<1>1. list \in Seq(Devices) /\ alive \subseteq Devices
  BY DEF Inv, TypeOK
<1>2. \A d \in Devices : (\E i \in DOMAIN list : list[i] = d) <=> d \in alive
  BY DEF Inv, ListIsAlive, InList
<1>3. \A i \in DOMAIN list : list[i] \in Devices
  BY <1>1
<1> QED
  BY <1>1, <1>2, <1>3 DEF Listed

\* Who else is there when a call is under way, or may begin.
LEMMA NobodyElse ==
  ASSUME Inv, NEW a \in Actors, Busy(a) \/ (GoodHands /\ MayCall(a))
  PROVE  \A c \in Actors : Busy(c) => c = a
  BY DEF Inv, OneInv, Busy, GoodHands, MayCall, Quiet

\* A step of the call of a on its own board b: it brings the call to o and the
\* board to level l, number n, MSI-X m and hardware h, and leaves the rest.
OwnMove(a, b, o, l, n, m, h) ==
  /\ b \in alive /\ b = BoardOf(a) /\ \A c \in Actors : Busy(c) => c = a
  /\ o \in Op /\ op' = [op EXCEPT ![a] = o]
  /\ l \in Levels /\ level' = [level EXCEPT ![b] = l]
  /\ n \in 0..NumBoards /\ number' = [number EXCEPT ![b] = n]
  /\ m \in BOOLEAN /\ msix' = [msix EXCEPT ![b] = m]
  /\ h \in SUBSET Hardware /\ hw' = [hw EXCEPT ![b] = h]
  /\ UNCHANGED <<moduleVars, class, list, alive, cdevs, nodes, open_count, file>>
  /\ misuse' \subseteq {"down", "no_class"}

\* What makes such a step keep the invariant.
MoveFits(a, b, o, l, n, m, h) ==
  /\ IF o = Idle THEN Rest(l, h, m) /\ b \in cdevs ELSE Rung(o, l, h, m)
  /\ o # Idle /\ a \in Devices =>
       /\ o.call \in {"probe", "remove"} /\ o.task # "resetting"
       /\ o.call = "probe" <=> a \notin cdevs
       /\ o.call = "remove" => o.task = "deactivate" /\ \A f \in Files : file[f].board # a
  /\ o # Idle /\ a \in Files => o.task \notin {"scan", "assign"}
  /\ o.task = "assign" =>
       o.pick \in 1..NumBoards /\ n = number[b] /\ \A e \in alive : number[e] # o.pick
  /\ n = UNASSIGNED <=> l = PROBED
  /\ b \in cdevs => n = number[b] /\ l # PROBED
  /\ n = UNASSIGNED \/ \A e \in alive \ {b} : number[e] # n

\* A step of a call on its own board keeps the invariant.
LEMMA OwnStep ==
  ASSUME Inv, NEW a \in Actors, NEW b, NEW o, NEW l, NEW n, NEW m, NEW h,
         OwnMove(a, b, o, l, n, m, h), MoveFits(a, b, o, l, n, m, h)
  PROVE  Inv'
<1> USE DEF OwnMove, MoveFits
<1>0. TypeOK
  BY DEF Inv
<1>a. /\ op \in [Actors -> Op] /\ level \in [Devices -> Levels] /\ number \in [Devices -> 0..NumBoards]
      /\ msix \in [Devices -> BOOLEAN] /\ hw \in [Devices -> SUBSET Hardware]
      /\ alive \subseteq Devices /\ cdevs \subseteq Devices /\ b \in Devices
  BY <1>0 DEF TypeOK
<1>b. /\ op'[a] = o /\ \A c \in Actors \ {a} : op'[c] = op[c] /\ op[c] = Idle
      /\ level'[b] = l /\ number'[b] = n /\ msix'[b] = m /\ hw'[b] = h
      /\ \A d \in Devices \ {b} : level'[d] = level[d] /\ number'[d] = number[d]
                                  /\ msix'[d] = msix[d] /\ hw'[d] = hw[d]
  BY <1>a DEF Busy
<1>c. \A c \in Actors : BoardOf(c)' = BoardOf(c)
  BY DEF BoardOf
<1>d. \A c \in Actors \ {a} : ~Busy(c)'
  BY <1>b DEF Busy
<1>e. Busy(a)' <=> o # Idle
  BY <1>b DEF Busy
<1>1. TypeOK'
  <2>1. /\ op' \in [Actors -> Op] /\ level' \in [Devices -> Levels]
        /\ number' \in [Devices -> 0..NumBoards] /\ msix' \in [Devices -> BOOLEAN]
        /\ hw' \in [Devices -> SUBSET Hardware]
    BY <1>a
  <2> QED
    BY <1>0, <2>1 DEF TypeOK, moduleVars
<1>2. OneInv'
  BY <1>d DEF OneInv
<1>3. LadderInv'
  <2>1. ASSUME NEW c \in Actors, Busy(c)' PROVE BoardOf(c)' \in alive' /\ BoardAt(c)'
    <3>1. c = a /\ o # Idle
      BY <1>d, <1>e, <2>1
    <3> QED
      BY <1>b, <1>c, <3>1 DEF BoardAt
  <2>2. ASSUME NEW d \in alive', \A c \in Actors : Busy(c)' => BoardOf(c)' # d
        PROVE  Rest(level'[d], hw'[d], msix'[d])
    <3>1. CASE d = b
      BY <1>b, <1>c, <1>e, <2>2, <3>1
    <3>2. CASE d # b
      <4>1. \A c \in Actors : Busy(c) => BoardOf(c) # d
        BY <3>2
      <4>2. Rest(level[d], hw[d], msix[d])
        BY <2>2, <4>1 DEF Inv, LadderInv
      <4> QED
        BY <1>a, <1>b, <2>2, <3>2, <4>2
    <3> QED
      BY <3>1, <3>2
  <2> QED
    BY <2>1, <2>2 DEF LadderInv
<1>4. CallInv'
  <2>1. CallInv
    BY DEF Inv
  <2>2. ASSUME NEW d \in Devices, Busy(d)'
        PROVE  /\ op'[d].call \in {"probe", "remove"}
               /\ op'[d].call = "probe" <=> d \notin cdevs
               /\ op'[d].call = "remove" =>
                    op'[d].task = "deactivate" /\ \A f \in Files : file[f].board # d
               /\ op'[d].task # "resetting"
    <3>1. d = a /\ o # Idle
      BY <1>d, <1>e, <2>2 DEF Actors
    <3> QED
      BY <1>b, <2>1, <3>1 DEF CallInv
  <2>3. ASSUME NEW f \in Files, Busy(f)' PROVE op'[f].task \notin {"scan", "assign"}
    <3>1. f = a /\ o # Idle
      BY <1>d, <1>e, <2>3 DEF Actors
    <3> QED
      BY <1>b, <3>1
  <2>4. ASSUME NEW d \in alive \ cdevs PROVE Busy(d)' /\ list # <<>> /\ list[1] = d
    <3>1. Busy(d) /\ list # <<>> /\ list[1] = d
      BY <2>1, <2>4 DEF CallInv
    <3>2. d = a /\ a \in Devices
      BY <1>a, <2>4, <3>1 DEF Actors
    <3>3. b = d
      BY <3>2 DEF BoardOf
    <3> QED
      BY <1>e, <2>4, <3>1, <3>2, <3>3
  <2> QED
    BY <2>2, <2>3, <2>4 DEF CallInv
<1>5. ListIsAlive'
  <2>1. ListIsAlive
    BY DEF Inv
  <2> QED
    BY <1>a, <1>b, <2>1 DEF ListIsAlive, InList
<1>6. NumberInv'
  <2>1. NumberInv
    BY DEF Inv
  <2>2. ASSUME NEW c \in Actors, op'[c].task = "assign"
        PROVE  op'[c].pick \in 1..NumBoards /\ \A e \in alive : number'[e] # op'[c].pick
    <3>1. c = a
      BY <1>0, <1>b, <2>2, ActorFacts
    <3> QED
      BY <1>b, <2>2, <3>1
  <2>3. \A d \in alive : number'[d] = UNASSIGNED <=> level'[d] = PROBED
    BY <1>a, <1>b, <2>1 DEF NumberInv
  <2>4. \A d \in cdevs : level'[d] # PROBED
    BY <1>a, <1>b, <2>1 DEF NumberInv
  <2>5. ASSUME NEW d \in alive, NEW e \in alive, number'[d] = number'[e], number'[d] # UNASSIGNED
        PROVE  d = e
    BY <1>a, <1>b, <2>1, <2>5 DEF NumberInv
  <2> QED
    BY <2>2, <2>3, <2>4, <2>5 DEF NumberInv
<1>7. FileInv'
  <2>1. FileInv
    BY DEF Inv
  <2>2. \A d \in cdevs : number'[d] = number[d]
    BY <1>a, <1>b
  <2> QED
    BY <2>1, <2>2 DEF FileInv, OpenFiles
<1>8. ModuleInv'
  BY DEF Inv, ModuleInv, moduleVars
<1> QED
  BY <1>1, <1>2, <1>3, <1>4, <1>5, <1>6, <1>7, <1>8 DEF Inv

\* What is known of a call under way.
LEMMA CallFacts ==
  ASSUME Inv, NEW a \in Actors, op[a].task # "idle"
  PROVE  /\ Busy(a) /\ (\A c \in Actors : Busy(c) => c = a)
         /\ op[a] \in Op /\ op \in [Actors -> Op]
         /\ BoardOf(a) \in alive /\ BoardOf(a) \in Devices /\ BoardAt(a)
         /\ a \in Devices => BoardOf(a) = a
         /\ a \in Files => BoardOf(a) = file[a].board
<1>1. TypeOK
  BY DEF Inv
<1>2. Busy(a)
  BY <1>1, ActorFacts DEF Busy
<1>3. \A c \in Actors : Busy(c) => c = a
  BY <1>2, NobodyElse
<1>4. BoardOf(a) \in alive /\ BoardAt(a)
  BY <1>2 DEF Inv, LadderInv
<1>5. alive \subseteq Devices
  BY <1>1 DEF TypeOK
<1> QED
  BY <1>1, <1>2, <1>3, <1>4, <1>5, ActorFacts

\* What is known of an allocated board.
LEMMA BoardFacts ==
  ASSUME Inv, NEW b \in alive
  PROVE  /\ b \in Devices /\ level[b] \in Levels /\ number[b] \in 0..NumBoards
         /\ msix[b] \in BOOLEAN /\ hw[b] \in SUBSET Hardware
         /\ level = [level EXCEPT ![b] = level[b]] /\ number = [number EXCEPT ![b] = number[b]]
         /\ msix = [msix EXCEPT ![b] = msix[b]] /\ hw = [hw EXCEPT ![b] = hw[b]]
         /\ number[b] = UNASSIGNED <=> level[b] = PROBED
         /\ b \in cdevs => level[b] # PROBED
         /\ number[b] = UNASSIGNED \/ \A e \in alive \ {b} : number[e] # number[b]
<1>1. TypeOK /\ NumberInv
  BY DEF Inv
<1>2. /\ level \in [Devices -> Levels] /\ number \in [Devices -> 0..NumBoards]
      /\ msix \in [Devices -> BOOLEAN] /\ hw \in [Devices -> SUBSET Hardware] /\ b \in Devices
  BY <1>1 DEF TypeOK
<1> QED
  BY <1>1, <1>2 DEF NumberInv

\* A step of a call under way that goes on, and leaves the number of its board.
GoesOn(a, b, o, l, m, h) ==
  /\ op[a].task # "idle" /\ b = BoardOf(a)
  /\ o \in Op /\ op' = [op EXCEPT ![a] = o] /\ o.call = op[a].call
  /\ l \in Levels /\ level' = [level EXCEPT ![b] = l]
  /\ m \in BOOLEAN /\ msix' = [msix EXCEPT ![b] = m]
  /\ h \in SUBSET Hardware /\ hw' = [hw EXCEPT ![b] = h]
  /\ UNCHANGED <<moduleVars, class, list, alive, number, cdevs, nodes, open_count, file>>
  /\ misuse' \subseteq {"down", "no_class"}
  /\ Rung(o, l, h, m)
  /\ l = PROBED <=> level[b] = PROBED
  /\ o.task \in {"deactivate", "assign"} \/ (o.task = "activate" /\ op[a].task = "activate")
  /\ o.task = "assign" =>
       /\ op[a].task = "scan"
       /\ o.pick \in 1..NumBoards /\ \A e \in alive : number[e] # o.pick

\* So does a step of a call that goes on.
LEMMA GoOn ==
  ASSUME Inv, NEW a \in Actors, NEW b, NEW o, NEW l, NEW m, NEW h, GoesOn(a, b, o, l, m, h)
  PROVE  Inv'
<1>0. op[a].task # "idle" /\ b = BoardOf(a)
  BY DEF GoesOn
<1>1. /\ Busy(a) /\ (\A c \in Actors : Busy(c) => c = a)
      /\ b \in alive /\ (a \in Devices => b = a)
  BY <1>0, CallFacts
<1>2. /\ number = [number EXCEPT ![b] = number[b]] /\ number[b] \in 0..NumBoards
      /\ number[b] = UNASSIGNED <=> level[b] = PROBED
      /\ b \in cdevs => level[b] # PROBED
      /\ number[b] = UNASSIGNED \/ \A e \in alive \ {b} : number[e] # number[b]
  BY <1>1, BoardFacts
<1>3. o # Idle
  BY DEF Rung, Idle, GoesOn
<1>4. CallInv
  BY DEF Inv
<1>5. a \in Devices =>
            /\ o.call \in {"probe", "remove"} /\ o.task # "resetting"
            /\ o.call = "probe" <=> a \notin cdevs
            /\ o.call = "remove" => o.task = "deactivate" /\ \A f \in Files : file[f].board # a
  BY <1>1, <1>4 DEF CallInv, GoesOn
<1>6. a \in Files => o.task \notin {"scan", "assign"}
  BY <1>1, <1>4 DEF CallInv, GoesOn
<1>7. number' = [number EXCEPT ![b] = number[b]]
  BY <1>2 DEF GoesOn
<1>8. OwnMove(a, b, o, l, number[b], m, h)
  BY <1>0, <1>1, <1>2, <1>7 DEF GoesOn, OwnMove
<1>9. MoveFits(a, b, o, l, number[b], m, h)
  BY <1>2, <1>3, <1>5, <1>6 DEF GoesOn, MoveFits
<1> QED
  BY <1>8, <1>9, OwnStep

\* The number found is one that no board has; with none, the board is left.
LEMMA ScanStep == ASSUME Inv, NEW a \in Actors, ScanNumbers(a) PROVE Inv'
<1> DEFINE b == BoardOf(a)
<1>1. op[a].task = "scan" /\ UNCHANGED <<moduleVars, class, list, alive, boardVars, cdevs, nodes, open_count, file>>
  BY DEF ScanNumbers
<1>2. /\ op[a] \in Op /\ op \in [Actors -> Op] /\ b \in alive /\ BoardAt(a)
  BY <1>1, CallFacts
<1>3. /\ level[b] \in Levels /\ msix[b] \in BOOLEAN /\ hw[b] \in SUBSET Hardware
      /\ level = [level EXCEPT ![b] = level[b]]
      /\ msix = [msix EXCEPT ![b] = msix[b]] /\ hw = [hw EXCEPT ![b] = hw[b]]
  BY <1>2, BoardFacts
<1>4. misuse' \subseteq {"down", "no_class"}
  BY <1>2, ListedAlive DEF ScanNumbers, Touch, Blame, Inv
<1>5. level[b] = PROBED /\ hw[b] = {}
  BY <1>1, <1>2 DEF BoardAt, Rung
<1>6. NumBoards \in Nat
  BY BoardsAssumption
<1>7. PICK n \in 1..(NumBoards + 1) :
        /\ FirstFree(n)
        /\ IF NoneFree(n)
           THEN op' = [op EXCEPT ![a].task = "deactivate", ![a].at = level[b]]
           ELSE op' = [op EXCEPT ![a].task = "assign", ![a].pick = n]
  BY DEF ScanNumbers
<1>8. CASE NoneFree(n)
  <2> DEFINE o == [op[a] EXCEPT !.task = "deactivate", !.at = level[b]]
  <2>1. op' = [op EXCEPT ![a] = o]
    BY <1>2, <1>7, <1>8
  <2>2. o \in Op /\ o.call = op[a].call /\ o.task = "deactivate" /\ o.at = PROBED
    BY <1>2, <1>3, <1>5 DEF Op
  <2>3. Rung(o, level[b], hw[b], msix[b])
    BY <1>3, <1>5, <2>2, HeldTable, LevelValues DEF Rung
  <2>4. GoesOn(a, b, o, level[b], msix[b], hw[b])
    <3> HIDE DEF o
    <3> QED
      BY <1>1, <1>3, <1>4, <2>1, <2>2, <2>3 DEF boardVars, GoesOn
  <2> QED
    BY <2>4, GoOn
<1>9. CASE ~NoneFree(n)
  <2> DEFINE o == [op[a] EXCEPT !.task = "assign", !.pick = n]
  <2>1. op' = [op EXCEPT ![a] = o]
    BY <1>2, <1>7, <1>9
  <2>2. n \in 1..NumBoards
    BY <1>6, <1>9 DEF NoneFree
  <2>3. o \in Op /\ o.call = op[a].call /\ o.task = "assign" /\ o.pick = n
    <3>1. n \in 0..NumBoards
      BY <1>6, <2>2
    <3> QED
      BY <1>2, <3>1 DEF Op
  <2>4. \A e \in alive : number[e] # n
    <3>1. \A i \in DOMAIN list : number[list[i]] # n
      BY <1>6, <1>7, <2>2 DEF FirstFree, Collision
    <3>2. \A e \in alive : \E i \in DOMAIN list : list[i] = e
      BY DEF Inv, TypeOK, ListIsAlive, InList
    <3> QED
      BY <3>1, <3>2
  <2>5. Rung(o, level[b], hw[b], msix[b])
    BY <1>5, <2>3 DEF Rung
  <2>6. GoesOn(a, b, o, level[b], msix[b], hw[b])
    <3> HIDE DEF o
    <3> QED
      BY <1>1, <1>3, <1>4, <2>1, <2>2, <2>3, <2>4, <2>5 DEF boardVars, GoesOn
  <2> QED
    BY <2>6, GoOn
<1> QED
  BY <1>8, <1>9

\* The number is assigned.
LEMMA AssignStep == ASSUME Inv, NEW a \in Actors, AssignNumber(a) PROVE Inv'
<1> DEFINE b == BoardOf(a)
           n == op[a].pick
           o == [op[a] EXCEPT !.task = "activate", !.at = BOARD_NUM_ASSIGNED, !.pick = 0]
<1>1. /\ op[a].task = "assign"
      /\ UNCHANGED <<moduleVars, class, list, alive, msix, hw, cdevs, nodes, open_count, file>>
      /\ number' = [number EXCEPT ![b] = n]
      /\ level' = [level EXCEPT ![b] = BOARD_NUM_ASSIGNED]
  BY DEF AssignNumber
<1>2. /\ op[a] \in Op /\ op \in [Actors -> Op] /\ b \in alive /\ BoardAt(a)
      /\ Busy(a) /\ (\A c \in Actors : Busy(c) => c = a) /\ (a \in Devices => b = a)
  BY <1>1, CallFacts
<1>3. /\ level[b] \in Levels /\ msix[b] \in BOOLEAN /\ hw[b] \in SUBSET Hardware
      /\ msix = [msix EXCEPT ![b] = msix[b]] /\ hw = [hw EXCEPT ![b] = hw[b]]
      /\ b \in cdevs => level[b] # PROBED
  BY <1>2, BoardFacts
<1>4. misuse' \subseteq {"down", "no_class"}
  BY <1>2 DEF AssignNumber, Touch, Blame, Inv
<1>5. level[b] = PROBED /\ hw[b] = {}
  BY <1>1, <1>2 DEF BoardAt, Rung
<1>6. n \in 1..NumBoards /\ (\A e \in alive : number[e] # n) /\ NumBoards \in Nat
  BY <1>1, BoardsAssumption DEF Inv, NumberInv
<1>7. op' = [op EXCEPT ![a] = o]
  BY <1>2 DEF AssignNumber
<1>8. o \in Op /\ o.call = op[a].call /\ o.task = "activate" /\ o.at = BOARD_NUM_ASSIGNED
  <2>1. BOARD_NUM_ASSIGNED \in Levels /\ 0 \in 0..NumBoards
    BY <1>6, LevelValues
  <2> QED
    BY <1>2, <2>1 DEF Op
<1>9. Rung(o, BOARD_NUM_ASSIGNED, hw[b], msix[b]) /\ BOARD_NUM_ASSIGNED \in Levels
  <2>1. HeldAt(BOARD_NUM_ASSIGNED, msix[b]) = {} /\ BOARD_NUM_ASSIGNED # PROBED
    BY HeldBelow, LevelValues
  <2>2. BOARD_NUM_ASSIGNED \in Levels
    BY LevelValues
  <2> HIDE DEF o
  <2> QED
    BY <1>5, <1>8, <2>1, <2>2 DEF Rung
<1>10. o # Idle
  BY <1>8 DEF Idle
<1>11. CallInv
  BY DEF Inv
<1>12. a \in Devices =>
            /\ o.call \in {"probe", "remove"} /\ o.task # "resetting"
            /\ o.call = "probe" <=> a \notin cdevs
            /\ o.call = "remove" => o.task = "deactivate" /\ \A f \in Files : file[f].board # a
  BY <1>1, <1>2, <1>8, <1>11 DEF CallInv
<1>13. n \in 0..NumBoards /\ n # UNASSIGNED /\ BOARD_NUM_ASSIGNED # PROBED
  BY <1>6, LevelValues
<1>14. b \notin cdevs /\ \A e \in alive \ {b} : number[e] # n
  BY <1>3, <1>5, <1>6
<1>15. msix' = [msix EXCEPT ![b] = msix[b]] /\ hw' = [hw EXCEPT ![b] = hw[b]]
  BY <1>1, <1>3
<1>16. o.task # "assign" /\ o.task \notin {"scan", "assign"}
  BY <1>8
<1> HIDE DEF o
<1>17. OwnMove(a, b, o, BOARD_NUM_ASSIGNED, n, msix[b], hw[b])
  BY <1>1, <1>2, <1>3, <1>4, <1>7, <1>8, <1>9, <1>13, <1>15 DEF OwnMove
<1>18. MoveFits(a, b, o, BOARD_NUM_ASSIGNED, n, msix[b], hw[b])
  BY <1>9, <1>10, <1>12, <1>13, <1>14, <1>16 DEF MoveFits
<1> QED
  BY <1>17, <1>18, OwnStep

\* A case of activate that succeeds.
LEMMA ActivateStep == ASSUME Inv, NEW a \in Actors, ActivateCase(a) PROVE Inv'
<1> DEFINE b == BoardOf(a)
           l == op[a].at
           o == [op[a] EXCEPT !.at = l + 1]
<1>1. /\ op[a].task = "activate" /\ l \in BOARD_NUM_ASSIGNED..PCI_BUS_MASTER
      /\ UNCHANGED <<moduleVars, class, list, alive, number, cdevs, nodes, open_count, file>>
      /\ level' = [level EXCEPT ![b] = l + 1]
      /\ op' = [op EXCEPT ![a].at = l + 1]
  BY DEF ActivateCase
<1>2. /\ op[a] \in Op /\ op \in [Actors -> Op] /\ b \in alive /\ b \in Devices /\ BoardAt(a)
  BY <1>1, CallFacts
<1>3. /\ level[b] \in Levels /\ msix[b] \in BOOLEAN /\ hw[b] \in SUBSET Hardware
      /\ msix = [msix EXCEPT ![b] = msix[b]]
  BY <1>2, BoardFacts
<1>4. l \in 1..10 /\ l = level[b] /\ l # PROBED /\ hw[b] = HeldAt(l, msix[b])
  BY <1>1, <1>2, LevelValues DEF BoardAt, Rung
<1>5. misuse' \subseteq {"down", "no_class"}
  <2>1. l \in ActivateReads \/ MsixAccess(l, msix[b]) => l \in 4..11
    BY <1>4, LevelValues DEF ActivateReads, MsixAccess
  <2>2. l \in ActivateReads \/ MsixAccess(l, msix[b]) => "mapping" \in hw[b]
    BY <1>3, <1>4, <2>1, Mapped
  <2>3. Touch({b}, l \in ActivateReads \/ MsixAccess(l, msix[b]) => "mapping" \in hw[b])
    BY DEF ActivateCase
  <2> QED
    BY <1>2, <2>2, <2>3 DEF Touch, Blame, Inv
<1>6. op' = [op EXCEPT ![a] = o]
  BY <1>1, <1>2
<1>7. l + 1 \in Levels /\ l + 1 # PROBED /\ level[b] # PROBED
  BY <1>4, LevelValues
<1>8. o \in Op /\ o.call = op[a].call /\ o.task = "activate" /\ o.at = l + 1
  BY <1>1, <1>2, <1>7 DEF Op
<1>9. PICK m \in BOOLEAN : msix' = [msix EXCEPT ![b] = m] /\ (l # DMA_MASK_SET => m = msix[b])
  <2>1. CASE l = DMA_MASK_SET
    BY <2>1 DEF ActivateCase
  <2>2. CASE l # DMA_MASK_SET
    BY <1>3, <2>2 DEF ActivateCase
  <2> QED
    BY <2>1, <2>2
<1> DEFINE h == hw[b] \cup Acquires(l, msix[b])
<1>10. hw' = [hw EXCEPT ![b] = h] /\ h \in SUBSET Hardware
  <2>1. hw' = [hw EXCEPT ![b] = h]
    BY DEF ActivateCase
  <2>2. Acquires(l, msix[b]) \subseteq Hardware
    BY DEF Acquires, Hardware
  <2> QED
    BY <1>3, <2>1, <2>2
<1>11. h = HeldAt(l + 1, m)
  <2>1. h = HeldAt(l + 1, msix[b])
    BY <1>4, HeldUp
  <2>2. CASE l = DMA_MASK_SET
    <3>1. l + 1 \in 0..8
      BY <2>2, LevelValues
    <3> QED
      BY <1>3, <1>9, <2>1, <3>1, MsixLater
  <2> QED
    BY <1>9, <2>1, <2>2
<1>12. Rung(o, l + 1, h, m)
  <2> HIDE DEF o, h, l
  <2> QED
    BY <1>7, <1>8, <1>11 DEF Rung
<1>13. GoesOn(a, b, o, l + 1, m, h)
  <2> HIDE DEF o, h
  <2> QED
    BY <1>1, <1>5, <1>6, <1>7, <1>8, <1>9, <1>10, <1>12 DEF GoesOn
<1> QED
  BY <1>13, GoOn

\* A call that turns to deactivate enters its switch at the level reached.
LEMMA TurnRung ==
  ASSUME NEW o, NEW l \in Levels, NEW h, NEW m, h = HeldAt(l, m),
         o.task = "deactivate", o.at = l
  PROVE  Rung(o, l, h, m)
  BY LevelValues DEF Rung

\* A case of activate that fails.
LEMMA ActivateFailsStep == ASSUME Inv, NEW a \in Actors, ActivateFails(a) PROVE Inv'
<1> DEFINE b == BoardOf(a)
           o == [op[a] EXCEPT !.task = "deactivate", !.at = level[b]]
<1>1. /\ op[a].task = "activate" /\ op[a].at \in CanFail
      /\ UNCHANGED <<moduleVars, class, list, alive, boardVars, cdevs, nodes, open_count, file>>
  BY DEF ActivateFails
<1>2. /\ op[a] \in Op /\ op \in [Actors -> Op] /\ b \in alive /\ b \in Devices /\ BoardAt(a)
  BY <1>1, CallFacts
<1>3. /\ level[b] \in Levels /\ msix[b] \in BOOLEAN /\ hw[b] \in SUBSET Hardware
      /\ msix = [msix EXCEPT ![b] = msix[b]] /\ hw = [hw EXCEPT ![b] = hw[b]]
      /\ level = [level EXCEPT ![b] = level[b]]
  BY <1>2, BoardFacts
<1>4. op[a].at = level[b] /\ hw[b] = HeldAt(level[b], msix[b])
  BY <1>1, <1>2 DEF BoardAt, Rung
<1>5. misuse' \subseteq {"down", "no_class"}
  <2>1. op[a].at = BARS_MAPPED => "mapping" \in hw[b]
    BY <1>3, <1>4, Mapped, LevelValues
  <2>2. Touch({b}, op[a].at = BARS_MAPPED => "mapping" \in hw[b])
    BY DEF ActivateFails
  <2> QED
    BY <1>2, <2>1, <2>2 DEF Touch, Blame, Inv
<1>6. op' = [op EXCEPT ![a] = o]
  BY <1>2 DEF ActivateFails
<1>7. o \in Op /\ o.call = op[a].call /\ o.task = "deactivate" /\ o.at = level[b]
  BY <1>2, <1>3 DEF Op
<1>8. Rung(o, level[b], hw[b], msix[b])
  <2> HIDE DEF o
  <2> QED
    BY <1>3, <1>4, <1>7, TurnRung
<1>9. GoesOn(a, b, o, level[b], msix[b], hw[b])
  <2> HIDE DEF o
  <2> QED
    BY <1>1, <1>3, <1>5, <1>6, <1>7, <1>8 DEF GoesOn, boardVars
<1> QED
  BY <1>9, GoOn

\* A case of deactivate.
LEMMA DeactivateStep == ASSUME Inv, NEW a \in Actors, DeactivateCase(a) PROVE Inv'
<1> DEFINE b == BoardOf(a)
           l == op[a].at
           o == [op[a] EXCEPT !.at = l - 1]
           k == LevelAfter(l, level[b])
           h == hw[b] \ GivesBack(l, msix[b])
<1>1. /\ op[a].task = "deactivate" /\ l >= PCI_DEV_ENABLED
      /\ UNCHANGED <<moduleVars, class, list, alive, number, msix, cdevs, nodes, open_count, file>>
      /\ hw' = [hw EXCEPT ![b] = h]
      /\ op' = [op EXCEPT ![a].at = l - 1]
  BY DEF DeactivateCase
<1>2. /\ op[a] \in Op /\ op \in [Actors -> Op] /\ b \in alive /\ b \in Devices /\ BoardAt(a)
  BY <1>1, CallFacts
<1>3. /\ level[b] \in Levels /\ msix[b] \in BOOLEAN /\ hw[b] \in SUBSET Hardware
      /\ msix = [msix EXCEPT ![b] = msix[b]] /\ l \in Levels
  BY <1>2, BoardFacts DEF Op
<1>4. l \in 2..11 /\ l <= level[b] /\ hw[b] = HeldAt(l, msix[b])
  BY <1>1, <1>2, <1>3, LevelValues DEF BoardAt, Rung
<1>5. misuse' \subseteq {"down", "no_class"}
  <2>1. GivesBack(l, msix[b]) \cap Counted \subseteq hw[b]
    BY <1>3, <1>4, HeldDown
  <2>2. l \in DeactivateReads \/ MsixAccess(l, msix[b]) => l \in 4..11
    BY <1>4, LevelValues DEF DeactivateReads, MsixAccess
  <2>3. l \in DeactivateReads \/ MsixAccess(l, msix[b]) => "mapping" \in hw[b]
    BY <1>3, <1>4, <2>2, Mapped
  <2>4. Touch({b}, /\ GivesBack(l, msix[b]) \cap Counted \subseteq hw[b]
                   /\ l \in DeactivateReads \/ MsixAccess(l, msix[b]) => "mapping" \in hw[b])
    BY DEF DeactivateCase
  <2> QED
    BY <1>2, <2>1, <2>3, <2>4 DEF Touch, Blame, Inv
<1>6. op' = [op EXCEPT ![a] = o]
  BY <1>1, <1>2
<1>7. level' = [level EXCEPT ![b] = k]
  BY <1>2 DEF DeactivateCase, Inv, TypeOK
<1>8. /\ k \in Levels /\ l - 1 \in Levels /\ k # PROBED /\ level[b] # PROBED
      /\ l - 1 <= k /\ (l - 1 <= BOARD_NUM_ASSIGNED => k = l - 1)
  <2>1. CASE l = 2
    BY <1>4, <2>1, LevelValues DEF LevelAfter
  <2>2. CASE l # 2
    BY <1>3, <1>4, <2>2, LevelValues DEF LevelAfter
  <2> QED
    BY <2>1, <2>2
<1>9. o \in Op /\ o.call = op[a].call /\ o.task = "deactivate" /\ o.at = l - 1
  BY <1>1, <1>2, <1>8 DEF Op
<1>10. h = HeldAt(l - 1, msix[b]) /\ h \in SUBSET Hardware
  BY <1>3, <1>4, HeldDown
<1>11. Rung(o, k, h, msix[b])
  <2> HIDE DEF o, h, k
  <2> QED
    BY <1>8, <1>9, <1>10 DEF Rung
<1>12. GoesOn(a, b, o, k, msix[b], h)
  <2> HIDE DEF o, h, k
  <2> QED
    BY <1>1, <1>3, <1>5, <1>6, <1>7, <1>8, <1>9, <1>10, <1>11 DEF GoesOn
<1> QED
  BY <1>12, GoOn
-----------------------------------------------------------------------------
(***************************************************************************)
(* The ioctls.                                                             *)
(***************************************************************************)

\* The board behind an open file is at rest when a call on it may begin.
LEMMA FileFacts ==
  ASSUME Inv, GoodHands, NEW f \in Files, Ioctl(f)
  PROVE  /\ f \in Actors /\ f \notin Devices /\ BoardOf(f) = file[f].board
         /\ op[f] = Idle /\ op \in [Actors -> Op] /\ Idle \in Op
         /\ \A c \in Actors : ~Busy(c)
         /\ file[f].board \in cdevs /\ file[f].board \in alive
         /\ LET b == file[f].board IN Rest(level[b], hw[b], msix[b])
<1> DEFINE b == file[f].board
<1>1. /\ f \in Actors /\ f \notin Devices /\ BoardOf(f) = b /\ op \in [Actors -> Op] /\ Idle \in Op
  BY ActorFacts DEF Inv
<1>2. \A c \in Actors : ~Busy(c)
  BY DEF Ioctl, MayCall, GoodHands, Quiet, Busy
<1>3. op[f] = Idle
  BY <1>1, <1>2 DEF Busy
<1>4. b \in cdevs /\ b \in alive
  <2>1. b # None
    BY DEF Ioctl
  <2>2. b \in cdevs
    BY <2>1 DEF Inv, FileInv
  <2> QED
    BY <2>2 DEF Inv, TypeOK, ListIsAlive
<1>5. Rest(level[b], hw[b], msix[b])
  BY <1>2, <1>4 DEF Inv, LadderInv
<1> QED
  BY <1>1, <1>2, <1>3, <1>4, <1>5

\* A step of a file's call that leaves level, number and MSI-X.
FileMove(f, b, o, h) ==
  /\ b = BoardOf(f) /\ b \in cdevs /\ b \in alive /\ \A c \in Actors : Busy(c) => c = f
  /\ o \in Op /\ op' = [op EXCEPT ![f] = o]
  /\ h \in SUBSET Hardware /\ hw' = [hw EXCEPT ![b] = h]
  /\ UNCHANGED <<moduleVars, class, list, alive, level, number, msix, cdevs, nodes, open_count, file>>
  /\ misuse' \subseteq {"down", "no_class"}
  /\ IF o = Idle THEN Rest(level[b], h, msix[b]) ELSE Rung(o, level[b], h, msix[b])
  /\ o.task \notin {"scan", "assign"}

\* Such a step keeps the invariant.
LEMMA FileStep ==
  ASSUME Inv, NEW f \in Files, NEW b, NEW o, NEW h, FileMove(f, b, o, h)
  PROVE  Inv'
<1> USE DEF FileMove
<1>1. f \in Actors /\ f \notin Devices
  BY ActorFacts DEF Inv
<1>2. /\ level[b] \in Levels /\ number[b] \in 0..NumBoards /\ msix[b] \in BOOLEAN
      /\ level = [level EXCEPT ![b] = level[b]] /\ number = [number EXCEPT ![b] = number[b]]
      /\ msix = [msix EXCEPT ![b] = msix[b]]
      /\ number[b] = UNASSIGNED <=> level[b] = PROBED
      /\ b \in cdevs => level[b] # PROBED
      /\ number[b] = UNASSIGNED \/ \A e \in alive \ {b} : number[e] # number[b]
  BY BoardFacts
<1>3. OwnMove(f, b, o, level[b], number[b], msix[b], h)
  BY <1>2 DEF OwnMove
<1>4. MoveFits(f, b, o, level[b], number[b], msix[b], h)
  BY <1>1, <1>2 DEF MoveFits
<1> QED
  BY <1>1, <1>3, <1>4, OwnStep

\* BNOC_DEACTIVATE starts down from the level at which the board rests.
LEMMA IoctlDeactivateStep ==
  ASSUME Inv, GoodHands, NEW f \in Files, IoctlDeactivate(f) PROVE Inv'
<1> DEFINE b == file[f].board
           o == [Idle EXCEPT !.call = "BNOC_DEACTIVATE", !.task = "deactivate", !.at = level[b]]
<1>1. Ioctl(f) /\ op' = [op EXCEPT ![f] = o] /\ Touch({b}, TRUE)
      /\ UNCHANGED <<moduleVars, class, list, alive, boardVars, cdevs, nodes, open_count, file>>
  BY DEF IoctlDeactivate
<1>2. /\ f \in Actors /\ BoardOf(f) = b /\ (\A c \in Actors : ~Busy(c))
      /\ b \in cdevs /\ b \in alive /\ Rest(level[b], hw[b], msix[b]) /\ Idle \in Op
  BY <1>1, FileFacts
<1>3. misuse' \subseteq {"down", "no_class"}
  BY <1>1, <1>2 DEF Touch, Blame, Inv
<1>4. /\ level[b] \in Levels /\ hw[b] \in SUBSET Hardware /\ hw = [hw EXCEPT ![b] = hw[b]]
  BY <1>2, BoardFacts
<1>5. o \in Op /\ o.task = "deactivate" /\ o.at = level[b] /\ o # Idle
  BY <1>2, <1>4 DEF Op, Idle
<1>6. Rung(o, level[b], hw[b], msix[b])
  <2> HIDE DEF o
  <2> QED
    BY <1>2, <1>4, <1>5, TurnRung DEF Rest
<1> HIDE DEF o
<1>7. FileMove(f, b, o, hw[b])
  BY <1>1, <1>2, <1>3, <1>4, <1>5, <1>6 DEF boardVars, FileMove
<1> QED
  BY <1>7, FileStep

\* BNOC_REACTIVATE starts up from the level at which the board rests, which is
\* never that of a board without a number.
LEMMA IoctlReactivateStep ==
  ASSUME Inv, GoodHands, NEW f \in Files, IoctlReactivate(f) PROVE Inv'
<1> DEFINE b == file[f].board
           o == [Idle EXCEPT !.call = "BNOC_REACTIVATE", !.task = EnterActivate(b).task,
                             !.at = level[b]]
<1>1. Ioctl(f) /\ op' = [op EXCEPT ![f] = o] /\ Touch({b}, TRUE)
      /\ UNCHANGED <<moduleVars, class, list, alive, boardVars, cdevs, nodes, open_count, file>>
  BY DEF IoctlReactivate
<1>2. /\ f \in Actors /\ BoardOf(f) = b /\ (\A c \in Actors : ~Busy(c))
      /\ b \in cdevs /\ b \in alive /\ Rest(level[b], hw[b], msix[b]) /\ Idle \in Op
  BY <1>1, FileFacts
<1>3. misuse' \subseteq {"down", "no_class"}
  BY <1>1, <1>2 DEF Touch, Blame, Inv
<1>4. /\ level[b] \in Levels /\ hw[b] \in SUBSET Hardware /\ hw = [hw EXCEPT ![b] = hw[b]]
  BY <1>2, BoardFacts
<1>5. level[b] # PROBED /\ EnterActivate(b).task = "activate"
  BY <1>2, LevelValues DEF Rest, EnterActivate
<1>6. o \in Op /\ o.task = "activate" /\ o.at = level[b] /\ o # Idle
  <2> HIDE DEF b
  <2> QED
    BY <1>2, <1>4, <1>5 DEF Op, Idle
<1>7. Rung(o, level[b], hw[b], msix[b])
  <2> HIDE DEF o
  <2> QED
    BY <1>2, <1>5, <1>6 DEF Rest, Rung
<1> HIDE DEF o
<1>8. FileMove(f, b, o, hw[b])
  BY <1>1, <1>2, <1>3, <1>4, <1>6, <1>7 DEF boardVars, FileMove
<1> QED
  BY <1>8, FileStep

\* The network is all that a soft reset takes from the board, for a while.
LEMMA Network ==
  ASSUME NEW m \in BOOLEAN
  PROVE  /\ HeldAt(11, m) \ {"network"} = HeldAt(10, m)
         /\ HeldAt(10, m) \cup {"network"} = HeldAt(11, m)
<1>1. "network" \notin HeldAt(10, m)
  BY HeldTable
<1> QED
  BY <1>1, HeldTable

\* BNOC_SOFT_RESET takes the network of an active board down.
LEMMA SoftResetBeginsStep ==
  ASSUME Inv, GoodHands, NEW f \in Files, SoftResetBegins(f) PROVE Inv'
<1> DEFINE b == file[f].board
           o == [Idle EXCEPT !.call = "BNOC_SOFT_RESET", !.task = "resetting"]
           h == hw[b] \ {"network"}
<1>1. Ioctl(f) /\ op' = [op EXCEPT ![f] = o] /\ Touch({b}, "mapping" \in hw[b])
      /\ level[b] = BLUENOC_ACTIVE /\ hw' = [hw EXCEPT ![b] = h]
      /\ UNCHANGED <<moduleVars, class, list, alive, level, number, msix, cdevs, nodes, open_count, file>>
  BY DEF SoftResetBegins
<1>2. /\ f \in Actors /\ BoardOf(f) = b /\ (\A c \in Actors : ~Busy(c))
      /\ b \in cdevs /\ b \in alive /\ Rest(level[b], hw[b], msix[b]) /\ Idle \in Op
  BY <1>1, FileFacts
<1>3. /\ hw[b] \in SUBSET Hardware /\ msix[b] \in BOOLEAN
  BY <1>2, BoardFacts
<1>4. hw[b] = HeldAt(11, msix[b]) /\ h = HeldAt(10, msix[b]) /\ "mapping" \in hw[b]
  BY <1>1, <1>2, <1>3, Network, Mapped, LevelValues DEF Rest
<1>5. misuse' \subseteq {"down", "no_class"}
  BY <1>1, <1>2, <1>4 DEF Touch, Blame, Inv
<1>6. o \in Op /\ o.task = "resetting" /\ o # Idle
  BY <1>2 DEF Op, Idle
<1>7. Rung(o, level[b], h, msix[b])
  <2> HIDE DEF o, h
  <2> QED
    BY <1>1, <1>4, <1>6, LevelValues DEF Rung
<1>8. h \in SUBSET Hardware
  BY <1>3
<1> HIDE DEF o, h
<1>9. FileMove(f, b, o, h)
  BY <1>1, <1>2, <1>5, <1>6, <1>7, <1>8 DEF FileMove
<1> QED
  BY <1>9, FileStep

\* It brings it up again on a board that is active still.
LEMMA SoftResetEndsStep == ASSUME Inv, NEW f \in Files, SoftResetEnds(f) PROVE Inv'
<1> DEFINE b == file[f].board
           h == hw[b] \cup {"network"}
<1>1. op[f].task = "resetting" /\ op' = [op EXCEPT ![f] = Idle] /\ Touch({b}, "mapping" \in hw[b])
      /\ hw' = [hw EXCEPT ![b] = h]
      /\ UNCHANGED <<moduleVars, class, list, alive, level, number, msix, cdevs, nodes, open_count, file>>
  BY DEF SoftResetEnds
<1>2. f \in Actors /\ Idle \in Op /\ Idle.task = "idle"
  BY ActorFacts DEF Inv
<1>3. /\ (\A c \in Actors : Busy(c) => c = f) /\ b \in alive /\ BoardAt(f) /\ BoardOf(f) = b
      /\ b \in Devices
  BY <1>1, <1>2, CallFacts
<1>4. b \in cdevs
  <2>1. b # None
    BY <1>3, BoardsAssumption
  <2> QED
    BY <2>1 DEF Inv, FileInv
<1>5. hw[b] \in SUBSET Hardware /\ msix[b] \in BOOLEAN
  BY <1>3, BoardFacts
<1>6. level[b] = 11 /\ hw[b] = HeldAt(10, msix[b])
  BY <1>1, <1>3, LevelValues DEF BoardAt, Rung
<1>7. h = HeldAt(11, msix[b]) /\ "mapping" \in hw[b] /\ h \in SUBSET Hardware
  BY <1>5, <1>6, Network, Mapped DEF Hardware
<1>8. misuse' \subseteq {"down", "no_class"}
  BY <1>1, <1>3, <1>7 DEF Touch, Blame, Inv
<1>9. Rest(level[b], h, msix[b])
  BY <1>6, <1>7, LevelValues DEF Rest
<1> HIDE DEF h
<1>10. FileMove(f, b, Idle, h)
  BY <1>1, <1>2, <1>3, <1>4, <1>7, <1>8, <1>9 DEF FileMove
<1> QED
  BY <1>10, FileStep

\* A call that has gone through its switch leaves the board at rest.
LEMMA IoctlReturnsStep == ASSUME Inv, NEW f \in Files, IoctlReturns(f) PROVE Inv'
<1> DEFINE b == file[f].board
<1>1. /\ \/ op[f].task = "deactivate" /\ op[f].at <= BOARD_NUM_ASSIGNED
         \/ op[f].task = "activate" /\ op[f].at = BLUENOC_ACTIVE
      /\ op' = [op EXCEPT ![f] = Idle]
      /\ UNCHANGED <<moduleVars, class, list, alive, boardVars, cdevs, nodes, open_count, file, misuse>>
  BY DEF IoctlReturns
<1>2. f \in Actors /\ Idle \in Op /\ Idle.task = "idle"
  BY ActorFacts DEF Inv
<1>3. /\ (\A c \in Actors : Busy(c) => c = f) /\ b \in alive /\ BoardAt(f) /\ BoardOf(f) = b
      /\ b \in Devices /\ op[f] \in Op
  BY <1>1, <1>2, CallFacts
<1>4. b \in cdevs
  <2>1. b # None
    BY <1>3, BoardsAssumption
  <2> QED
    BY <2>1 DEF Inv, FileInv
<1>5. /\ hw[b] \in SUBSET Hardware /\ hw = [hw EXCEPT ![b] = hw[b]] /\ level[b] \in Levels
      /\ level[b] # PROBED
  BY <1>3, <1>4, BoardFacts
<1>6. Rest(level[b], hw[b], msix[b])
  <2>1. CASE op[f].task = "deactivate" /\ op[f].at <= BOARD_NUM_ASSIGNED
    <3>1. level[b] = op[f].at /\ hw[b] = HeldAt(level[b], msix[b])
      BY <1>3, <2>1 DEF BoardAt, Rung
    <3>2. level[b] = BOARD_NUM_ASSIGNED
      BY <1>5, <2>1, <3>1, LevelValues
    <3> QED
      BY <3>1, <3>2 DEF Rest
  <2>2. CASE op[f].task = "activate" /\ op[f].at = BLUENOC_ACTIVE
    BY <1>3, <2>2 DEF BoardAt, Rung, Rest
  <2> QED
    BY <1>1, <2>1, <2>2
<1>7. misuse' \subseteq {"down", "no_class"}
  BY <1>1 DEF Inv
<1>8. hw' = [hw EXCEPT ![b] = hw[b]]
      /\ UNCHANGED <<moduleVars, class, list, alive, level, number, msix, cdevs, nodes, open_count, file>>
  BY <1>1, <1>5 DEF boardVars
<1>9. op' = [op EXCEPT ![f] = Idle]
  BY <1>1
<1>10. FileMove(f, b, Idle, hw[b])
  BY <1>2, <1>3, <1>4, <1>5, <1>6, <1>7, <1>8, <1>9 DEF FileMove
<1> QED
  BY <1>10, FileStep

\* Whatever only looks leaves the invariant.
LEMMA LooksOnly ==
  ASSUME Inv, UNCHANGED <<module, region, class, list, alive, level, number, msix, hw, cdevs, nodes,
                          open_count, file, op>>,
         misuse' \subseteq {"down", "no_class"}
  PROVE  Inv'
<1>1. TypeOK'
  BY DEF Inv, TypeOK
<1>2. OneInv' /\ LadderInv' /\ CallInv'
  BY DEF Inv, OneInv, LadderInv, CallInv, Busy, BoardAt, BoardOf
<1>3. ListIsAlive' /\ NumberInv' /\ FileInv' /\ ModuleInv'
  BY DEF Inv, ListIsAlive, InList, NumberInv, FileInv, OpenFiles, ModuleInv
<1> QED
  BY <1>1, <1>2, <1>3 DEF Inv

\* The calls that only look: users ask whether the board is active before they
\* access a register.
LEMMA IoctlLooksStep ==
  ASSUME Inv, GoodHands, NEW f \in Files, IoctlRegister(f) \/ IoctlIdentify(f)
  PROVE  Inv'
<1> DEFINE b == file[f].board
<1>1. Ioctl(f) /\ UNCHANGED <<moduleVars, class, list, alive, boardVars, cdevs, nodes, open_count, file, op>>
  BY DEF IoctlRegister, IoctlIdentify
<1>2. b \in alive /\ Rest(level[b], hw[b], msix[b])
  BY <1>1, FileFacts
<1>3. misuse' \subseteq {"down", "no_class"}
  <2>1. CASE IoctlRegister(f)
    BY <1>2, <2>1 DEF IoctlRegister, Blame
  <2>2. CASE IoctlIdentify(f)
    BY <1>2, <2>2 DEF IoctlIdentify, Touch, Blame, Inv
  <2> QED
    BY <2>1, <2>2
<1> QED
  BY <1>1, <1>3, LooksOnly DEF moduleVars, boardVars
-----------------------------------------------------------------------------
(***************************************************************************)
(* Probe and remove.                                                       *)
(***************************************************************************)

\* A call of the PCI core begins when nothing else is under way.
LEMMA CoreFacts ==
  ASSUME Inv, GoodHands, NEW d \in Devices, MayCall(d)
  PROVE  /\ d \in Actors /\ BoardOf(d) = d /\ op[d] = Idle /\ op \in [Actors -> Op] /\ Idle \in Op
         /\ \A c \in Actors : ~Busy(c)
  BY ActorFacts DEF Inv, MayCall, GoodHands, Quiet, Busy

\* A probe puts a new board, with no number and no hardware, at the head.
LEMMA ProbeStep == ASSUME Inv, GoodHands, NEW d \in Devices, bluenoc_probe(d) PROVE Inv'
<1> DEFINE o == [Idle EXCEPT !.call = "probe", !.task = "scan"]
<1>1. /\ module = "in" /\ d \notin alive /\ MayCall(d) /\ alive' = alive \cup {d}
      /\ IF class = "none" THEN class' \in {"made", "failed"} ELSE UNCHANGED class
      /\ level' = [level EXCEPT ![d] = PROBED] /\ number' = [number EXCEPT ![d] = UNASSIGNED]
      /\ list' = <<d>> \o list /\ op' = [op EXCEPT ![d] = o]
      /\ UNCHANGED <<moduleVars, msix, hw, cdevs, nodes, open_count, file, misuse>>
  BY DEF bluenoc_probe
<1>2. /\ d \in Actors /\ BoardOf(d) = d /\ (\A c \in Actors : ~Busy(c))
      /\ op \in [Actors -> Op] /\ Idle \in Op
  BY <1>1, CoreFacts
<1>3. TypeOK
  BY DEF Inv
<1>4. o \in Op /\ o.call = "probe" /\ o.task = "scan" /\ o # Idle
  BY <1>2 DEF Op, Idle
<1> HIDE DEF o
<1>5. /\ op'[d] = o /\ (\A c \in Actors \ {d} : op'[c] = op[c] /\ op'[c] = Idle)
      /\ Busy(d)' /\ (\A c \in Actors : Busy(c)' => c = d)
  BY <1>1, <1>2, <1>4 DEF Busy
<1>6. \A c \in Actors : BoardOf(c)' = BoardOf(c)
  BY <1>1 DEF BoardOf
<1>7. /\ level'[d] = PROBED /\ number'[d] = UNASSIGNED
      /\ \A e \in Devices \ {d} : level'[e] = level[e] /\ number'[e] = number[e]
      /\ alive \subseteq Devices /\ cdevs \subseteq Devices
  BY <1>1, <1>3 DEF TypeOK
<1>8. hw[d] = {} /\ d \notin cdevs /\ cdevs \subseteq alive
  BY <1>1, <1>3 DEF Inv, ListIsAlive, TypeOK
<1>9. /\ list \in Seq(Devices) /\ list' \in Seq(Devices) /\ Len(list') = Len(list) + 1
      /\ list'[1] = d /\ (\A i \in 1..Len(list) : list'[i + 1] = list[i])
      /\ \A i \in 1..Len(list') : i = 1 \/ (i - 1 \in 1..Len(list) /\ list'[i] = list[i - 1])
  BY <1>1, <1>3 DEF TypeOK
<1>10. TypeOK'
  <2>1. /\ level' \in [Devices -> Levels] /\ number' \in [Devices -> 0..NumBoards]
        /\ op' \in [Actors -> Op] /\ alive' \in SUBSET Devices /\ class' \in {"none", "made", "failed"}
    BY <1>1, <1>2, <1>3, <1>4, LevelValues, BoardsAssumption DEF TypeOK, bluenoc_probe
  <2> QED
    BY <1>1, <1>3, <1>9, <2>1 DEF TypeOK, moduleVars
<1>11. OneInv'
  BY <1>5 DEF OneInv
<1>12. LadderInv'
  <2>1. BoardOf(d)' \in alive' /\ BoardAt(d)'
    BY <1>1, <1>2, <1>4, <1>5, <1>6, <1>7, <1>8 DEF BoardAt, Rung
  <2>2. ASSUME NEW e \in alive', \A c \in Actors : Busy(c)' => BoardOf(c)' # e
        PROVE  Rest(level'[e], hw'[e], msix'[e])
    <3>1. e # d /\ e \in alive
      BY <1>1, <1>2, <1>5, <1>6, <2>2
    <3>2. Rest(level[e], hw[e], msix[e])
      BY <1>2, <3>1 DEF Inv, LadderInv
    <3> QED
      BY <1>1, <1>7, <3>1, <3>2
  <2> QED
    BY <1>5, <2>1, <2>2 DEF LadderInv
<1>13. CallInv'
  <2>1. ASSUME NEW e \in Devices, Busy(e)'
        PROVE  /\ op'[e].call \in {"probe", "remove"} /\ op'[e].task # "resetting"
               /\ op'[e].call = "probe" <=> e \notin cdevs'
               /\ op'[e].call # "remove"
    BY <1>1, <1>4, <1>5, <1>8, <2>1 DEF Actors
  <2>2. \A f \in Files : ~Busy(f)'
    BY <1>3, <1>5, ActorFacts
  <2>3. ASSUME NEW e \in alive' \ cdevs' PROVE Busy(e)' /\ list' # <<>> /\ list'[1] = e
    <3>1. e = d
      <4>1. SUFFICES ASSUME e # d PROVE FALSE
        OBVIOUS
      <4>2. e \in alive \ cdevs
        BY <1>1, <2>3, <4>1
      <4>3. Busy(e)
        BY <4>2 DEF Inv, CallInv
      <4> QED
        BY <1>2, <1>7, <4>2, <4>3 DEF Actors
    <3> QED
      BY <1>5, <1>9, <3>1
  <2> QED
    BY <2>1, <2>2, <2>3 DEF CallInv
<1>14. ListIsAlive'
  <2>1. ListIsAlive
    BY DEF Inv
  <2>2. \A i \in 1..Len(list) : list[i] # d
    BY <1>1, <1>9, <2>1 DEF ListIsAlive, InList
  <2>3. \A i, j \in DOMAIN list' : list'[i] = list'[j] => i = j
    <3>1. ASSUME NEW i \in 1..Len(list'), NEW j \in 1..Len(list'), list'[i] = list'[j] PROVE i = j
      <4>1. CASE i = 1 \/ j = 1
        BY <1>9, <2>2, <3>1, <4>1
      <4>2. CASE i # 1 /\ j # 1
        <5>1. i - 1 \in 1..Len(list) /\ j - 1 \in 1..Len(list) /\ list[i - 1] = list[j - 1]
          BY <1>9, <3>1, <4>2
        <5>2. i - 1 = j - 1
          BY <1>9, <2>1, <5>1 DEF ListIsAlive
        <5> QED
          BY <1>9, <5>2
      <4> QED
        BY <4>1, <4>2
    <3> QED
      BY <1>9, <3>1
  <2>4. ASSUME NEW e \in Devices PROVE InList(e)' <=> e \in alive'
    <3>1. InList(e) <=> e \in alive
      BY <2>1 DEF ListIsAlive
    <3>2. InList(e)' => InList(e) \/ e = d
      BY <1>9 DEF InList
    <3>3. InList(e) \/ e = d => InList(e)'
      <4>1. CASE e = d
        BY <1>9, <4>1 DEF InList
      <4>2. CASE InList(e)
        <5>1. PICK i \in 1..Len(list) : list[i] = e
          BY <1>9, <4>2 DEF InList
        <5>2. i + 1 \in 1..Len(list') /\ list'[i + 1] = e
          BY <1>9, <5>1
        <5> QED
          BY <1>9, <5>2 DEF InList
      <4> QED
        BY <4>1, <4>2
    <3> QED
      BY <1>1, <3>1, <3>2, <3>3
  <2>5. \A e \in Devices \ alive' : hw'[e] = {} /\ e \notin cdevs'
    BY <1>1, <2>1 DEF ListIsAlive
  <2> QED
    BY <2>3, <2>4, <2>5 DEF ListIsAlive
<1>15. NumberInv'
  <2>1. NumberInv
    BY DEF Inv
  <2>2. \A c \in Actors : op'[c].task # "assign"
    BY <1>2, <1>3, <1>4, <1>5, ActorFacts
  <2>3. \A e \in alive' : e # d => e \in alive /\ level'[e] = level[e] /\ number'[e] = number[e]
    BY <1>1, <1>7
  <2>4. \A e \in alive' : number'[e] = UNASSIGNED <=> level'[e] = PROBED
    BY <1>7, <2>1, <2>3 DEF NumberInv
  <2>5. \A e \in cdevs' : level'[e] # PROBED
    BY <1>1, <1>7, <1>8, <2>1 DEF NumberInv
  <2>6. \A e, g \in alive' : number'[e] = number'[g] /\ number'[e] # UNASSIGNED => e = g
    BY <1>7, <2>1, <2>3 DEF NumberInv
  <2> QED
    BY <2>2, <2>4, <2>5, <2>6 DEF NumberInv
<1>16. FileInv'
  <2>1. \A e \in cdevs : number'[e] = number[e]
    BY <1>7, <1>8
  <2> QED
    BY <1>1, <2>1 DEF Inv, FileInv, OpenFiles
<1>17. ModuleInv'
  BY <1>1 DEF Inv, ModuleInv, moduleVars
<1> QED
  BY <1>1, <1>10, <1>11, <1>12, <1>13, <1>14, <1>15, <1>16, <1>17 DEF Inv

\* bluenoc_remove finds the board, which rests and on which no file is open.
LEMMA RemoveStep == ASSUME Inv, GoodHands, NEW d \in Devices, bluenoc_remove(d) PROVE Inv'
<1> DEFINE o == [Idle EXCEPT !.call = "remove", !.task = "deactivate", !.at = level[d]]
<1>1. /\ d \in cdevs /\ MayCall(d) /\ (\A f \in Files : file[f].board # d)
      /\ op' = [op EXCEPT ![d] = o] /\ Touch(Listed, TRUE)
      /\ UNCHANGED <<moduleVars, class, list, alive, boardVars, cdevs, nodes, open_count, file>>
  BY DEF bluenoc_remove, GoodHands
<1>2. /\ d \in Actors /\ BoardOf(d) = d /\ (\A c \in Actors : ~Busy(c)) /\ Idle \in Op
      /\ d \notin Files
  BY <1>1, CoreFacts, BoardsAssumption
<1>3. d \in alive
  BY <1>1 DEF Inv, ListIsAlive
<1>4. Rest(level[d], hw[d], msix[d])
  BY <1>2, <1>3 DEF Inv, LadderInv
<1>5. /\ level[d] \in Levels /\ number[d] \in 0..NumBoards /\ msix[d] \in BOOLEAN
      /\ hw[d] \in SUBSET Hardware
      /\ level = [level EXCEPT ![d] = level[d]] /\ number = [number EXCEPT ![d] = number[d]]
      /\ msix = [msix EXCEPT ![d] = msix[d]] /\ hw = [hw EXCEPT ![d] = hw[d]]
      /\ number[d] = UNASSIGNED <=> level[d] = PROBED
      /\ level[d] # PROBED
      /\ number[d] = UNASSIGNED \/ \A e \in alive \ {d} : number[e] # number[d]
  BY <1>1, <1>3, BoardFacts
<1>6. o \in Op /\ o.call = "remove" /\ o.task = "deactivate" /\ o.at = level[d] /\ o # Idle
  BY <1>2, <1>5 DEF Op, Idle
<1> HIDE DEF o
<1>7. Rung(o, level[d], hw[d], msix[d])
  BY <1>4, <1>5, <1>6, TurnRung DEF Rest
<1>8. misuse' \subseteq {"down", "no_class"}
  BY <1>1, ListedAlive DEF Touch, Blame, Inv
<1>9. OwnMove(d, d, o, level[d], number[d], msix[d], hw[d])
  BY <1>1, <1>2, <1>3, <1>5, <1>6, <1>8 DEF OwnMove, boardVars
<1>10. MoveFits(d, d, o, level[d], number[d], msix[d], hw[d])
  BY <1>1, <1>2, <1>5, <1>6, <1>7 DEF MoveFits
<1> QED
  BY <1>2, <1>9, <1>10, OwnStep

\* The list t is the list s without the board at p.
Without(s, p, t) ==
  /\ s \in Seq(Devices) /\ t \in Seq(Devices) /\ p \in 1..Len(s)
  /\ Len(t) = Len(s) - 1
  /\ \A i \in 1..Len(t) : t[i] = IF i < p THEN s[i] ELSE s[i + 1]

Once(s) == \A i, j \in 1..Len(s) : s[i] = s[j] => i = j

Occurs(e, s) == \E i \in 1..Len(s) : s[i] = e

\* A list without one of its boards has the others, once.
LEMMA WithoutOne ==
  ASSUME NEW s, NEW p, NEW t, Once(s), Without(s, p, t)
  PROVE  Once(t) /\ \A e : Occurs(e, t) <=> e # s[p] /\ Occurs(e, s)
<1> USE DEF Without, Once, Occurs
<1>0. Len(s) \in Nat /\ Len(t) \in Nat
  OBVIOUS
<1>1. ASSUME NEW i \in 1..Len(t), NEW j \in 1..Len(t), t[i] = t[j] PROVE i = j
  <2>1. CASE i < p /\ j < p
    BY <1>0, <1>1, <2>1
  <2>2. CASE i < p /\ ~(j < p)
    <3>1. i \in 1..Len(s) /\ j + 1 \in 1..Len(s) /\ s[i] = s[j + 1]
      BY <1>0, <1>1, <2>2
    <3> QED
      BY <1>0, <2>2, <3>1
  <2>3. CASE ~(i < p) /\ j < p
    <3>1. j \in 1..Len(s) /\ i + 1 \in 1..Len(s) /\ s[i + 1] = s[j]
      BY <1>0, <1>1, <2>3
    <3> QED
      BY <1>0, <2>3, <3>1
  <2>4. CASE ~(i < p) /\ ~(j < p)
    <3>1. j + 1 \in 1..Len(s) /\ i + 1 \in 1..Len(s) /\ s[i + 1] = s[j + 1]
      BY <1>0, <1>1, <2>4
    <3>2. i + 1 = j + 1
      BY <3>1
    <3> QED
      BY <1>0, <3>2
  <2> QED
    BY <2>1, <2>2, <2>3, <2>4
<1>2. ASSUME NEW i \in 1..Len(t) PROVE t[i] # s[p] /\ \E k \in 1..Len(s) : s[k] = t[i]
  <2>1. CASE i < p
    <3>1. i \in 1..Len(s) /\ i # p /\ t[i] = s[i]
      BY <1>0, <2>1
    <3> QED
      BY <3>1
  <2>2. CASE ~(i < p)
    <3>1. i + 1 \in 1..Len(s) /\ i + 1 # p /\ t[i] = s[i + 1]
      BY <1>0, <2>2
    <3> QED
      BY <3>1
  <2> QED
    BY <2>1, <2>2
<1>3. ASSUME NEW i \in 1..Len(s), s[i] # s[p] PROVE \E k \in 1..Len(t) : t[k] = s[i]
  <2>1. CASE i < p
    <3>1. i \in 1..Len(t) /\ t[i] = s[i]
      BY <1>0, <2>1
    <3> QED
      BY <3>1
  <2>2. CASE ~(i < p)
    <3>1. i # p
      BY <1>3
    <3>2. i - 1 \in 1..Len(t) /\ ~(i - 1 < p)
      BY <1>0, <2>2, <3>1
    <3>3. t[i - 1] = s[(i - 1) + 1] /\ (i - 1) + 1 = i
      BY <1>0, <3>2
    <3> QED
      BY <3>2, <3>3
  <2> QED
    BY <2>1, <2>2
<1>4. ASSUME NEW e
      PROVE  (\E i \in 1..Len(t) : t[i] = e) <=> e # s[p] /\ (\E i \in 1..Len(s) : s[i] = e)
  <2>1. ASSUME NEW i \in 1..Len(t), t[i] = e PROVE e # s[p] /\ \E k \in 1..Len(s) : s[k] = e
    BY <1>2, <2>1
  <2>2. ASSUME e # s[p], NEW i \in 1..Len(s), s[i] = e PROVE \E k \in 1..Len(t) : t[k] = e
    BY <1>3, <2>2
  <2> QED
    BY <2>1, <2>2
<1> QED
  BY <1>1, <1>4

\* The board d leaves the list, and its structure is freed.
Leaves(d) ==
  /\ op[d].task = "deactivate" /\ op[d].at <= BOARD_NUM_ASSIGNED
  /\ \A f \in Files : file[f].board # d
  /\ \E p \in 1..Len(list) : list[p] = d /\ Without(list, p, list')
  /\ alive' = alive \ {d} /\ cdevs' = cdevs \ {d} /\ nodes' = nodes \ {d}
  /\ op' = [op EXCEPT ![d] = Idle]
  /\ class' \in {"none", "made", "failed"} /\ (list' # <<>> => class' = class)
  /\ UNCHANGED <<module, region, level, number, msix, hw, open_count, file>>
  /\ misuse' \subseteq {"down", "no_class"}

\* A board that leaves holds nothing any more, and no file is open on it.
LEMMA BoardLeaves == ASSUME Inv, NEW d \in Devices, Leaves(d) PROVE Inv'
<1> USE DEF Leaves
<1>0. TypeOK /\ ListIsAlive
  BY DEF Inv
<1>1. /\ d \in Actors /\ BoardOf(d) = d /\ Idle \in Op /\ Idle.task = "idle"
      /\ d \notin Files
  BY <1>0, ActorFacts
<1>2. /\ Busy(d) /\ (\A c \in Actors : Busy(c) => c = d) /\ op[d] \in Op /\ op \in [Actors -> Op]
      /\ d \in alive /\ BoardAt(d)
  BY <1>1, CallFacts
<1>3. \A c \in Actors : ~Busy(c)'
  BY <1>2 DEF Busy
<1>4. msix[d] \in BOOLEAN /\ cdevs \subseteq alive /\ alive \subseteq Devices
  BY <1>0, <1>2, BoardFacts DEF ListIsAlive, TypeOK
<1>5. hw[d] = {}
  <2>1. hw[d] = HeldAt(op[d].at, msix[d]) /\ op[d].at \in Levels
    BY <1>1, <1>2 DEF BoardAt, Rung, Op
  <2>2. op[d].at = 0 \/ op[d].at = 1
    BY <2>1, LevelValues
  <2> QED
    BY <2>1, <2>2, HeldBelow
<1>6. /\ \A i, j \in DOMAIN list' : list'[i] = list'[j] => i = j
      /\ \A e \in Devices : InList(e)' <=> e \in alive'
  <2>1. PICK p \in 1..Len(list) : list[p] = d /\ Without(list, p, list')
    OBVIOUS
  <2>2. DOMAIN list' = 1..Len(list') /\ DOMAIN list = 1..Len(list)
    BY <2>1 DEF Without
  <2>3. Once(list)
    BY <1>0, <2>2 DEF ListIsAlive, Once
  <2>4. Once(list') /\ \A e : Occurs(e, list') <=> e # list[p] /\ Occurs(e, list)
    <3> HIDE DEF Leaves
    <3> QED
      BY <2>1, <2>3, WithoutOne
  <2>5. \A e \in Devices : Occurs(e, list) <=> e \in alive
    BY <1>0, <2>2 DEF ListIsAlive, InList, Occurs
  <2>6. \A e \in Devices : InList(e)' <=> Occurs(e, list')
    BY <2>2 DEF InList, Occurs
  <2>7. \A e \in Devices : InList(e)' <=> e \in alive'
    BY <2>1, <2>4, <2>5, <2>6
  <2> QED
    BY <2>2, <2>4, <2>7 DEF Once
<1>7. TypeOK'
  BY <1>0, <1>1, <1>2 DEF TypeOK, Without
<1>8. OneInv'
  BY <1>3 DEF OneInv
<1>9. LadderInv'
  <2>1. ASSUME NEW e \in alive' PROVE Rest(level'[e], hw'[e], msix'[e])
    <3>1. e \in alive /\ \A c \in Actors : Busy(c) => BoardOf(c) # e
      BY <1>1, <1>2
    <3>2. Rest(level[e], hw[e], msix[e])
      BY <3>1 DEF Inv, LadderInv
    <3> QED
      BY <3>2
  <2> QED
    BY <1>3, <2>1 DEF LadderInv
<1>10. CallInv'
  <2>1. alive' \ cdevs' = {}
    BY <1>2, <1>4 DEF Inv, CallInv, Actors
  <2>2. \A e \in Devices \cup Files : ~Busy(e)'
    BY <1>3 DEF Actors
  <2> QED
    BY <2>1, <2>2 DEF CallInv
<1>11. ListIsAlive'
  <2>1. \A e \in Devices \ alive' : hw'[e] = {} /\ e \notin cdevs'
    BY <1>0, <1>5 DEF ListIsAlive
  <2> QED
    BY <1>6, <2>1 DEF ListIsAlive
<1>12. NumberInv'
  <2>1. NumberInv
    BY DEF Inv
  <2>2. \A c \in Actors : op'[c].task # "assign"
    BY <1>1, <1>3 DEF Busy
  <2> QED
    BY <2>1, <2>2 DEF NumberInv
<1>13. FileInv'
  <2>1. FileInv
    BY DEF Inv
  <2> QED
    BY <2>1 DEF FileInv, OpenFiles
<1>14. ModuleInv'
  <2>1. alive' # {} => class' = class
    <3>1. SUFFICES ASSUME alive' # {} PROVE list' # <<>>
      OBVIOUS
    <3>2. PICK e \in Devices : e \in alive'
      BY <1>4, <3>1
    <3>3. PICK i \in DOMAIN list' : list'[i] = e
      BY <1>6, <3>2 DEF InList
    <3> QED
      BY <3>3
  <2>2. nodes' \subseteq cdevs' /\ cdevs' \subseteq alive'
    BY <1>4 DEF Inv, ModuleInv
  <2> QED
    BY <1>4, <2>1, <2>2 DEF Inv, ModuleInv
<1> QED
  BY <1>7, <1>8, <1>9, <1>10, <1>11, <1>12, <1>13, <1>14 DEF Inv

\* Where a board of the list is, and what is left of the list without it.
LEMMA UnlinkFacts ==
  ASSUME Inv, NEW d \in alive
  PROVE  /\ Place(d) \in 1..Len(list) /\ list[Place(d)] = d
         /\ Without(list, Place(d), Unlinked(d))
         /\ list[1] = d => Unlinked(d) = After(d)
<1> DEFINE p == Place(d)
           u == SubSeq(list, 1, p - 1)
           v == SubSeq(list, p + 1, Len(list))
<1>1. list \in Seq(Devices) /\ Len(list) \in Nat /\ DOMAIN list = 1..Len(list) /\ InList(d)
  BY DEF Inv, TypeOK, ListIsAlive
<1>2. p \in 1..Len(list) /\ list[p] = d
  BY <1>1 DEF InList, Place
<1>3. After(d) = v
  BY <1>1 DEF After
<1>4. Unlinked(d) = u \o v
  BY <1>3 DEF Unlinked
<1> HIDE DEF p
<1>5. \A i \in 1..Len(list) : list[i] \in Devices
  BY <1>1
<1>6. /\ u \in Seq(Devices) /\ Len(u) = p - 1
      /\ \A i \in 1..(p - 1) : u[i] = list[i]
  BY <1>1, <1>2, <1>5
<1>7. /\ v \in Seq(Devices) /\ Len(v) = Len(list) - p
      /\ \A i \in 1..(Len(list) - p) : v[i] = list[p + i]
  <2> DEFINE m == p + 1
             n == Len(list)
  <2>1. m \in Int /\ n \in Int /\ \A i \in m..n : list[i] \in Devices
    BY <1>1, <1>2, <1>5
  <2>2. v = SubSeq(list, m, n)
    OBVIOUS
  <2> HIDE DEF m, n, v
  <2>3. /\ SubSeq(list, m, n) \in Seq(Devices)
        /\ Len(SubSeq(list, m, n)) = IF m <= n THEN n - m + 1 ELSE 0
        /\ \A i \in 1..(n - m + 1) : SubSeq(list, m, n)[i] = list[m + i - 1]
    BY <2>1, SubSeqProperties
  <2>4. n - m + 1 = Len(list) - p /\ (m <= n <=> p < Len(list))
    BY <1>1, <1>2 DEF m, n
  <2>5. \A i \in 1..(Len(list) - p) : m + i - 1 = p + i
    BY <1>1, <1>2 DEF m
  <2>6. Len(v) = Len(list) - p
    <3>1. p <= Len(list) /\ p \in Int /\ Len(list) \in Int
      BY <1>1, <1>2
    <3>2. (IF m <= n THEN n - m + 1 ELSE 0) = Len(list) - p
      BY <2>1, <2>4, <3>1
    <3> QED
      BY <2>2, <2>3, <3>2, Zenon
  <2> QED
    BY <2>3, <2>4, <2>5, <2>6, <2>2
<1> HIDE DEF u, v
<1>8. /\ u \o v \in Seq(Devices) /\ Len(u \o v) = Len(list) - 1
      /\ \A i \in 1..(Len(list) - 1) : (u \o v)[i] = IF i < p THEN list[i] ELSE list[i + 1]
  <2>1. /\ u \o v \in Seq(Devices) /\ Len(u \o v) = Len(u) + Len(v)
        /\ \A i \in 1..(Len(u) + Len(v)) :
             (u \o v)[i] = IF i <= Len(u) THEN u[i] ELSE v[i - Len(u)]
    BY <1>6, <1>7, ConcatProperties
  <2>2. Len(u) + Len(v) = Len(list) - 1
    BY <1>1, <1>2, <1>6, <1>7
  <2>3. ASSUME NEW i \in 1..(Len(list) - 1)
        PROVE  (u \o v)[i] = IF i < p THEN list[i] ELSE list[i + 1]
    <3>1. CASE i < p
      BY <1>1, <1>2, <1>6, <1>7, <2>1, <2>2, <3>1
    <3>2. CASE ~(i < p)
      <4>1. i - Len(u) \in 1..(Len(list) - p) /\ p + (i - Len(u)) = i + 1 /\ ~(i <= Len(u))
        BY <1>1, <1>2, <1>6, <3>2
      <4> QED
        BY <1>7, <2>1, <2>2, <3>2, <4>1
    <3> QED
      BY <3>1, <3>2
  <2> QED
    BY <2>1, <2>2, <2>3
<1>9. Without(list, p, Unlinked(d))
  BY <1>1, <1>2, <1>4, <1>8 DEF Without
<1>10. ASSUME list[1] = d PROVE Unlinked(d) = After(d)
  <2>1. p = 1
    BY <1>1, <1>2, <1>10 DEF Inv, ListIsAlive
  <2>2. u = <<>>
    BY <1>6, <2>1
  <2> QED
    BY <1>3, <1>4, <1>7, <2>2
<1> QED
  BY <1>2, <1>9, <1>10 DEF p

\* A probe that fails takes its board off the head of the list, where it is still.
LEMMA ProbeFailsStep == ASSUME Inv, NEW d \in Devices, ProbeFails(d) PROVE Inv'
<1>1. /\ op[d].call = "probe" /\ op[d].task = "deactivate" /\ op[d].at <= BOARD_NUM_ASSIGNED
      /\ list' = After(d) /\ alive' = alive \ {d} /\ op' = [op EXCEPT ![d] = Idle]
      /\ UNCHANGED <<moduleVars, class, boardVars, cdevs, nodes, open_count, file>> /\ Touch({d}, TRUE)
  BY DEF ProbeFails
<1>2. d \in Actors
  BY ActorFacts DEF Inv
<1>3. Busy(d) /\ d \in alive
  BY <1>1, <1>2, CallFacts
<1>4. d \notin cdevs /\ list # <<>> /\ list[1] = d
  BY <1>1, <1>3 DEF Inv, CallInv
<1>5. \A f \in Files : file[f].board # d
  BY <1>4, BoardsAssumption DEF Inv, FileInv
<1>6. /\ Place(d) \in 1..Len(list) /\ list[Place(d)] = d
      /\ Without(list, Place(d), list')
  BY <1>1, <1>3, <1>4, UnlinkFacts
<1>7. class' \in {"none", "made", "failed"} /\ class' = class /\ nodes' = nodes \ {d}
  BY <1>1, <1>3, <1>4 DEF Inv, TypeOK, ModuleInv
<1>8. misuse' \subseteq {"down", "no_class"}
  BY <1>1, <1>3 DEF Inv, Touch, Blame
<1>9. cdevs' = cdevs \ {d}
  BY <1>1, <1>4
<1>10. Leaves(d)
  BY <1>1, <1>5, <1>6, <1>7, <1>8, <1>9 DEF Leaves, moduleVars, boardVars
<1> QED
  BY <1>10, BoardLeaves

\* A removal unlinks its board, wherever in the list it is.
LEMMA RemoveDetachesStep == ASSUME Inv, NEW d \in Devices, RemoveDetaches(d) PROVE Inv'
<1>1. /\ op[d].call = "remove" /\ op[d].task = "deactivate" /\ op[d].at <= BOARD_NUM_ASSIGNED
      /\ list' = Unlinked(d) /\ class' = ClassAfter(list') /\ cdevs' = cdevs \ {d}
      /\ nodes' = nodes \ {d} /\ alive' = alive \ {d} /\ op' = [op EXCEPT ![d] = Idle]
      /\ UNCHANGED <<moduleVars, boardVars, open_count, file>>
      /\ Blame({d}, class # "failed", "no_class")
  BY DEF RemoveDetaches
<1>2. d \in Actors
  BY ActorFacts DEF Inv
<1>3. Busy(d) /\ d \in alive
  BY <1>1, <1>2, CallFacts
<1>4. \A f \in Files : file[f].board # d
  BY <1>1, <1>3 DEF Inv, CallInv
<1>5. /\ Place(d) \in 1..Len(list) /\ list[Place(d)] = d
      /\ Without(list, Place(d), list')
  BY <1>1, <1>3, UnlinkFacts
<1>6. class' \in {"none", "made", "failed"} /\ (list' # <<>> => class' = class)
  BY <1>1, <1>3 DEF Inv, TypeOK, ClassAfter
<1>7. misuse' \subseteq {"down", "no_class"}
  BY <1>1, <1>3 DEF Inv, Touch, Blame
<1>8. Leaves(d)
  BY <1>1, <1>4, <1>5, <1>6, <1>7 DEF Leaves, moduleVars, boardVars
<1> QED
  BY <1>8, BoardLeaves

\* The counter of a board that has just been probed is 0 already: no file can
\* be open under its number.
LEMMA CountersFresh ==
  ASSUME Inv, GoodHands, NEW d \in alive \ cdevs, level[d] # PROBED
  PROVE  [open_count EXCEPT ![number[d]] = 0] = open_count
<1> DEFINE n == number[d]
<1>1. n \in 1..NumBoards
  <2>1. n \in 0..NumBoards /\ n # 0
    BY BoardFacts, LevelValues
  <2> QED
    BY <2>1, BoardsAssumption
<1>2. OpenFiles(n) = {}
  <2>1. SUFFICES ASSUME NEW f \in OpenFiles(n) PROVE FALSE
    OBVIOUS
  <2>2. file[f].board \in cdevs /\ number[file[f].board] = n
    BY <2>1 DEF OpenFiles, Inv, FileInv
  <2>3. file[f].board \in alive
    BY <2>2 DEF Inv, ListIsAlive, TypeOK
  <2>4. n # UNASSIGNED
    BY <1>1, LevelValues
  <2> HIDE DEF n
  <2>5. file[f].board = d
    BY <2>2, <2>3, <2>4 DEF Inv, NumberInv, n
  <2> QED
    BY <2>2, <2>5
<1>3. open_count[n] = 0
  BY <1>1, <1>2, FS_EmptySet DEF Inv, FileInv
<1> QED
  BY <1>1, <1>3 DEF Inv, TypeOK

\* An active board gets its device node, or, where cdev_add fails, comes down again.
LEMMA ProbeAttachesStep == ASSUME Inv, GoodHands, NEW d \in Devices, ProbeAttaches(d) PROVE Inv'
<1>1. /\ op[d].call = "probe" /\ op[d].task = "activate" /\ op[d].at = BLUENOC_ACTIVE
      /\ open_count' = [open_count EXCEPT ![number[d]] = 0]
      /\ nodes' = nodes \/ (class = "made" /\ nodes' = nodes \cup {d})
      /\ UNCHANGED <<moduleVars, class, list, alive, boardVars, file>> /\ Touch({d}, TRUE)
  BY DEF ProbeAttaches
<1>2. d \in Actors /\ BoardOf(d) = d /\ Idle \in Op /\ Idle.task = "idle" /\ d \notin Files
  BY ActorFacts DEF Inv
<1>3. /\ Busy(d) /\ d \in alive /\ BoardAt(d) /\ (\A c \in Actors : Busy(c) => c = d)
      /\ op \in [Actors -> Op] /\ op[d] \in Op
  BY <1>1, <1>2, CallFacts
<1>4. /\ level[d] \in Levels /\ hw[d] \in SUBSET Hardware /\ msix[d] \in BOOLEAN
      /\ level = [level EXCEPT ![d] = level[d]]
      /\ msix = [msix EXCEPT ![d] = msix[d]] /\ hw = [hw EXCEPT ![d] = hw[d]]
  BY <1>3, BoardFacts
<1>5. /\ level[d] # PROBED /\ level[d] = BLUENOC_ACTIVE /\ hw[d] = HeldAt(level[d], msix[d])
  BY <1>1, <1>2, <1>3 DEF BoardAt, Rung
<1>6. d \notin cdevs
  BY <1>1, <1>3 DEF Inv, CallInv
<1>7. open_count' = open_count
  BY <1>1, <1>3, <1>5, <1>6, CountersFresh
<1>8. misuse' \subseteq {"down", "no_class"}
  BY <1>1, <1>3 DEF Touch, Blame, Inv
<1>9. CASE op' = [op EXCEPT ![d].task = "deactivate", ![d].at = level[d]]
           /\ UNCHANGED <<cdevs, nodes>>
  <2> DEFINE o == [op[d] EXCEPT !.task = "deactivate", !.at = level[d]]
  <2>1. op' = [op EXCEPT ![d] = o]
    BY <1>2, <1>3, <1>9
  <2>2. o \in Op /\ o.call = op[d].call /\ o.task = "deactivate" /\ o.at = level[d]
    BY <1>3, <1>4 DEF Op
  <2> HIDE DEF o
  <2>3. Rung(o, level[d], hw[d], msix[d])
    BY <1>4, <1>5, <2>2, TurnRung
  <2>4. GoesOn(d, d, o, level[d], msix[d], hw[d])
    BY <1>1, <1>2, <1>4, <1>7, <1>8, <1>9, <2>1, <2>2, <2>3 DEF GoesOn, boardVars
  <2> QED
    BY <1>2, <2>4, GoOn
<1>10. CASE op' = [op EXCEPT ![d] = Idle] /\ cdevs' = cdevs \cup {d}
  <2>1. \A c \in Actors : ~Busy(c)'
    BY <1>2, <1>3, <1>10 DEF Busy
  <2>2. TypeOK'
    BY <1>1, <1>2, <1>3, <1>7, <1>8, <1>10 DEF Inv, TypeOK, moduleVars, boardVars
  <2>3. OneInv'
    BY <2>1 DEF OneInv
  <2>4. LadderInv'
    <3>1. ASSUME NEW e \in alive PROVE Rest(level[e], hw[e], msix[e])
      <4>1. CASE e = d
        BY <1>5, <4>1 DEF Rest
      <4>2. CASE e # d
        <5>1. \A c \in Actors : Busy(c) => BoardOf(c) # e
          BY <1>2, <1>3, <4>2
        <5> QED
          BY <5>1 DEF Inv, LadderInv
      <4> QED
        BY <4>1, <4>2
    <3> QED
      BY <1>1, <2>1, <3>1 DEF LadderInv, boardVars
  <2>5. CallInv'
    <3>1. alive' \ cdevs' = {}
      <4>1. alive \subseteq Devices /\ Devices \subseteq Actors
        BY DEF Inv, TypeOK, Actors
      <4> QED
        BY <1>1, <1>3, <1>10, <4>1 DEF Inv, CallInv
    <3>2. \A e \in Devices \cup Files : ~Busy(e)'
      BY <2>1 DEF Actors
    <3> QED
      BY <3>1, <3>2 DEF CallInv
  <2>6. ListIsAlive'
    BY <1>1, <1>3, <1>10 DEF Inv, ListIsAlive, InList, boardVars
  <2>7. NumberInv'
    <3>1. \A c \in Actors : op'[c].task # "assign"
      BY <1>2, <2>1 DEF Busy
    <3> QED
      BY <1>1, <1>5, <1>10, <3>1 DEF Inv, NumberInv, boardVars
  <2>8. FileInv'
    BY <1>1, <1>7, <1>10 DEF Inv, FileInv, OpenFiles, boardVars
  <2>9. ModuleInv'
    BY <1>1, <1>10 DEF Inv, ModuleInv, moduleVars
  <2> QED
    BY <1>8, <2>2, <2>3, <2>4, <2>5, <2>6, <2>7, <2>8, <2>9 DEF Inv
<1> QED
  BY <1>9, <1>10 DEF ProbeAttaches
-----------------------------------------------------------------------------
(***************************************************************************)
(* Opening and closing files, and the module.                              *)
(***************************************************************************)

\* A step between calls that leaves the boards alone.
LEMMA QuietStep ==
  ASSUME Inv, \A c \in Actors : ~Busy(c),
         UNCHANGED <<class, list, alive, level, number, msix, hw, cdevs, nodes, op>>,
         misuse' \subseteq {"down", "no_class"},
         TypeOK', FileInv', ModuleInv'
  PROVE  Inv'
<1>1. \A c \in Actors : ~Busy(c)'
  BY DEF Busy
<1>2. \A c \in Devices \cup Files : ~Busy(c) /\ ~Busy(c)'
  BY <1>1 DEF Actors
<1>3. OneInv'
  BY <1>1 DEF OneInv
<1>4. LadderInv'
  BY <1>1 DEF Inv, LadderInv
<1>5. CallInv'
  <2>1. alive \ cdevs = {}
    BY <1>2 DEF Inv, CallInv, TypeOK
  <2> QED
    BY <1>2, <2>1 DEF CallInv
<1>6. ListIsAlive' /\ NumberInv'
  BY DEF Inv, ListIsAlive, InList, NumberInv
<1> QED
  BY <1>3, <1>4, <1>5, <1>6 DEF Inv

\* The kernel lets a user open a number that has a device node, and the board
\* that bluenoc_open finds is the one of that node.
LEMMA OpenStep ==
  ASSUME Inv, GoodHands, NEW f \in Files, NEW d \in Devices, bluenoc_open(f, d)
  PROVE  Inv'
<1> DEFINE n == number[d]
<1>1. /\ file[f].board = None /\ MayCall(f) /\ Touch(Listed, TRUE)
      /\ file' = [file EXCEPT ![f] = [board |-> d, minor |-> n]]
      /\ open_count' = [open_count EXCEPT ![n] = @ + 1]
      /\ UNCHANGED <<moduleVars, class, list, alive, boardVars, cdevs, nodes, op>>
  BY DEF bluenoc_open
<1>2. TypeOK /\ NumBoards \in Nat /\ n \in 0..NumBoards
  BY BoardsAssumption DEF Inv, TypeOK
<1>3. \A c \in Actors : ~Busy(c)
  BY <1>1 DEF MayCall, GoodHands, Quiet, Busy
<1>4. d \in alive
  BY DEF bluenoc_open, Inv, ListIsAlive, InList
<1>5. d \in cdevs /\ n # UNASSIGNED
  <2>1. PICK c \in cdevs : number[c] = n
    BY DEF bluenoc_open
  <2>2. c \in alive
    BY <2>1, <1>2 DEF Inv, ListIsAlive, TypeOK
  <2>3. number[c] # UNASSIGNED
    BY <2>1, <2>2 DEF Inv, NumberInv
  <2>4. c = d
    BY <1>4, <2>1, <2>2, <2>3 DEF Inv, NumberInv
  <2> QED
    BY <2>1, <2>3, <2>4
<1>6. n \in 1..NumBoards
  BY <1>2, <1>5 DEF UNASSIGNED
<1> HIDE DEF n
<1>7. misuse' \subseteq {"down", "no_class"}
  BY <1>1, ListedAlive DEF Touch, Blame, Inv
<1>8. file \in [Files -> [board : Devices \cup {None}, minor : 0..NumBoards]]
  BY <1>2 DEF TypeOK
<1>9. /\ file'[f].board = d /\ file'[f].minor = n /\ d # None
      /\ \A g \in Files \ {f} : file'[g] = file[g]
      /\ file' \in [Files -> [board : Devices \cup {None}, minor : 0..NumBoards]]
  BY <1>1, <1>2, <1>8, BoardsAssumption
<1>10. open_count \in [0..NumBoards -> Int] /\ open_count' \in [0..NumBoards -> Int]
  BY <1>1, <1>2 DEF TypeOK
<1>11. TypeOK'
  BY <1>1, <1>2, <1>7, <1>9, <1>10 DEF TypeOK, moduleVars, boardVars
<1>12. FileInv'
  <2>1. FileInv
    BY DEF Inv
  <2>2. \A g \in Files : file'[g].board # None
                           => file'[g].board \in cdevs /\ number[file'[g].board] = file'[g].minor
    BY <1>5, <1>9, <2>1 DEF FileInv, n
  <2>3. ASSUME NEW k \in 1..NumBoards PROVE open_count'[k] = Cardinality(OpenFiles(k)')
    <3>1. open_count[k] = Cardinality(OpenFiles(k)) /\ k \in 0..NumBoards
      BY <2>1 DEF FileInv
    <3>2. CASE k = n
      <4>1. OpenFiles(k)' = OpenFiles(k) \cup {f} /\ f \notin OpenFiles(k)
        BY <1>1, <1>9, <3>2 DEF OpenFiles
      <4>2. IsFiniteSet(OpenFiles(k))
        BY FS_Subset DEF GoodHands, OpenFiles
      <4>3. Cardinality(OpenFiles(k) \cup {f}) = Cardinality(OpenFiles(k)) + 1
        BY <4>1, <4>2, FS_AddElement
      <4>4. open_count'[k] = open_count[k] + 1
        BY <1>1, <1>10, <3>1, <3>2
      <4> QED
        BY <3>1, <4>1, <4>3, <4>4
    <3>3. CASE k # n
      <4>1. OpenFiles(k)' = OpenFiles(k)
        BY <1>1, <1>9, <3>3 DEF OpenFiles
      <4>2. open_count'[k] = open_count[k]
        BY <1>1, <1>10, <3>1, <3>3
      <4> QED
        BY <3>1, <4>1, <4>2
    <3> QED
      BY <3>2, <3>3
  <2> QED
    BY <1>1, <2>2, <2>3 DEF FileInv, boardVars
<1>13. ModuleInv'
  BY <1>1 DEF Inv, ModuleInv, moduleVars
<1> QED
  BY <1>1, <1>3, <1>7, <1>11, <1>12, <1>13, QuietStep DEF boardVars

\* Closing a file takes it off the counter of the number it was opened under.
LEMMA ReleaseStep ==
  ASSUME Inv, GoodHands, NEW f \in Files, bluenoc_release(f)
  PROVE  Inv'
<1> DEFINE n == file[f].minor
<1>1. /\ file[f].board # None /\ MayCall(f) /\ Touch({file[f].board}, TRUE)
      /\ file' = [file EXCEPT ![f] = [board |-> None, minor |-> 0]]
      /\ open_count' = [open_count EXCEPT ![n] = Closed(n)]
      /\ UNCHANGED <<moduleVars, class, list, alive, boardVars, cdevs, nodes, op>>
  BY DEF bluenoc_release
<1>2. TypeOK /\ NumBoards \in Nat /\ FileInv
  BY BoardsAssumption DEF Inv
<1>3. \A c \in Actors : ~Busy(c)
  BY <1>1 DEF MayCall, GoodHands, Quiet, Busy
<1>4. /\ file \in [Files -> [board : Devices \cup {None}, minor : 0..NumBoards]]
      /\ open_count \in [0..NumBoards -> Int]
  BY <1>2 DEF TypeOK
<1>5. file[f].board \in alive /\ n \in 0..NumBoards
  BY <1>1, <1>2, <1>4 DEF Inv, FileInv, ListIsAlive, TypeOK
<1> HIDE DEF n
<1>6. misuse' \subseteq {"down", "no_class"}
  BY <1>1, <1>5 DEF Touch, Blame, Inv
<1>7. /\ file'[f].board = None
      /\ \A g \in Files \ {f} : file'[g] = file[g]
      /\ file' \in [Files -> [board : Devices \cup {None}, minor : 0..NumBoards]]
  BY <1>1, <1>2, <1>4
<1>8. open_count' \in [0..NumBoards -> Int]
  BY <1>1, <1>4, <1>5 DEF Closed
<1>9. TypeOK'
  BY <1>1, <1>2, <1>6, <1>7, <1>8 DEF TypeOK, moduleVars, boardVars
<1>10. FileInv'
  <2>1. \A g \in Files : file'[g].board # None
                           => file'[g].board \in cdevs /\ number[file'[g].board] = file'[g].minor
    BY <1>2, <1>7 DEF FileInv
  <2>2. ASSUME NEW k \in 1..NumBoards PROVE open_count'[k] = Cardinality(OpenFiles(k)')
    <3>1. open_count[k] = Cardinality(OpenFiles(k)) /\ k \in 0..NumBoards
      BY <1>2 DEF FileInv
    <3>2. CASE k = n
      <4>1. OpenFiles(k)' = OpenFiles(k) \ {f} /\ f \in OpenFiles(k)
        BY <1>1, <1>7, <3>2 DEF OpenFiles, n
      <4>2. IsFiniteSet(OpenFiles(k))
        BY FS_Subset DEF GoodHands, OpenFiles
      <4>3. Cardinality(OpenFiles(k) \ {f}) = Cardinality(OpenFiles(k)) - 1
        BY <4>1, <4>2, FS_RemoveElement
      <4>4. open_count'[k] = open_count[k] - 1
        BY <1>1, <1>4, <3>1, <3>2 DEF Closed
      <4> QED
        BY <3>1, <4>1, <4>3, <4>4
    <3>3. CASE k # n
      <4>1. OpenFiles(k)' = OpenFiles(k)
        BY <1>1, <1>7, <3>3 DEF OpenFiles, n
      <4>2. open_count'[k] = open_count[k]
        BY <1>1, <1>4, <3>1, <3>3
      <4> QED
        BY <3>1, <4>1, <4>2
    <3> QED
      BY <3>2, <3>3
  <2> QED
    BY <1>1, <2>1, <2>2 DEF FileInv, boardVars
<1>11. ModuleInv'
  BY <1>1 DEF Inv, ModuleInv, moduleVars
<1> QED
  BY <1>1, <1>3, <1>6, <1>9, <1>10, <1>11, QuietStep DEF boardVars

\* Loading finds no board; the module is gone only when the last board is.
LEMMA ModuleStep == ASSUME Inv, Module PROVE Inv'
<1>0. TypeOK /\ ModuleInv
  BY DEF Inv
<1>1. CASE bluenoc_init
  <2>1. alive = {}
    BY <1>0, <1>1 DEF bluenoc_init, ModuleInv
  <2>2. \A c \in Actors : ~Busy(c)
    BY <2>1 DEF Inv, LadderInv
  <2>3. list = <<>>
    <3>1. list \in Seq(Devices) /\ \A i \in 1..Len(list) : list[i] \in Devices
      BY <1>0 DEF TypeOK
    <3>2. \A e \in Devices : ~(\E i \in 1..Len(list) : list[i] = e)
      BY <2>1, <3>1 DEF Inv, ListIsAlive, InList
    <3>3. Len(list) \in Nat /\ ~(1 \in 1..Len(list))
      BY <3>1, <3>2
    <3> QED
      BY <3>1, <3>3
  <2>4. /\ UNCHANGED <<class, list, alive, level, number, msix, hw, cdevs, nodes, open_count,
                       file, op>>
        /\ misuse' \subseteq {"down", "no_class"}
    BY <1>1, <2>3 DEF bluenoc_init, boardVars, Inv
  <2>5. TypeOK'
    <3>1. /\ list' \in Seq(Devices) /\ region' \in BOOLEAN
          /\ module' \in {"out", "in", "exiting", "gone", "failed"}
      BY <1>0, <1>1, <2>4 DEF TypeOK, bluenoc_init
    <3> QED
      BY <1>0, <2>4, <3>1 DEF TypeOK
  <2>6. FileInv'
    BY <2>4 DEF Inv, FileInv, OpenFiles
  <2>7. ModuleInv'
    BY <1>0, <1>1, <2>1, <2>4 DEF ModuleInv, bluenoc_init
  <2> QED
    BY <2>2, <2>4, <2>5, <2>6, <2>7, QuietStep
<1>2. CASE ExitBegins \/ bluenoc_exit
  <2>1. \A c \in Actors : ~Busy(c)
    BY <1>2 DEF ExitBegins, bluenoc_exit, Quiet, Busy
  <2>2. /\ UNCHANGED <<class, list, alive, level, number, msix, hw, cdevs, nodes, open_count,
                       file, op>>
        /\ misuse' \subseteq {"down", "no_class"}
    BY <1>2 DEF ExitBegins, bluenoc_exit, boardVars, Inv
  <2>3. TypeOK'
    BY <1>0, <1>2, <2>2 DEF TypeOK, ExitBegins, bluenoc_exit
  <2>4. FileInv'
    BY <2>2 DEF Inv, FileInv, OpenFiles
  <2>5. ModuleInv'
    <3>1. CASE ExitBegins
      BY <1>0, <2>2, <3>1 DEF ExitBegins, ModuleInv
    <3>2. CASE bluenoc_exit
      <4>1. cdevs \subseteq alive /\ alive \subseteq Devices
        BY <1>0 DEF Inv, ListIsAlive, TypeOK
      <4>2. cdevs = {}
        BY <3>2, <4>1 DEF bluenoc_exit, Inv, ListIsAlive
      <4>3. alive = {}
        <5>1. \A e \in alive \ cdevs : Busy(e)
          BY DEF Inv, CallInv
        <5> QED
          BY <2>1, <4>1, <4>2, <5>1 DEF Actors
      <4> QED
        BY <1>0, <2>2, <3>2, <4>2, <4>3 DEF bluenoc_exit, ModuleInv
    <3> QED
      BY <1>2, <3>1, <3>2
  <2> QED
    BY <2>1, <2>2, <2>3, <2>4, <2>5, QuietStep
<1> QED
  BY <1>1, <1>2 DEF Module
-----------------------------------------------------------------------------
\* The invariant holds to begin with.
LEMMA InitInv == Init => Inv
<1> SUFFICES ASSUME Init PROVE Inv
  OBVIOUS
<1>1. NumBoards \in Nat /\ Devices \cap Files = {}
  BY BoardsAssumption
<1>2. \A a \in Actors : op[a] = Idle
  BY DEF Init
<1>3. \A a \in Actors : ~Busy(a)
  BY <1>2 DEF Busy
<1>4. TypeOK
  <2>1. Idle \in Op /\ PROBED \in Levels /\ UNASSIGNED \in 0..NumBoards /\ 0 \in 0..NumBoards
    BY <1>1, LevelValues DEF Idle, Op
  <2>2. /\ level \in [Devices -> Levels] /\ number \in [Devices -> 0..NumBoards]
        /\ msix \in [Devices -> BOOLEAN] /\ hw \in [Devices -> SUBSET Hardware]
        /\ op \in [Actors -> Op]
    BY <2>1 DEF Init
  <2>3. /\ open_count \in [0..NumBoards -> Int]
        /\ file \in [Files -> [board : Devices \cup {None}, minor : 0..NumBoards]]
    BY <2>1 DEF Init
  <2>4. list \in Seq(Devices)
    BY DEF Init
  <2> QED
    BY <2>2, <2>3, <2>4 DEF Init, TypeOK
<1>5. OneInv /\ LadderInv
  BY <1>3 DEF Init, OneInv, LadderInv
<1>6. CallInv
  BY <1>3 DEF Init, CallInv, Actors
<1>7. ListIsAlive
  <2>1. DOMAIN list = {}
    BY DEF Init
  <2> QED
    BY <2>1 DEF Init, ListIsAlive, InList
<1>8. NumberInv
  <2>1. \A a \in Actors : op[a].task # "assign"
    BY <1>2 DEF Idle
  <2> QED
    BY <2>1 DEF Init, NumberInv
<1>9. FileInv
  <2>1. ASSUME NEW n \in 1..NumBoards PROVE open_count[n] = Cardinality(OpenFiles(n))
    <3>1. OpenFiles(n) = {}
      BY DEF Init, OpenFiles
    <3>2. open_count[n] = 0
      BY <1>1 DEF Init
    <3> QED
      BY <3>1, <3>2, FS_EmptySet
  <2>2. \A f \in Files : file[f].board = None
    BY DEF Init
  <2> QED
    BY <2>1, <2>2 DEF FileInv
<1>10. ModuleInv
  BY DEF Init, ModuleInv
<1> QED
  BY <1>4, <1>5, <1>6, <1>7, <1>8, <1>9, <1>10 DEF Init, Inv

\* Every step keeps it.
LEMMA NextInv == GoodHands /\ Inv /\ [Next]_vars => Inv'
<1> SUFFICES ASSUME GoodHands, Inv, [Next]_vars PROVE Inv'
  OBVIOUS
<1>1. CASE Module
  BY <1>1, ModuleStep
<1>2. ASSUME NEW a \in Actors, Ladder(a) PROVE Inv'
  BY <1>2, ScanStep, AssignStep, ActivateStep, ActivateFailsStep, DeactivateStep DEF Ladder
<1>3. ASSUME NEW d \in Devices, PciCore(d) PROVE Inv'
  BY <1>3, ProbeStep, ProbeAttachesStep, ProbeFailsStep, RemoveStep, RemoveDetachesStep DEF PciCore
<1>4. ASSUME NEW f \in Files, User(f) PROVE Inv'
  <2>1. CASE \E d \in Devices : bluenoc_open(f, d)
    BY <2>1, OpenStep
  <2>2. CASE bluenoc_release(f)
    BY <2>2, ReleaseStep
  <2>3. CASE IoctlDeactivate(f) \/ IoctlReactivate(f) \/ IoctlReturns(f)
    BY <2>3, IoctlDeactivateStep, IoctlReactivateStep, IoctlReturnsStep
  <2>4. CASE SoftResetBegins(f) \/ SoftResetEnds(f)
    BY <2>4, SoftResetBeginsStep, SoftResetEndsStep
  <2>5. CASE IoctlRegister(f) \/ IoctlIdentify(f)
    BY <2>5, IoctlLooksStep
  <2> QED
    BY <1>4, <2>1, <2>2, <2>3, <2>4, <2>5 DEF User
<1>5. CASE UNCHANGED vars
  <2>1. misuse' \subseteq {"down", "no_class"}
    BY <1>5 DEF vars, Inv
  <2> QED
    BY <1>5, <2>1, LooksOnly DEF vars, boardVars
<1> QED
  BY <1>1, <1>2, <1>3, <1>4, <1>5 DEF Next

\* So it holds in every state.
LEMMA Invariance == ASSUME GoodHands PROVE Spec => []Inv
<1>1. Inv /\ [Next]_vars => Inv'
  BY NextInv
<1> QED
  BY <1>1, InitInv, PTL DEF Spec
-----------------------------------------------------------------------------
(***************************************************************************)
(* The theorems.                                                           *)
(***************************************************************************)

\* Every variable keeps its type; no board is given a number outside of the
\* region of device numbers, nor is a level left that activate does not know.
THEOREM TypeCorrect == ASSUME GoodHands PROVE Spec => []TypeOK
<1>1. Inv => TypeOK
  BY DEF Inv
<1> QED
  BY <1>1, Invariance, PTL

\* Whatever fails, and wherever a file takes a board down and up again, the
\* level of a board tells exactly what the kernel and the device have given it.
THEOREM LadderIsExact == ASSUME GoodHands PROVE Spec => []LevelTellsHardware
<1>1. Inv => LevelTellsHardware
  <2> SUFFICES ASSUME Inv PROVE LevelTellsHardware
    OBVIOUS
  <2>1. ASSUME NEW d \in alive, \A a \in Actors : op[a] # Idle => BoardOf(a) # d
        PROVE  /\ level[d] \in {BOARD_NUM_ASSIGNED, BLUENOC_ACTIVE}
               /\ hw[d] = HeldAt(level[d], msix[d])
    BY <2>1 DEF Inv, LadderInv, Busy, Rest
  <2>2. ASSUME NEW a \in Actors, op[a].task \in {"activate", "deactivate"}
        PROVE  hw[BoardOf(a)] = HeldAt(op[a].at, msix[BoardOf(a)])
    BY <2>2, CallFacts DEF BoardAt, Rung
  <2> QED
    BY <2>1, <2>2 DEF LevelTellsHardware
<1> QED
  BY <1>1, Invariance, PTL

\* The list of boards holds every allocated board once, through any order of
\* probes that succeed, probes that fail, and removals.
THEOREM ListIsExact == ASSUME GoodHands PROVE Spec => []ListIsAlive
<1>1. Inv => ListIsAlive
  BY DEF Inv
<1> QED
  BY <1>1, Invariance, PTL

\* A device node leads to one board, its counter tells the files open on it,
\* and it has its class and its device number.
THEOREM NodesStaySound == ASSUME GoodHands PROVE Spec => []NodesAreSound
<1>1. Inv => NodesAreSound
  <2> SUFFICES ASSUME Inv PROVE NodesAreSound
    OBVIOUS
  <2>1. NumbersAreUnique
    <3> SUFFICES ASSUME NEW i \in DOMAIN list, NEW j \in DOMAIN list,
                        number[list[i]] = number[list[j]], number[list[i]] # UNASSIGNED
                 PROVE  i = j
      BY DEF NumbersAreUnique
    <3>1. list[i] \in alive /\ list[j] \in alive
      BY ListedAlive DEF Listed
    <3>2. list[i] = list[j]
      BY <3>1 DEF Inv, NumberInv
    <3> QED
      BY <3>2 DEF Inv, ListIsAlive
  <2>2. OpenCountIsExact
    BY DEF Inv, FileInv, OpenFiles, OpenCountIsExact
  <2>3. NodesHaveClass
    <3>1. cdevs \subseteq alive
      BY DEF Inv, TypeOK, ListIsAlive
    <3> QED
      BY <3>1 DEF Inv, ModuleInv, ListIsAlive, NodesHaveClass
  <2> QED
    BY <2>1, <2>2, <2>3 DEF NodesAreSound
<1> QED
  BY <1>1, Invariance, PTL

\* No step touches a structure that has been freed, accesses registers that are
\* not mapped or gives back what is not held, but for the register ioctls of a
\* board that is down and the class that could not be made.
THEOREM NothingIsMisused == ASSUME GoodHands PROVE Spec => []NoMisuse
<1>1. Inv => NoMisuse
  BY DEF Inv, NoMisuse
<1> QED
  BY <1>1, Invariance, PTL

\* As long as a board has its device node, no step changes its number.
THEOREM NumbersStay == ASSUME GoodHands PROVE Spec => NumberIsKept
<1>1. Inv /\ [Next]_vars => [\A d \in cdevs \cap cdevs' : number'[d] = number[d]]_vars
  <2> SUFFICES ASSUME Inv, Next PROVE \A d \in cdevs \cap cdevs' : number'[d] = number[d]
    OBVIOUS
  <2>1. CASE Module
    BY <2>1 DEF Module, bluenoc_init, ExitBegins, bluenoc_exit, boardVars
  <2>2. ASSUME NEW a \in Actors, Ladder(a)
        PROVE  \A d \in cdevs \cap cdevs' : number'[d] = number[d]
    <3>1. CASE AssignNumber(a)
      <4>1. op[a].task = "assign" /\ number' = [number EXCEPT ![BoardOf(a)] = op[a].pick]
        BY <3>1 DEF AssignNumber
      <4>2. BoardOf(a) \in alive /\ level[BoardOf(a)] = PROBED
        BY <4>1, CallFacts DEF BoardAt, Rung
      <4>3. BoardOf(a) \notin cdevs
        BY <4>2 DEF Inv, NumberInv
      <4> QED
        BY <4>1, <4>3 DEF Inv, TypeOK
    <3>2. CASE ScanNumbers(a) \/ ActivateCase(a) \/ ActivateFails(a) \/ DeactivateCase(a)
      BY <3>2 DEF ScanNumbers, ActivateCase, ActivateFails, DeactivateCase, boardVars
    <3> QED
      BY <2>2, <3>1, <3>2 DEF Ladder
  <2>3. ASSUME NEW e \in Devices, PciCore(e)
        PROVE  \A d \in cdevs \cap cdevs' : number'[d] = number[d]
    <3>1. CASE bluenoc_probe(e)
      <4>1. e \notin cdevs /\ number' = [number EXCEPT ![e] = UNASSIGNED]
        BY <3>1 DEF bluenoc_probe, Inv, ListIsAlive
      <4> QED
        BY <4>1 DEF Inv, TypeOK
    <3>2. CASE ProbeAttaches(e) \/ ProbeFails(e) \/ bluenoc_remove(e) \/ RemoveDetaches(e)
      BY <3>2 DEF ProbeAttaches, ProbeFails, bluenoc_remove, RemoveDetaches, boardVars
    <3> QED
      BY <2>3, <3>1, <3>2 DEF PciCore
  <2>4. ASSUME NEW f \in Files, User(f) PROVE number' = number
    BY <2>4 DEF User, bluenoc_open, bluenoc_release, IoctlDeactivate, IoctlReactivate,
       IoctlReturns, SoftResetBegins, SoftResetEnds, IoctlRegister, IoctlIdentify, boardVars
  <2> QED
    BY <2>1, <2>2, <2>3, <2>4 DEF Next
<1> QED
  BY <1>1, Invariance, PTL DEF Spec, NumberIsKept
=============================================================================
