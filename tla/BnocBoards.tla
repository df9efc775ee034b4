------------------------------ MODULE BnocBoards ------------------------------
(***************************************************************************)
(* The life of the boards in the BlueNoC kernel driver                     *)
(* (src/bluenoc/drivers/bluenoc.c): loading and unloading the module,      *)
(* probing and removing PCI devices, the ladder of activation levels that  *)
(* activate climbs and deactivate comes down, the list of boards, opening  *)
(* and closing the device files, and the ioctls that reset a board or take *)
(* it down and up again.                                                   *)
(*                                                                         *)
(* An actor is a thread in the driver: the PCI core's, one for each        *)
(* device, or a user's, one for each open file.  Each case of the two      *)
(* switch statements is a step, a kernel call and the assignment of the    *)
(* level after it.                                                         *)
(*                                                                         *)
(* The driver takes no lock in any of this.  What keeps it correct is how  *)
(* it is used, and two constants say how: OneAtATime and UnplugWhileOpen.  *)
(***************************************************************************)
EXTENDS Integers, Sequences, FiniteSets

CONSTANTS
  Devices,        \* the PCI devices that match the driver's ID table
  Files,          \* file descriptors of user programs
  None,           \* no board
  NumBoards,      \* NUM_BOARDS, 16 in the code
  OneAtATime,     \* do the calls into the driver never overlap?
  UnplugWhileOpen \* can a device go away while a file of it is open?

ASSUME BoardsAssumption ==
  /\ Devices \cap Files = {}
  /\ None \notin Devices
  /\ NumBoards \in Nat \ {0}
  /\ {OneAtATime, UnplugWhileOpen} \subseteq BOOLEAN

VARIABLES
  module,     \* the kernel module: out, in, exiting, gone, or failed to load
  region,     \* is the region of device numbers reserved?
  class,      \* bluenoc_class: none, made, or failed (an error in its place)
  list,       \* board_list, first board first
  alive,      \* boards whose structure is allocated
  level,      \* activation_level
  number,     \* board_number
  msix,       \* uses_msix
  hw,         \* what the kernel and the PCI device have given each board
  cdevs,      \* boards with a character device
  nodes,      \* boards with a device node
  open_count, \* the counters of open files, by board number
  file,       \* the board each file refers to, and its minor number
  op,         \* what each actor is doing in the driver
  misuse      \* history: what the last access touched that it should not have

moduleVars == <<module, region>>
boardVars  == <<level, number, msix, hw>>
vars == <<module, region, class, list, alive, level, number, msix, hw, cdevs,
          nodes, open_count, file, op, misuse>>
-----------------------------------------------------------------------------
PROBED             == 0
BOARD_NUM_ASSIGNED == 1
PCI_DEV_ENABLED    == 2
BARS_ALLOCATED     == 3
BARS_MAPPED        == 4
MAGIC_MATCH        == 5
DMA_MASK_SET       == 6
MSI_ENABLED        == 7
IRQ_ASSIGNED       == 8
MSIX_INITIALIZED   == 9
PCI_BUS_MASTER     == 10
BLUENOC_ACTIVE     == 11

Levels == PROBED..BLUENOC_ACTIVE

UNASSIGNED == 0

Hardware == {"device", "region", "mapping", "msi", "irq", "unmasked", "master", "network"}

\* What each case of activate takes, by the level at which it starts.
Acquires(l, usesMsix) ==
  CASE l = BOARD_NUM_ASSIGNED -> {"device"}
    [] l = PCI_DEV_ENABLED    -> {"region"}
    [] l = BARS_ALLOCATED     -> {"mapping"}
    [] l = DMA_MASK_SET       -> {"msi"}
    [] l = MSI_ENABLED        -> {"irq"}
    [] l = IRQ_ASSIGNED       -> IF usesMsix THEN {"unmasked"} ELSE {}
    [] l = MSIX_INITIALIZED   -> {"master"}
    [] l = PCI_BUS_MASTER     -> {"network"}
    [] OTHER                  -> {}

\* Mutant of GivesBack: pci_release_regions is forgotten.
GivesBackNoRegion(l, usesMsix) ==
  CASE l = BLUENOC_ACTIVE   -> {"network"}
    [] l = PCI_BUS_MASTER   -> {"master"}
    [] l = MSIX_INITIALIZED -> IF usesMsix THEN {"unmasked"} ELSE {}
    [] l = IRQ_ASSIGNED     -> {"irq"}
    [] l = MSI_ENABLED      -> {"msi"}
    [] l = BARS_MAPPED      -> {"mapping"}
    [] l = PCI_DEV_ENABLED  -> {"device"}
    [] OTHER                -> {}

\* What each case of deactivate gives back.
GivesBack(l, usesMsix) ==
  CASE l = BLUENOC_ACTIVE   -> {"network"}
    [] l = PCI_BUS_MASTER   -> {"master"}
    [] l = MSIX_INITIALIZED -> IF usesMsix THEN {"unmasked"} ELSE {}
    [] l = IRQ_ASSIGNED     -> {"irq"}
    [] l = MSI_ENABLED      -> {"msi"}
    [] l = BARS_MAPPED      -> {"mapping"}
    [] l = BARS_ALLOCATED   -> {"region"}
    [] l = PCI_DEV_ENABLED  -> {"device"}
    [] OTHER                -> {}

\* What must not be given back twice.  Clearing a bit of the device again, the
\* other three, does no harm.
Counted == {"device", "region", "mapping", "msi", "irq"}

\* The cases that access the board through bar0io.
ActivateReads   == {BARS_MAPPED, MAGIC_MATCH, PCI_BUS_MASTER}
DeactivateReads == {BLUENOC_ACTIVE}
MsixAccess(l, usesMsix) == usesMsix /\ l \in {IRQ_ASSIGNED, MSIX_INITIALIZED}

\* The cases of activate that have a failure branch.
CanFail == BOARD_NUM_ASSIGNED..MSI_ENABLED

Actors == Devices \cup Files

\* The board an actor works on.
BoardOf(a) == IF a \in Devices THEN a ELSE file[a].board

\* call: the entry point of the driver; task and at: the case it has come to;
\* pick: board_number, the local of activate.
Op == [call : {"none", "probe", "remove", "BNOC_DEACTIVATE", "BNOC_REACTIVATE",
               "BNOC_SOFT_RESET"},
       task : {"idle", "scan", "assign", "activate", "deactivate", "resetting"},
       at : Levels, pick : 0..NumBoards]

Idle == [call |-> "none", task |-> "idle", at |-> PROBED, pick |-> 0]

Quiet == \A a \in Actors : op[a] = Idle

\* A call into the driver may start.
MayCall(a) == op[a] = Idle /\ (OneAtATime => Quiet)

InList(d) == \E i \in DOMAIN list : list[i] = d

Listed == {list[i] : i \in DOMAIN list}

\* A step reads or writes the structures of some boards; held says whether what
\* else it relies on is there, and fault names what it is if it is not.
Blame(boards, held, fault) ==
  misuse' = (IF boards \subseteq alive THEN {} ELSE {"freed"})
              \cup (IF held THEN {} ELSE {fault})

Touch(boards, held) == Blame(boards, held, "not_held")
-----------------------------------------------------------------------------
Init ==
  /\ module = "out"
  /\ region = FALSE
  /\ class = "none"
  /\ list = <<>>
  /\ alive = {}
  /\ level = [d \in Devices |-> PROBED]
  /\ number = [d \in Devices |-> UNASSIGNED]
  /\ msix = [d \in Devices |-> FALSE]
  /\ hw = [d \in Devices |-> {}]
  /\ cdevs = {}
  /\ nodes = {}
  /\ open_count = [n \in 0..NumBoards |-> 0]
  /\ file = [f \in Files |-> [board |-> None, minor |-> 0]]
  /\ op = [a \in Actors |-> Idle]
  /\ misuse = {}
-----------------------------------------------------------------------------
(***************************************************************************)
(* Loading and unloading the module.                                       *)
(***************************************************************************)

\* Without a region of device numbers the module does not load.  The region is
\* not released when pci_register_driver fails.
bluenoc_init ==
  /\ module = "out"
  /\ \/ region' = TRUE /\ list' = <<>> /\ module' \in {"in", "failed"}
     \/ module' = "failed" /\ UNCHANGED <<region, list>>
  /\ UNCHANGED <<class, alive, boardVars, cdevs, nodes, open_count,
                 file, op, misuse>>

\* An open file holds a reference to the module.  pci_unregister_driver calls
\* bluenoc_remove for every bound device before it returns.
ExitBegins ==
  /\ module = "in"
  /\ \A f \in Files : file[f].board = None
  /\ Quiet
  /\ module' = "exiting"
  /\ UNCHANGED <<region, class, list, alive, boardVars, cdevs, nodes, open_count, file,
                 op, misuse>>

bluenoc_exit ==
  /\ module = "exiting"
  /\ \A d \in cdevs : ~InList(d)
  /\ Quiet
  /\ region' = FALSE
  /\ module' = "gone"
  /\ UNCHANGED <<class, list, alive, boardVars, cdevs, nodes, open_count,
                 file, op, misuse>>
-----------------------------------------------------------------------------
(***************************************************************************)
(* activate and deactivate, a case at a time.                              *)
(***************************************************************************)

\* activate enters its switch at the board's level; the first case looks for
\* the lowest number that no board of the list has.
EnterActivate(b) ==
  [task |-> IF level[b] = PROBED THEN "scan" ELSE "activate", at |-> level[b]]

\* Mutant of Collision: only the first board of the list is looked at.
CollisionAtHead(n) == list # <<>> /\ number[list[1]] = n

\* A number is taken when a board of the list has it.
Collision(n) == \E i \in DOMAIN list : number[list[i]] = n

FirstFree(n) ==
  /\ n \in 1..(NumBoards + 1)
  /\ n <= NumBoards => ~Collision(n)
  /\ \A k \in 1..(n - 1) : Collision(k)

\* Mutant of NoneFree: the bound is off by one.
NoneFreeOffByOne(n) == n > NumBoards + 1

NoneFree(n) == n > NumBoards

ScanNumbers(a) ==
  /\ op[a].task = "scan"
  /\ \E n \in 1..(NumBoards + 1) :
       /\ FirstFree(n)
       /\ IF NoneFree(n)
          THEN op' = [op EXCEPT ![a].task = "deactivate", ![a].at = level[BoardOf(a)]]
          ELSE op' = [op EXCEPT ![a].task = "assign", ![a].pick = n]
  /\ Touch(Listed \cup {BoardOf(a)}, TRUE)
  /\ UNCHANGED <<moduleVars, class, list, alive, boardVars, cdevs, nodes,
                 open_count, file>>

AssignNumber(a) ==
  LET b == BoardOf(a) IN
  /\ op[a].task = "assign"
  /\ number' = [number EXCEPT ![b] = op[a].pick]
  /\ level' = [level EXCEPT ![b] = BOARD_NUM_ASSIGNED]
  /\ op' = [op EXCEPT ![a].task = "activate", ![a].at = BOARD_NUM_ASSIGNED,
                      ![a].pick = 0]
  /\ Touch({b}, TRUE)
  /\ UNCHANGED <<moduleVars, class, list, alive, msix, hw, cdevs, nodes,
                 open_count, file>>

\* A case that succeeds takes its resource, raises the level and falls through.
\* MSI-X is tried before MSI.
ActivateCase(a) ==
  LET b == BoardOf(a)
      l == op[a].at
  IN
  /\ op[a].task = "activate"
  /\ l \in BOARD_NUM_ASSIGNED..PCI_BUS_MASTER
  /\ IF l = DMA_MASK_SET
     THEN \E m \in BOOLEAN : msix' = [msix EXCEPT ![b] = m]
     ELSE UNCHANGED msix
  /\ hw' = [hw EXCEPT ![b] = @ \cup Acquires(l, msix[b])]
  /\ level' = [level EXCEPT ![b] = l + 1]
  /\ op' = [op EXCEPT ![a].at = l + 1]
  /\ Touch({b}, l \in ActivateReads \/ MsixAccess(l, msix[b]) => "mapping" \in hw[b])
  /\ UNCHANGED <<moduleVars, class, list, alive, number, cdevs, nodes,
                 open_count, file>>

\* A case that fails calls deactivate, which enters its switch at the level
\* reached so far, and returns an error.
ActivateFails(a) ==
  LET b == BoardOf(a) IN
  /\ op[a].task = "activate"
  /\ op[a].at \in CanFail
  /\ op' = [op EXCEPT ![a].task = "deactivate", ![a].at = level[b]]
  /\ Touch({b}, op[a].at = BARS_MAPPED => "mapping" \in hw[b])
  /\ UNCHANGED <<moduleVars, class, list, alive, boardVars, cdevs, nodes,
                 open_count, file>>

\* Mutants of LevelAfter: the level is not set, or set too low.
LevelAfterKept(l, current) == current
LevelAfterProbed(l, current) == IF l = PCI_DEV_ENABLED THEN PROBED ELSE current

LevelAfter(l, current) == IF l = PCI_DEV_ENABLED THEN BOARD_NUM_ASSIGNED ELSE current

\* A case of deactivate falls through to the one below; the last of them that
\* does anything, and none before it, sets the level.
DeactivateCase(a) ==
  LET b == BoardOf(a)
      l == op[a].at
  IN
  /\ op[a].task = "deactivate"
  /\ l >= PCI_DEV_ENABLED
  /\ hw' = [hw EXCEPT ![b] = @ \ GivesBack(l, msix[b])]
  /\ level' = [level EXCEPT ![b] = LevelAfter(l, @)]
  /\ op' = [op EXCEPT ![a].at = l - 1]
  /\ Touch({b}, /\ GivesBack(l, msix[b]) \cap Counted \subseteq hw[b]
                /\ l \in DeactivateReads \/ MsixAccess(l, msix[b]) => "mapping" \in hw[b])
  /\ UNCHANGED <<moduleVars, class, list, alive, number, msix, cdevs, nodes,
                 open_count, file>>
-----------------------------------------------------------------------------
(***************************************************************************)
(* Probe and remove.                                                       *)
(***************************************************************************)

\* A device is bound while its probe has succeeded and it has not been removed.
\* A probe without memory for the structure returns before it changes anything.
\* The result of class_create is not looked at, and an error is as good as a class
\* to the probes that follow.
bluenoc_probe(d) ==
  /\ module = "in"
  /\ d \notin alive
  /\ MayCall(d)
  /\ IF class = "none" THEN class' \in {"made", "failed"} ELSE UNCHANGED class
  /\ alive' = alive \cup {d}
  /\ level' = [level EXCEPT ![d] = PROBED]
  /\ number' = [number EXCEPT ![d] = UNASSIGNED]
  /\ list' = <<d>> \o list
  /\ op' = [op EXCEPT ![d] = [Idle EXCEPT !.call = "probe", !.task = "scan"]]
  /\ UNCHANGED <<moduleVars, msix, hw, cdevs, nodes, open_count, file, misuse>>

\* The board is active: its counter is reset and its character device added.  The
\* result of device_create, which makes no node without a class, is not looked at.
ProbeAttaches(d) ==
  /\ op[d].call = "probe"
  /\ op[d].task = "activate"
  /\ op[d].at = BLUENOC_ACTIVE
  /\ open_count' = [open_count EXCEPT ![number[d]] = 0]
  /\ \/ /\ cdevs' = cdevs \cup {d}
        /\ \/ class = "made" /\ nodes' = nodes \cup {d}
           \/ UNCHANGED nodes
        /\ op' = [op EXCEPT ![d] = Idle]
     \/ /\ op' = [op EXCEPT ![d].task = "deactivate", ![d].at = level[d]]
        /\ UNCHANGED <<cdevs, nodes>>
  /\ Touch({d}, TRUE)
  /\ UNCHANGED <<moduleVars, class, list, alive, boardVars, file>>

\* Mutant of After: the board that failed stays in the list.
AfterForgotten(d) == list

Place(d) == CHOOSE i \in DOMAIN list : list[i] = d

\* What follows a board in the list; the whole of what is left when the board
\* at its head is taken off.
After(d) == IF InList(d) THEN SubSeq(list, Place(d) + 1, Len(list)) ELSE <<>>

\* "remove the board from the list": board_list = this_board->next.
ProbeFails(d) ==
  /\ op[d].call = "probe"
  /\ op[d].task = "deactivate"
  /\ op[d].at <= BOARD_NUM_ASSIGNED
  /\ list' = After(d)
  /\ alive' = alive \ {d}
  /\ op' = [op EXCEPT ![d] = Idle]
  /\ Touch({d}, TRUE)
  /\ UNCHANGED <<moduleVars, class, boardVars, cdevs, nodes,
                 open_count, file>>

\* A device goes away, or is unbound, or the module is unloaded.  A board that
\* is not in the list is not found, and remove returns.
bluenoc_remove(d) ==
  /\ module \in {"in", "exiting"}
  /\ d \in cdevs
  /\ MayCall(d)
  /\ UnplugWhileOpen \/ \A f \in Files : file[f].board # d
  /\ InList(d)
  /\ op' = [op EXCEPT ![d] = [Idle EXCEPT !.call = "remove", !.task = "deactivate",
                                          !.at = level[d]]]
  /\ Touch(Listed, TRUE)
  /\ UNCHANGED <<moduleVars, class, list, alive, boardVars, cdevs, nodes,
                 open_count, file>>

\* Mutant of Unlinked: the board that is removed stays in the list.
UnlinkedForgotten(d) == list

\* The list without a board: prev_board->next = this_board->next.
Unlinked(d) == SubSeq(list, 1, Place(d) - 1) \o After(d)

\* Mutant of ClassAfter: every board takes the class with it.
ClassAfterAny(remaining) == "none"

ClassAfter(remaining) == IF remaining = <<>> THEN "none" ELSE class

\* After deactivate: the device node, the character device and the structure
\* go, and the class goes with the last board.  device_destroy is given whatever
\* class_create has returned.
RemoveDetaches(d) ==
  /\ op[d].call = "remove"
  /\ op[d].task = "deactivate"
  /\ op[d].at <= BOARD_NUM_ASSIGNED
  /\ list' = Unlinked(d)
  /\ class' = ClassAfter(list')
  /\ cdevs' = cdevs \ {d}
  /\ nodes' = nodes \ {d}
  /\ alive' = alive \ {d}
  /\ op' = [op EXCEPT ![d] = Idle]
  /\ Blame({d}, class # "failed", "no_class")
  /\ UNCHANGED <<moduleVars, boardVars, open_count, file>>
-----------------------------------------------------------------------------
(***************************************************************************)
(* Files.                                                                  *)
(***************************************************************************)

\* The kernel opens a device file only while its character device is there and
\* the module is not being unloaded; bluenoc_open then takes the first board of
\* the list with that number.
bluenoc_open(f, d) ==
  /\ module = "in"
  /\ file[f].board = None
  /\ MayCall(f)
  /\ \E c \in cdevs : number[c] = number[d]
  /\ \E i \in DOMAIN list :
       /\ list[i] = d
       /\ \A j \in 1..(i - 1) : number[list[j]] # number[d]
  /\ file' = [file EXCEPT ![f] = [board |-> d, minor |-> number[d]]]
  /\ open_count' = [open_count EXCEPT ![number[d]] = @ + 1]
  /\ Touch(Listed, TRUE)
  /\ UNCHANGED <<moduleVars, class, list, alive, boardVars, cdevs, nodes, op>>

\* Mutant of Closed: the counter only goes up.
ClosedForgotten(n) == open_count[n]

Closed(n) == open_count[n] - 1

bluenoc_release(f) ==
  /\ file[f].board # None
  /\ MayCall(f)
  /\ open_count' = [open_count EXCEPT ![file[f].minor] = Closed(file[f].minor)]
  /\ file' = [file EXCEPT ![f] = [board |-> None, minor |-> 0]]
  /\ Touch({file[f].board}, TRUE)
  /\ UNCHANGED <<moduleVars, class, list, alive, boardVars, cdevs, nodes, op>>

\* The ioctls of a file, but for those of the debug level.
Ioctl(f) == file[f].board # None /\ MayCall(f)

IoctlDeactivate(f) ==
  LET b == file[f].board IN
  /\ Ioctl(f)
  /\ op' = [op EXCEPT ![f] = [Idle EXCEPT !.call = "BNOC_DEACTIVATE",
                                          !.task = "deactivate", !.at = level[b]]]
  /\ Touch({b}, TRUE)
  /\ UNCHANGED <<moduleVars, class, list, alive, boardVars, cdevs, nodes,
                 open_count, file>>

IoctlReactivate(f) ==
  LET b == file[f].board IN
  /\ Ioctl(f)
  /\ op' = [op EXCEPT ![f] = [Idle EXCEPT !.call = "BNOC_REACTIVATE",
                                          !.task = EnterActivate(b).task,
                                          !.at = level[b]]]
  /\ Touch({b}, TRUE)
  /\ UNCHANGED <<moduleVars, class, list, alive, boardVars, cdevs, nodes,
                 open_count, file>>

\* Both end when their switch has been gone through; BNOC_REACTIVATE returns 0
\* whatever activate has returned.
IoctlReturns(f) ==
  /\ \/ op[f].task = "deactivate" /\ op[f].at <= BOARD_NUM_ASSIGNED
     \/ op[f].task = "activate" /\ op[f].at = BLUENOC_ACTIVE
  /\ op' = [op EXCEPT ![f] = Idle]
  /\ UNCHANGED <<moduleVars, class, list, alive, boardVars, cdevs, nodes, open_count,
                 file, misuse>>

\* BNOC_SOFT_RESET on an active board: the network goes down, and after 100 ms
\* up again.
SoftResetBegins(f) ==
  LET b == file[f].board IN
  /\ Ioctl(f)
  /\ level[b] = BLUENOC_ACTIVE
  /\ hw' = [hw EXCEPT ![b] = @ \ {"network"}]
  /\ op' = [op EXCEPT ![f] = [Idle EXCEPT !.call = "BNOC_SOFT_RESET", !.task = "resetting"]]
  /\ Touch({b}, "mapping" \in hw[b])
  /\ UNCHANGED <<moduleVars, class, list, alive, level, number, msix, cdevs,
                 nodes, open_count, file>>

SoftResetEnds(f) ==
  LET b == file[f].board IN
  /\ op[f].task = "resetting"
  /\ hw' = [hw EXCEPT ![b] = @ \cup {"network"}]
  /\ op' = [op EXCEPT ![f] = Idle]
  /\ Touch({b}, "mapping" \in hw[b])
  /\ UNCHANGED <<moduleVars, class, list, alive, level, number, msix, cdevs,
                 nodes, open_count, file>>

\* The ioctls that read or write one register of the board.  None of them looks at
\* the activation level, and a user need not have asked for it: the clock mode of
\* the bluenoc tool does not.
IoctlRegister(f) ==
  LET b == file[f].board IN
  /\ Ioctl(f)
  /\ Blame({b}, "mapping" \in hw[b], "down")
  /\ UNCHANGED <<moduleVars, class, list, alive, boardVars, cdevs, nodes, open_count,
                 file, op>>

\* BNOC_IDENTIFY reads the board's structure and answers at any level.
IoctlIdentify(f) ==
  /\ Ioctl(f)
  /\ Touch({file[f].board}, TRUE)
  /\ UNCHANGED <<moduleVars, class, list, alive, boardVars, cdevs, nodes, open_count,
                 file, op>>
-----------------------------------------------------------------------------
Ladder(a) == ScanNumbers(a) \/ AssignNumber(a) \/ ActivateCase(a) \/ ActivateFails(a)
               \/ DeactivateCase(a)

PciCore(d) == bluenoc_probe(d) \/ ProbeAttaches(d) \/ ProbeFails(d)
                \/ bluenoc_remove(d) \/ RemoveDetaches(d)

User(f) ==
  \/ \E d \in Devices : bluenoc_open(f, d)
  \/ bluenoc_release(f)
  \/ IoctlDeactivate(f) \/ IoctlReactivate(f) \/ IoctlReturns(f)
  \/ SoftResetBegins(f) \/ SoftResetEnds(f)
  \/ IoctlRegister(f) \/ IoctlIdentify(f)

Module == bluenoc_init \/ ExitBegins \/ bluenoc_exit

Next ==
  \/ Module
  \/ \E a \in Actors : Ladder(a)
  \/ \E d \in Devices : PciCore(d)
  \/ \E f \in Files : User(f)

Spec == Init /\ [][Next]_vars
-----------------------------------------------------------------------------
\* Every variable has its type; in particular no board gets a number for which
\* no device number is reserved.
TypeOK ==
  /\ module \in {"out", "in", "exiting", "gone", "failed"}
  /\ region \in BOOLEAN
  /\ class \in {"none", "made", "failed"}
  /\ list \in Seq(Devices)
  /\ alive \in SUBSET Devices
  /\ level \in [Devices -> Levels]
  /\ number \in [Devices -> 0..NumBoards]
  /\ msix \in [Devices -> BOOLEAN]
  /\ hw \in [Devices -> SUBSET Hardware]
  /\ cdevs \in SUBSET Devices
  /\ nodes \in SUBSET Devices
  /\ open_count \in [0..NumBoards -> Int]
  /\ file \in [Files -> [board : Devices \cup {None}, minor : 0..NumBoards]]
  /\ op \in [Actors -> Op]
  /\ misuse \in SUBSET {"freed", "not_held", "down", "no_class"}

\* What a board holds once the cases of activate below a level are through.
HeldAt(l, usesMsix) == UNION {Acquires(k, usesMsix) : k \in 0..(l - 1)}

\* Where calls do not overlap and no board is removed while a file of it is open,
\* the level of a board tells what it holds, exactly: between calls it is fully
\* active or fully down, and within a call the two switches go through the same
\* ladder, so that wherever activate fails deactivate gives back what was taken.
LevelTellsHardware ==
  /\ \A d \in alive :
       (\A a \in Actors : op[a] # Idle => BoardOf(a) # d)
         => /\ level[d] \in {BOARD_NUM_ASSIGNED, BLUENOC_ACTIVE}
            /\ hw[d] = HeldAt(level[d], msix[d])
  /\ \A a \in Actors :
       op[a].task \in {"activate", "deactivate"}
         => hw[BoardOf(a)] = HeldAt(op[a].at, msix[BoardOf(a)])

\* Where calls do not overlap, the list holds every allocated board once and no
\* other, and a device that has no board holds no hardware and has no device file.
ListIsAlive ==
  /\ \A i, j \in DOMAIN list : list[i] = list[j] => i = j
  /\ \A d \in Devices : InList(d) <=> d \in alive
  /\ \A d \in Devices \ alive : hw[d] = {} /\ d \notin cdevs

\* No two boards have the same number, so a device file leads to one board.
NumbersAreUnique ==
  \A i, j \in DOMAIN list :
    number[list[i]] = number[list[j]] /\ number[list[i]] # UNASSIGNED => i = j

\* Each counter counts the files open under its number, and each open file
\* leads to a board whose device file has that number.
OpenCountIsExact ==
  /\ \A n \in 1..NumBoards :
       open_count[n] = Cardinality({f \in Files : file[f].board # None /\ file[f].minor = n})
  /\ \A f \in Files :
       file[f].board # None => file[f].board \in cdevs /\ number[file[f].board] = file[f].minor

\* While a board has a device file it keeps its number, down and up again, where
\* calls do not overlap.
NumberIsKept == [][\A d \in cdevs \cap cdevs' : number'[d] = number[d]]_vars

\* As long as a board has a device node, it has the character device behind it,
\* the class the node belongs to exists and its device number is reserved,
\* whichever of the boards came first or has gone.
NodesHaveClass ==
  /\ nodes \subseteq cdevs
  /\ nodes # {} => class = "made" /\ region

\* Whatever the order of opens, closes, probes and removals, as long as they do
\* not overlap and no board is removed while a file of it is open, a device node leads
\* to one board, its counter tells the files open on it, and it has the class
\* and the device number it was made with.
NodesAreSound == NumbersAreUnique /\ OpenCountIsExact /\ NodesHaveClass

\* Where calls do not overlap and no board is removed while a file of it is open,
\* no call, however the calls before it have ended, touches what has been freed
\* or unmapped or gives back what it does not hold, but for two things the driver
\* does not look at: a register ioctl reaches for the registers of a board that
\* has been taken down, and a removal hands device_destroy a class that
\* class_create has failed to make.
NoMisuse == misuse \subseteq {"down", "no_class"}
=============================================================================
