# TLA+ specifications of the GFE software

This directory models the parts of the BESSPIN GFE 2019 repository whose
correctness depends on the order in which things happen, on how a message is cut
into pieces, or on arithmetic at the limits of a register: the BlueNoC kernel driver, the
user tool and the clock generator it programs, the JTAG bridge of the Verilator simulators,
their debug client, and the parallel regression runner. Each module is translated from the
C, C++, Verilog or Python source. TLC checks it on small instances, and TLAPS proves the most
important results for instances of every size.

`PROJECT.json` gives, for every definition that models code, the lines it stands
for; the runs; the hazards and the properties that answer them; and the mutants,
small plausible bugs (kept in the modules next to the definition they replace,
under a comment that begins with "Mutant of") with which each property fails.

## 1. Inventory

| Component | Sources | State it keeps | Operations | What makes it hard | Modules |
|---|---|---|---|---|---|
| BlueNoC driver, transfers | `src/bluenoc/drivers/bluenoc.c` | two mutexes, one cached DMA status, one wait queue, per-call locals | `bluenoc_read`, `bluenoc_write`, `intr_handler`, `update_dma_buffer_status`, `clear_dma_status` | threads, an interrupt handler and a device interleave; signals end waits; a message may end early | `BnocDma`, `DmaTransfer`, `BnocDmaProofs` |
| BlueNoC driver, boards | the same, `bluenoc.h` | `board_list`, activation level, board number, udev class, counters of open files | module init and exit, probe, remove, `activate`, `deactivate`, open, release, ioctls | twelve levels with an error path each; no lock at all | `BnocBoards`, `BnocBoardsProofs` |
| `bluenoc` user tool | `src/bluenoc/bluenoc/bluenoc.c` | the command line taken apart, the files left, an exit code | twelve modes over the ioctls | a list of files of which some fail; what it has asked for may change before it acts | `BnocTool`, `BnocToolProofs`, `LeastNumber` |
| Clock generator | `src/bluenoc/bluenoc/clocking.cpp`, `clocking.h` | registers of the clock manager | poll, read, write, `SetRate`, `GetRate`, `IsLocked`, the choice of dividers | a retry counter shared by two polls; integer divisions; widths of bit fields | `ClockRates`, `ClockGen`, `ClockProofs`, `LeastNumber` |
| JTAG bridge | `src/verilator_simulators/src_C/sim_dmi.c`, `sim_socket.c`, `Verilog_RTL/DMITap.v` | TAP state, instruction, pending request, pause counter, request registers | connect, read a command, scan, request, response | OpenOCD, a polled socket, a clocked block and the debug module, each at its own pace | `DmiAccess`, `JtagBridge`, `JtagBridgeProofs`, `LeastNumber` |
| Debug client | `src/verilator_simulators/src_C/C_Imported_Functions.c` | socket, a request and an answer in the making | connect, receive, send, disconnect | partial reads and writes, failing calls, the end of the connection | `DebugClient`, `DebugClientProofs` |
| Regression runner | `src/verilator_simulators/run/Run_regression.py` | shared index and results, working directories | draw a test, convert, simulate, store counts, join, add up | processes, timeouts, files left from an earlier step | `Regression`, `RegressionProofs` |
| Other taps of the simulators | `mkVpiTap.v`, `jtag_vpi.c`, `remote_bitbang` | as the JTAG bridge | one character or one command at a time | nothing beyond the JTAG bridge | not modelled |
| Trace file, console, symbols | `C_Imported_Functions.c` | a trace buffer | fill, write; one character; one file | one thread, and partly without a caller | not modelled |
| `elf_to_hex` | `run/Tests/elf_to_hex/elf_to_hex.c` | a memory image | convert one file | address limits | not modelled |
| Host test harness | `src/testing/scripts`, `src/runOnLinux` | none shared | scripts that drive gdb, OpenOCD, serial lines | the outcome is that of the other programs | not modelled |
| Baremetal tests, RTL and IP, build and board files | the rest | | | straight-line, generated, vendored or configuration | not modelled |

How they interact. The user tool and other programs reach the driver through one
device file for each board. The driver reaches the board through memory-mapped registers and
an MSI interrupt. Inside the driver, transfers run on a board that `activate` has brought
up, and share with `deactivate` the board structure, and nothing protects it. The
clock generator is programmed through four words of the board over the same device file. OpenOCD
reaches the simulated debug module through a TCP socket that the clocked block of
`DMITap.v` polls with the functions of `sim_dmi.c`; a debug client reaches it through a second
socket and the functions of `C_Imported_Functions.c`. The regression runner starts
that simulator as a subprocess, once for each test.

What makes each part correct, in short:

- transfers: one feeder for each queue; no command lost to a full queue; no DMA into
  pages that have been given back; the count returned is what was moved; each exit path
  gives back what was taken; no wake-up lost, and so every call returns;
- boards: the level tells what hardware is held; the list holds the live boards;
  numbers are unique and kept; the class lives as long as its nodes; counters of open
  files are exact; nothing freed or unmapped is touched;
- user tool: every file named is worked on, in order, whatever becomes of those before; the exit
  code tells of a failure wherever it was, as far as the driver tells of it; a debug command changes the bits it names and no other;
- clock generator: an answer is that of the request; a setting is loaded whole or not at all; a
  rate that can be made is made; the rate printed is the one set; every command ends;
- JTAG bridge: a scan of the DMI register is one access, carried out once, with its own
  result; what OpenOCD, the bridge and the debug module take for pending, for the state of the TAP
  and for the scan to be answered agrees; writes are spaced; every scan is answered;
- debug client: requests and answers keep their boundaries however they are cut; each request is
  handled, and each read answered in its turn; a disconnect loses nothing and ends;
- regression runner: every test is drawn once; totals are exact when no worker dies;
  exit code 0 only if the simulation of every test has printed PASS, and only if every test passes (which the code breaks,
  section 4); the runner ends.

## 2. Plan, and what has become of it

Done, in this order: the transfers and the boards of the driver, the bridge with its abstract
specification, the runner; then the debug client, the clock generator and the user tool; the abstract
specification of a transfer; and the proofs of section 7, which now state every invariant and every action property of
the runs. What was planned and is not there:

- a composition of `BnocBoards` with `BnocDma`: the states of either, multiplied, are out of TLC's reach
  with the bounds either needs;
- theorems for two tools that use the clock generator of one board at once, and for transfers after a signal: there the
  properties do not hold (section 4), and it is not yet worked out what does.

## 3. The modules and the code

### DmaTransfer and BnocDma: transfers of the driver

`DmaTransfer` is what read(2) and write(2) promise: in each direction one call at a time is inside (`Enter`), another one fails at
once (`Busy`); the board moves blocks only for a call inside and never more than its buffer has (`Transfer`); the call returns the blocks
moved for it, a write only when that is all of them (`Complete`, `Return`).

One active board, any number of `Callers` (threads inside `read(2)` or `write(2)`), the
interrupt handler, and the board. `pc[t]` is where caller t is, `frame[t]` its locals,
`held[t]` what it must give back. `mutex` stands for `read_mutex` and `write_mutex`,
`status` for the cached fields of `tBoard` (level, full, completed, flushed for both
directions), `asleep` for the threads on `intr_wq`. Each access to shared state is a step.

| Steps | Code in `bluenoc.c` |
|---|---|
| `PrepareRead`, `PrepareWrite`, with the failures of the preparation: `PinFails`, `TableFails`, `MapSgFails`, and `RangeFails` for a block that the check under DEBUG_DMA refuses | 821-987, 1161-1326 |
| `TryLockRead`, `TryLockWrite` | 989-993, 1328-1332 |
| `ClearDmaStatus`, `FirstSlots` | 468-484, 1003 |
| `SendRead`, `SendWrite` | 1004-1051, 1343-1380 |
| `Refresh`, `WaitSlotRead`, `WaitSlotWrite`, `FlushTest`, `NextSlots` | 1021-1045, 1367-1373 |
| `WaitDoneRead`, `WaitDoneWrite` | 1055-1068, 1384-1397 |
| `CountRead`, `CountWrite`, `LeaveRead`, `LeaveWrite` | 1070-1129, 1399-1440 |
| `IntrUpdate`, `IntrWake` | 694-721 |
| `BoardStep`, `Signal` | external: the board, and the kernel's signals |

`wait_event_interruptible` tests its condition before it sleeps and after each wake-up,
and a true condition wins over a signal. The handler updates the status first and wakes
afterwards: two steps, because callers may run in between.

The board is a netlist in the repository, and is modelled as the driver uses it. Assumed of it:
it carries out the commands of a queue in order; it interrupts when a list is completed,
when a read is flushed and when a command asks for it (bit 62); after the end of a message it
discards the rest of the list, including commands still to be written, up to the end-of-list
bit; it has nowhere to put a command for a full queue.

`Sizes` are the numbers of pages of the buffers. An error is told from others where the code does so: `EFAULT` or `EINVAL` of the pinning,
`ENOMEM`, `EFAULT`, `EBUSY`, `EIO`. A call whose arguments are refused, or for which the array of page pointers cannot be allocated, has taken
nothing, and is one that never began. `SendRead` and `SendWrite` end at the last page, as the chained lists do, also when entries
have been merged.

The refinement mapping (`Promise == INSTANCE DmaTransfer WITH ...`) takes the stage of a call from its `pc` (`StageOf`: outside, asking,
in the critical section, on an exit path), the blocks moved from what the board has filled, and those returned from
`byte_count`. Slots, waits, interrupts and the cached status are below it, and their steps stutter.

### BnocBoards: the life of the boards

An actor is a PCI core thread for each device or a user thread for each open file. The case
ladders of `activate` and `deactivate` are a step for each case (`ActivateCase`,
`ActivateFails`, `DeactivateCase`, with `Acquires` and `GivesBack` for what each case takes and
returns); the search for a board number is `ScanNumbers`, which finds the first number that
nobody in the list has, and `AssignNumber`. `bluenoc_probe`, `ProbeAttaches`, `ProbeFails`,
`bluenoc_remove`, `RemoveDetaches`, `bluenoc_open`, `bluenoc_release`, `bluenoc_init`, `ExitBegins`,
`bluenoc_exit` and the `Ioctl*` and `SoftReset*` actions follow the functions of these names. `hw[d]`
is what the kernel and the device have given to a board, `class` whether the udev class exists or could not be made, `nodes` the boards whose device
node was made: the code looks neither at the result of `class_create` (595) nor at that of `device_create` (627). `misuse` remembers what
was wrong with any step: a touch of a freed board, an access of hardware that was not held, a register ioctl on a board that is down, a class that is none.

The driver takes no lock here, so its correctness depends on its surroundings. Two
constants say what they are: `OneAtATime` (calls do not overlap) and `UnplugWhileOpen`. No user is assumed to ask for `is_active` before
a register ioctl: the mode `clock` of the tool does not.
The run and the theorems have the surroundings in which the driver is correct; section 4 says what
happens in others.

### BnocTool: the user tool

Each process of `Tools` runs one command line after the other: `Start` parses it (`Parse` and its
helpers follow `main`, 416-557), `Scan` lists `/dev` when no file was named (560-611), then for each
file `process` is `Open` or `OpenFails` (no such name, or one that may not be opened), `Identify` (or `IdentifyFails`: not a board), and the action of the mode:
`Show`, `Reset`, `Down`, `Up`, `Status`, `Clock`, `GetLevel` and `SetLevel` for the modes that change the debug
level, `Refused` where the driver answers that it does not know the request, `NothingToDo`. `Quit` gives
the exit code. The ioctls are the driver's side as `BnocBoards` has it, one step each; boards come and go
(`Comes`, `Goes`) and another process works in between. `results`, `asked` and `raced` are histories for the properties: a record of `results` has the value that `process` has returned and, beside it, the
`outcome`, what has really become of the file: `met`, `unmet` (an `up` that leaves the board down, a status of a board that is down, a clock
that does not lock), `overtaken` by another process, `refused`, `denied` or `no_board`. The exit code is compared with the outcome.

`scandir` returns some order-preserving list of the names there are (`Entries`, `Rank`).

Abstracted: a word of the command line is a name and a minus sign, a debug level the set of its
bits, and what is printed is left out. `is_active` is tested with one ioctl and used with the next one.

### ClockRates and ClockGen: the clock generator

`ClockRates` is the arithmetic of `clocking.cpp` and `clocking.h`: the limits of the loops of `calc_params`,
`Choices` (what the loops try), `Nearer` (the comparison, on unsigned differences), `CalcParams` (the choice, as
the earliest of the nearest), `CalcClkParams`, `PackCounts` and `DividerOf` (a divider packed into a register, and read back).
Frequencies are in kHz, as `calc_params` makes them with its first two assignments, and integers are those of the code: every value stays below 2^31.

`ClockGen` is the conversation with the board. An access is a poll for the idle state, the request, and for a
read a poll for the answer, its reading and its clearing (`BeginAccess`, `PollIdle`, `SendCtrl`, `PollWord`, `TakeWord`,
`ClearWord`), with the retry counter `tries` that both polls share, five in all. `SetRate`, `GetRate` and `IsLocked` are
sequences of accesses, and the modes `info` and `clock` of the tool sequences of those. `NoJob` is the board with no request. The board carries out a
request after some polls (`CarryOut`, external). The five ioctls of `clocking.cpp` do not fail: the driver returns an error from them only
if the word of the caller cannot be copied (drivers/bluenoc.c:1666-1699), and that word is a local variable of the tool. It is an assumption all the same: the code would go on with a
word that was never written. `misses` counts those that came too early, and a `late` request may take
longer than any poll waits for it. The entries of the two tables `lock_lookup` and `filter_lookup` are represented by their index.

### DmiAccess and JtagBridge: the bridge from OpenOCD to the debug module

`DmiAccess` is the promise to a debugger: one access at a time is asked for, performed once
on the registers, and answered with its result; a no-operation is answered with what was read last, and with anything if a write has
come between. "openocd seems to expect last read data on NOP" is the comment in the code (`sim_dmi.c` 156); what the code gives is the data of the last response, also of one to
a write, and what that holds is up to the debug module. The promise is what code and comment agree on.

`JtagBridge` is the code. `Connect`, `SendMove`, `SendScan`, `ReadAnswer` and `HangUp` are
OpenOCD, which writes commands and waits for the answer of a scan before it goes on, and may
end at any time, also in the middle of a command. `tap` is OpenOCD's own account of the TAP.
`PosEdge(ready)` is an edge of the clocked block of `DMITap.v`: the response half
(`vpidmi_response`), then the request half (`RequestHalf`), with the wires sampled at the edge.
If the request half calls `jtag_vpi_request`, its loop over the socket is one `Poll` step for
each command (`PollReset`, `PollTmsSeq`, `PollScan`, `PollRequest`, `PollNothing`, `PollAborts`),
between which OpenOCD may write more. `DmWork` and `DmEdge` are the debug module, any number of
cycles slow. `AnswerKills` is a failed write of an answer, which aborts the simulation.

The refinement mapping (`Access == INSTANCE DmiAccess WITH ...`) lets an access be performed when the
debug module has answered it; the answer that OpenOCD reads is the one of its own scan. `last_read` is a
history for it: the data of the last read, or `None` after a write.

Abstracted: the bits of a scan (a scan carries an instruction or a DMI operation), the content of
IDCODE and DTMCONTROL. Left out: the reserved operation 3, instruction scans of a length other than 5 or 7
bits, CMD_STOP_SIMU, the reset of the simulator.

### DebugClient: the debug socket

The server is the code: `Accept`, then the loop of the `main` of that file: `PollUnavail`, `PollFails`, `PollReady` for
the poll of `c_debug_client_request_recv`, `ReadSome`, `ReadEnd`, `ReadFails` for its loop over `read`, `Handle`, `WriteSome` and
`WriteFails` for `c_debug_client_response_send`, and `Disconnect`, `Drain`, `DrainFails` (an error of `recv` other than EINTR, which ends the drain with a client still there), `Close` for `c_debug_client_disconnect`; the loop ends in a
`Disconnect`, as the imported function is meant to be used, or in a `Return`, as in that `main`. The client sends
requests of seven bytes and reads answers of four, in any pieces, may close its end between or within
requests, and may be reset (`GoesAway`). A byte of a request is known by its position in the stream, a byte of an answer by the
number of the read it answers and its place: `StreamsIntact` says that both are put together where they were cut.

### Regression: the runner

`Worker(w)` follows `do_worker`: `EnterDirectory` or `NoDirectory`; `ReadIndex` and `WriteIndex`, the
two halves of the critical section of the shared index; `Convert` (`elf_to_hex`, whose exit code is not
looked at); `Simulate`; `Raises`, an exception that nothing catches and that ends the worker with its counts (the directory cannot be made, either subprocess takes more than
the 30 seconds of `run_command`, a log cannot be written); `Store`. `Join`, `Add` for
each worker, and `Exit` are the main process. What each test does (`kind`) is chosen at the start; `hex[w]` is the test whose
image is in the directory of worker w, at the start that of an earlier run; `image[t]` remembers by whose image test t has been judged.

### LeastNumber

The least-number principle and descent, derived from the library's well-founded induction: where the proofs
need an induction over data (a trail of commands, a choice among dividers), they take the least counterexample.

## 4. The runs

### Runs that pass

| Run | What it shows |
|---|---|
| `BnocDmaSafety` | Two callers, without signals, messages that end early, buffers that fit the queue and some that have to wait for slots: `OneFeederPerQueue`, `NoCommandLost`, `NoDmaAfterUnmap`, the refinement `PromiseSpec`, and the liveness property `CallsReturn`. |
| `BnocDmaSignals` | A signal at any point of a call, mappings that fail, are out of range or merge pages: `NoLostWakeup`, `UnwindIsExact` (each call gives back what it has taken and nothing else; a failed `pci_map_sg`, whose list is unmapped though it was not mapped, is the exception that the property names). |
| `BnocBoardsLife` | Three devices for two numbers, two files, every failure of a kernel call, one call at a time: `LevelTellsHardware`, `ListIsAlive`, `NodesAreSound` (numbers are unique, the counters of open files exact, and a node has its class and device number), `NoMisuse` (nothing freed, unmapped or not held is touched, with two exceptions that it names: a register ioctl on a board that is down, and the class that could not be made), `NumberIsKept`. |
| `BnocTool` | Two processes, each mode, mistakes in the command line, a file that is no board, boards that come and go or may not be opened: `ExitTellsFailure` (it excepts an `up` whose activation fails, and what another process has overtaken), `ScanFindsEveryBoard`, `LevelIsWhatWasAsked`. |
| `ClockGen` | One tool, two commands, a board that may be late once: `PatienceSuffices` (on a prompt board no loop gives up), `AnswersMatch`, `SettingIsWhole`, `ShowsWhatWasSet`, `SettingIsBest`, and `EveryCommandEnds`. |
| `JtagBridge` | `InStep` (what is in flight, the TAP, and the scan that waits), `WritesAreSpaced`, the refinement `AccessSpec`, and the liveness property `ScanIsAnswered`. |
| `DebugClient` | Two requests in any pieces, failing calls, a client that leaves at any byte: `StreamsIntact`, `DisconnectLosesNothing`, `EveryRequestIsHandled`, `DisconnectEnds`. |
| `Regression` | Tests that pass, fail, hang and have no image, workers that die: `EachTestOnce`, `TotalsAreExact`, `SuccessIsEarned`, `RunnerEnds`. |

Each module's type invariant is checked by one of its runs.

### Runs that find a disagreement

| Run | Property | What happens |
|---|---|---|
| `BnocDmaUnmap` | `NoDmaAfterUnmap` | A signal ends the wait for completion, and the call unmaps and releases its pages while the board still has commands for them. |
| `ClockGenDivider` | `SuccessMeansSet` | 4 MHz needs an output divider of 128: its two counts of 64 do not fit their six bits, and the tool reports success with another divider in the register. |
| `DebugClientGone` | `RecvReturns` | A client closes its end; `read` returns 0, which the loop takes for no data yet, and goes round for ever. |
| `RegressionStale` | `SuccessMeansAllPassed` | No image can be made of a test; the exit code of `elf_to_hex` is not looked at, the image of the test before is simulated in its place, its PASS counts, and the runner exits with 0. |

PROJECT.json quotes, for each, the line of the source that says otherwise.

### Seen while modelling, without a run of its own

The driver:

- `pci_map_sg` that fails leads to an exit path that unmaps the list it has not mapped (953-956, 1292-1295): the exception of `UnwindIsExact`.
- After an interrupted call the cached level may be too low, and the end of its list may be taken for that of
  the next call: with `MaxSignals` 1, `NoCommandLost` and `PromiseSpec` fail, and a later call may wait for ever
  (`CallsReturn`).
- With chained lists the sending loop follows `sg_next` over all pages, though `pci_map_sg` may
  have merged some (1010-1012).
- With `OneAtATime` FALSE, BNOC_DEACTIVATE and BNOC_REACTIVATE of two files interleave, and the board ends at
  BLUENOC_ACTIVE without a resource it needs; and of two devices probed at once, the one that fails sets
  `board_list` to its own successor (637) and drops the other.
- With `UnplugWhileOpen` TRUE, a file keeps a pointer to a freed board (the part `NoUseAfterFree` of `NoMisuse`): remove
  does not look at the open files.
- `bluenoc_probe` leaves the class it has created when the first probe fails; `bluenoc_init` leaves
  the region of device numbers reserved when `pci_register_driver` fails (532): `unregister_chrdev_region` is
  missing there.
- The register ioctls do not look at the activation level (1658-1707); after BNOC_DEACTIVATE they go
  through an unmapped BAR unless the program asks for `is_active` first ("down" in `misuse`).
- Nothing looks at the result of `class_create`: after a failure the pointer is not NULL, no other class is made, and a removal
  hands `device_destroy` that pointer ("no_class" in `misuse`).

The user tool:

- `up` reports success though `activate` has failed, because BNOC_REACTIVATE returns 0; `reset` reports success
  though the driver skips a board that another process has taken down since `is_active` was asked for. "1  Command succeeded" (163) is then
  not so; `ExitTellsFailure` excepts these two by their outcome.
- The mode `clock` does not test `is_active`, and `clock <file>` takes the name for a frequency of 0.
- The mode `status` reads a 4-byte variable through a request that writes 8 bytes.
- Two debug commands that overlap on one board lose one of the two updates: `LevelIsWhatWasAsked` excepts the
  boards in `raced` for this reason.

The clock generator:

- The absolute value is taken of an unsigned difference, so that a frequency below the target never counts as
  near: 41.67 MHz becomes 41.895 MHz. `SettingIsBest` asks for the exact rate where there is one.
- A rate that cannot be reached leaves the clock as it is, and the tool reports success; one below 1 kHz divides by zero (67).
- Of the output dividers up to 128 the two largest, 127 and 128, do not fit the fields.
- With two tools at once on a board, one takes the answer of the other: `AnswersMatch` holds for one tool. With a
  parent of 500 MHz the lower bound of the multiplier skips legal ones; every call has 125 MHz.

The simulators and the runner:

- A no-operation of the DMI register after a write gives what the debug module has answered the write with (`sim_dmi.c` 157, 352), and
  not the data read last, as the comment (156) has it.
- `DMITap.v` never accepts a second client, and a TMS walk into TEST_LOGIC_RESET leaves `ir` as it
  is (only CMD_RESET sets it to IDCODE, 292). The response code of the debug module is dropped.
- The `main` of `C_Imported_Functions.c` returns without `c_debug_client_disconnect`, also after a shutdown, and the
  linger time of 0 may then drop answers that are on their way (`Return`; `DisconnectLosesNothing` is about `Disconnect`).
- An error of `recv` in `c_debug_client_disconnect` ends the drain, and the linger time of 0 drops answers on their way: `DisconnectLosesNothing`
  excepts it.
- A timeout loses the counts of all tests that the worker had run, not only the one that
  hung; the exit code is not affected, because the total then is too low for success. On a machine with one
  processor, `cpu_count () // 2` gives no workers, and no test is run.

## 5. Bounds

| Bound | Value | In the code | Why it is enough |
|---|---|---|---|
| `Slots` | 1 or 2 | 16 | with up to 4 pages the queue fills, drains and is refilled in one call |
| `MaxBlocks`, `Sizes` | 4 and {1, 4}; 2 and {1, 2}; 3 and {1, 2, 3} | 4096 | a call that fits the queue, and one that is more than the slots by one or two: the loop waits for a slot, and sends on with what is left to send above what is free |
| `Callers` | 2 | any | two calls for one mutex, and one for each direction on the shared status and wait queue |
| `MaxSignals` | 0 or 1 | any | one signal can hit each wait; the others repeat it |
| `NumBoards`, `Devices`, `Files` | 2, 3, 2 | 16, any, any | more devices than numbers: the search collides and fails; two files on one board and on two |
| module loads | 1 | any | unloading gives all statics their first values |
| `Tools`, `MaxCommands` of `BnocTool` | 2, 2 | any | two commands overlap or follow each other on one board |
| `Nodes`, `Others`, `MaxChanges` | 2, 1, 1 | any | a failure at the first or the last of two files, a file that is no board, a board that goes during a scan |
| `Lines` | 15 | any | each mode, with and without names, with words before names, and with mistakes |
| `Tools`, `MaxCommands` of `ClockGen` | 1, 2 | any | a second command begins in the registers the first one left |
| `Rates`, `ParentKHz` | 50, 41.67 and 1300 MHz (4 MHz in `ClockGenDivider`), 125 MHz | any, 125 MHz | one rate that can be made, one that can be approached, one out of reach, one at the limit of the divider |
| `Delay`, `MaxSlow` of `ClockGen` | 2, 1 | 5 polls in all | two polls of a read share the five: twice two misses leave one; a late request runs out of them |
| `MaxRequests` of `DebugClient` | 2 (1 in `DebugClientGone`) | any | a read that ends within the request after it; an answer with one before it |
| `Delay` of `JtagBridge` | 2 | 200 | counted down past an intermediate value to zero |
| `MaxInFlight` | 2 | the socket's buffer | a command behind another one; a scan is always last, since OpenOCD waits |
| `Addrs`, `Data` | 1, 2 | 64, 2^32 | two values tell a stale answer from the right one |
| `Paths` | the four walks between idle, shift and pause | any | they lead to both shift states with and without a pause |
| `Workers`, `Tests` | 2, 4 (1, 2 in `RegressionStale`) | at most 4, any | workers contend for the index, and each may run several tests; a stale image needs one worker and two tests |
| `Kinds` | pass, fail, hang, no image | | all that a test may do |

Callers that the properties treat alike are symmetric in `BnocDmaSignals` and in `BnocDmaUnmap`. No other run uses
symmetry; `BnocDmaSafety` has a liveness property, and states it for one caller, which stands for each (`CallsReturn`). `CHECK_DEADLOCK FALSE` is in the
configurations of systems that really stop: the module is unloaded, the last command has ended, the
client has gone, the simulation ends or the runner exits.

## 6. Fairness

- `BnocDma`: the kernel runs every runnable thread in a call and every pending handler; the board
  moves data as long as it has commands, that is, the far end of the network keeps producing
  and consuming. A thread is never obliged to begin a call. No signal is sent in the run that asks for `CallsReturn`.
- `ClockGen`: a tool that runs a command goes on with it, and the board carries out a request that is
  not late. A late one may never be carried out, and every command ends all the same. No command is obliged to begin.
- `DebugClient`: the server goes on when it can; a call on a connection that has been reset fails in the end; the main
  loop ends when it may; the client reads answers that have arrived, and closes its end when the server has shut its own
  down. Nothing obliges a client to ask, and no other call is obliged to fail.
- `JtagBridge`: the simulator runs its clock for ever, the loop over the socket goes on, the debug
  module finishes what it has taken and is ready for a new request at some time when idle. Nothing
  is assumed of OpenOCD.
- `Regression`: the operating system runs every process; a subprocess ends by itself or by its
  timeout, which is one of the exceptions of `Raises`.
- `BnocBoards` and `BnocTool` have no liveness property: nothing obliges a device or a user to act.

## 7. Proofs

The assumptions are those on the constants, which TLC evaluates on every run: `DmaAssumption`, `BoardsAssumption`,
`ToolAssumption` and `LinesAssumption` (a command line is a sequence of words, and names files that the model has), `ClockAssumption` and
`NoJobAssumption` (`NoJob` is no request), `BridgeAssumption`
and `NoneAssumption` (`None` is no access and no scan), `DebugClientAssumption`, `RegressionAssumption`. Where a theorem needs more, its
statement says so.

`BnocDmaProofs`, for every set of callers, queue length, number of signals, and with or without early ends,
failing and merging mappings:

- `TypeCorrect`: `Spec => []TypeOK`. The type invariant is inductive as it stands. The steps that
  need arithmetic are those of the queue (`WriteCommandType`: a command is only appended below
  `Slots`; `AfterEndOfListType`: a flush leaves a suffix) and of the free slots.
- `MutualExclusion`: `Spec => []OneFeederPerQueue`. Inductive together with `TypeOK`. The key is that a
  caller frees only the mutex that names it (`FeederLeaves`) and `mutex_trylock` succeeds only on a
  free one (`FeederTryLock`).
- `WakeUpsAreKept`: `Spec => []NoLostWakeup`. Not inductive. The invariant is `WakeInv`, the conjunction of
  `SleepersWait` (a sleeper is in one of the two waits), `NewsIsAnnounced` (when the board's status
  register says more than the cached status, an interrupt is pending) and `NoLostWakeup`. It is needed
  because any caller's refresh may copy news from the register into the cached status, and so make
  the condition of another sleeper true without waking it: only a pending interrupt or a handler that
  is about to wake saves the sleeper.
- `UnwindingIsExact`: `Spec => []UnwindIsExact`, with every failure of the preparation. `HoldInv` says what a call holds at every label before and in the
  critical section, from which each jump to an exit label leaves exactly what that label releases, but for the mapping that has failed. Signals are allowed.
- `TransferCorrect` and `TransfersAreSafe`: as long as no signal has been sent, `NoCommandLost`, `NoDmaAfterUnmap` and
  `CountIsExact` (a successful call returns what was moved for it, a write its whole buffer). Nothing is assumed of the constants.
  `NoCommandIsLost` and `NothingMovesAfterUnmap` state the two invariants for `MaxSignals = 0`, as the run has them.
- `ImplementsPromise`: for `MaxSignals = 0`, `Spec => PromiseSpec`. `PrepareRead` and `PrepareWrite` map to `Begin`, the locks to `Enter` or
  `Busy`, a command that the board carries out to `Transfer`, `Count` to `Complete`, `Leave` to `Return`, and every other step to a stutter.

The invariant behind the last two is `TransferInv`, with `HoldersFeed` (a mutex is held by a call that is in the critical section with that direction).
Its part about the board, `BoardInv`, says that nothing was lost, that all commands in a queue belong to the holder of the mutex, and that a queue is
empty and not draining when nobody holds it. Its part about a call, `CallInv`, says, for every label: before the list and after it, nothing is on the board
(`QuietInv`); while the list is being sent, its last command is not in the queue and the transfer is not completed, or it is flushed and the board discards what comes
(`OpenInv`); once it is sent, the last command is at the end of the queue, and register or cached status tell that it is over only when the queue is empty (`ClosedInv`);
the blocks moved and those in the queue are at most the ones sent, and for a write exactly those (both); the counter of the board is that of this
call, and something is left to send in the sending loop (`BlocksInv`); the free slots that the caller counts on are there, and the cached level is never lower than the queue is
long while it waits for a slot (`SlotsInv`); and only a successful call has a count, which is what was filled (`ResultInv`). No signal is the assumption that the run `BnocDmaUnmap` shows to be needed: after one, a call leaves with commands of its
own on the board, and all of `BoardInv` is gone.

`BnocBoardsProofs`, for every set of devices and of board numbers and every finite set of files, in the surroundings
`GoodHands` (`OneAtATime`, no `UnplugWhileOpen`): `TypeCorrect`, `LadderIsExact`, `ListIsExact`, `NodesStaySound`,
`NothingIsMisused` (with the two exceptions of `NoMisuse`, which are all that remain in these surroundings) and `NumbersStay`, all from one invariant `Inv`. Its parts: one call at a time is under way (`OneInv`); the board of
that call is at the rung its switch has come to, with exactly the hardware of that rung, and every other board is at rest (`LadderInv`); a board
that is being probed has no device file and is the first of the list, and no file is open on one that is being removed (`CallInv`);
numbers are unique and a number found is still free when it is assigned (`NumberInv`); files and counters agree (`FileInv`); and
where there are boards the module is loaded and the class exists (`ModuleInv`). `CallInv` is what saves the failing probe, which takes
its board off the list as if it were the head; `NumberInv` is what makes the first board that `bluenoc_open` finds the right one. `HeldUp` and `HeldDown` say that the
two switches are inverse to each other; `OwnStep` packs what all the steps of a call have in common, `BoardLeaves` the two ways a board ends.

`BnocToolProofs`, for every set of processes, of boards and of command lines:

- `LevelIsAsAsked`: `Spec => []LevelIsWhatWasAsked`. The invariant `LevelInv` adds that a level read and not yet
  written back is still the level, unless raced for, and that a board that is open does not go away.
- `ExitCodeTells`: `Spec => []ExitTellsFailure`. The invariant `ExitInv` says, at every point of the loop over the files, what
  `failed`, the results so far and the files left have to do with each other. What counts as a failure is read off the outcome
  (`Failed`), not off the value that `process` returns.
- `TypeCorrect`: `Spec => []TypeOK`. `TypeInv` adds the types of whole command lines and that the file at hand is there and, past
  BNOC_IDENTIFY, a board (`HandInv`), without which the results would not be results.
- `ScansAreComplete`: `Spec => []ScanFindsEveryBoard`. `ScanInv` says that the names worked on and those left have no name twice and none in
  common, and that a board that has been there from the beginning is among them, and was found to be one once it was worked on.

`ClockProofs`:

- `DividersFit`: each divider from 1 to 126 is read back from its register as it was written.
- `ChosenAreLegal`: `Spec => []LimitsKept`, for every parent clock and all rates: the divisions that truncate never let a loop
  out of the limits of the manager.
- `ChosenAreBest`: from a parent of 125 MHz, `Spec => []SettingIsBest`: a rate that legal dividers make exactly is made exactly. The
  invariant `ChosenInv` says that what a tool has chosen is `CalcParams` of a rate. That `CalcParams` finds one of the nearest is the
  least-number principle, applied to the distances and then to the order of the loops.
- `ClockTypes`: `Spec => []TypeOK`, for any number of tools. `TypeInv` adds that what is left of the accesses of a function is the end of its program, that each read made
  has its answer (`ProgramInv`), and the range of the retry counter at each poll (`TriesInv`: the loops leave it at -1 when they give up).
- `RetriesSuffice`, `AnswersAreOwn`, `SettingsAreWhole` and `ShownIsSet` (`PatienceSuffices`, `AnswersMatch`, `SettingIsWhole`, `ShowsWhatWasSet`), for every set of rates and any
  number of commands, from one invariant `SoloInv`: where the retries stand against the polls that the board may still miss, and
  what the words of the board say at each step of an access (`AccessInv`); what is in the registers after
  each access of a `SetRate` (`BoardInv`); that a function's answers are the registers it has read (`ReadInv`); and that after a successful command they decode to what was chosen
  (`ShownInv`). Assumed are one tool (section 4: two tools take each other's answers) and `Delay <= 2`: a poll for the idle state and a poll for the answer share five retries, and each may miss
  `Delay` times, so that with 3 the second would give up. The properties themselves are about a board on which no request has been late so far (`slow = 0`); the number of late ones is not bounded.

`JtagBridgeProofs`, for every set of registers, contents and TMS paths, every pause and every backlog: `TypeCorrect`, `StaysInStep`
(`InStep`), `WritesStaySpaced` (`WritesAreSpaced`) and `ImplementsAccess` (`Spec => AccessSpec`). The invariant `Inv` has five parts besides the
types: the state of the bridge and what is in the socket lead, command after command, to where OpenOCD takes the TAP to be (`TrailInv`); what the
end of a client leaves (`EndInv`); the scan waited for is in one place, and the last in the socket (`PlaceInv`); the request on the wires or in the debug module is the one
of that scan (`FlightInv`); and the pause that is left and the time gone by since the last write make up the delay (`SpaceInv`). The refinement
mapping takes as done what the debug module has answered: `DmWork` maps to `Perform`, `SendScan` to
`Ask`, `ReadAnswer` and `HangUp` to `Take`, and every other step to a stutter. `LastInv` says that the bridge has kept what was
read last unless a write came after it. `TrailInv` is stated with the trail of states as a function and not with
the recursive function of `AllEffects`; `AllEffectsTrail` says that they agree.

`DebugClientProofs`, for every number of requests: `TypeCorrect` and `StreamsAreIntact`, from `StreamInv`: between requests the server has read whole ones, within
one `n_recd` counts exactly what it has taken of it and put into the frame, and the bytes of answers written so far are those of the reads handled, cut where `n_sent` says.
`NothingIsLost` is the action property `DisconnectLosesNothing`: unless `recv` fails, draining ends only when the client has ended the connection, and nothing is on its way to a client that has (`DrainedInv`).

`RegressionProofs`, for every finite set of workers and every number of tests:

- `TypeCorrect`: `Spec => []TypeOK`. The bound of the shared counter is not inductive: `PastEndInv` counts the
  workers that have found no test left, and `LockInv` says that what the holder of the lock has read is still
  the counter.
- `TestsDrawnOnce`: `Spec => []EachTestOnce`, from the same invariant `IndexInv`: the tests drawn are exactly
  those below the counter (`DrawnInv`).
- `SuccessTellsTheTruth`: `Spec => []SuccessIsEarned`, for tests of every kind. The invariant
  `SuccessInv` adds that a worker simulates its own test if that has an image (`ImageInv`), that the sets of tests counted by the
  workers are disjoint, have printed PASS, and are as many as `num_passed` (`CountedInv`), that workers store what they have
  counted (`ResultInv`), and that the total so far is at most the number of tests counted by the workers
  added up (`TotalInv`). A total equal to the number of tests then leaves no test out. The history variable
  `counted` exists for this proof. That a test without an image has passed by that of another is not excluded: `RegressionStale` shows it.
- `TotalsAreThoseOfTheTests`: `Spec => []TotalsAreExact`. `ExactInv` says that the tests below the counter can be shared out among the workers, except
  for the one each has in hand, so that every number a worker keeps or stores is that of its share (`SharedOut`, `Recorded`), and that the total
  is that of the shares added (`AddedUp`). The shares are bound by an existential quantifier in the invariant: no variable keeps them. Adding up needs no induction, since each
  step adds a share disjoint from the others.

Only model-checked, and why:

- liveness (`CallsReturn`, `EveryCommandEnds`, `ScanIsAnswered`, `EveryRequestIsHandled`, `DisconnectEnds`, `RunnerEnds`): TLAPS does not
  reason about fairness. Every other property of a passing run is stated by a theorem of
  this section, under the assumptions given there;
- what the theorems assume away: `MaxSignals` above 0 for the safety of a transfer, more than one tool for the clock generator, and surroundings
  of `BnocBoards` other than `GoodHands`. The properties fail there, as section 4 says, so that there is nothing to prove;
- what a recursive definition computes for every input, since induction over data is out of the prover's reach: `AllEffects` of `JtagBridge` is the one such function, and its
  proof goes over the trail instead (`AllEffectsTrail`, by least counterexample).

The proofs have found one mistake in a model: in `Parse` and in `Start` of `BnocTool` two arms of a `CASE` overlapped. TLC takes the first, but TLA+ leaves open which one
is meant, and the theorem would have been about either. The tests are now taken in the order of `main`.

## 8. Not modelled

- Of the driver: `poll` with its two flags, the profiling counters and their ioctls, the wait queues that `activate`
  initialises again; the number of bytes of a command, which is cut to 14 bits. `BnocDma` has an active board and `BnocBoards` no
  transfers, so that `deactivate` under a blocked call is in neither.
- `mkVpiTap.v` is the clocked block of `DMITap.v` without the pause after a write; the remote bitbang of the other taps passes on one
  character at a time; `sim_main.cpp` runs the clock.
- The trace buffer of `C_Imported_Functions.c` is filled and written by one thread, and nothing calls it: the Verilog of
  the simulator imports `c_trygetchar` and `c_get_symbol_val` and none of the trace functions.
- `elf_to_hex` converts one file, sequentially; its result is that of the ELF library.
- The harness on the host decides nothing by itself: its outcome is that of gdb, OpenOCD and the board.
- Baremetal tests are straight-line programs; RTL and IP are generated or vendored, build and boot files are configuration.
