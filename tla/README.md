# CROCDIC: a formal model

CROCDIC is the CORDIC accelerator in the user domain of a Croc SoC (a CVE2
core, SRAM banks, an OBI crossbar and a few peripherals). A program writes an
operation, two array addresses and a length to its registers and starts it;
the accelerator then reads the source array through the crossbar, computes two
results at a time on two CORDIC engines, writes them to the destination array
and reports completion. This directory holds TLA+ modules translated from the
RTL and the C programs, the TLC configurations that check them, and proofs for
TLAPS. Line numbers below refer to the repository.

Own code is `src/rtl/{croc_*,core_wrap,user_domain,user_pkg}.sv`,
`src/rtl/user_domain/`, the small peripherals `soc_ctrl`, `gpio`, `clint`,
`obi_timer`, and `src/sw/`. The other directories of `src/rtl` (`common_cells`,
`obi`, `cve2`, `idma`, `obi_uart`, `riscv-dbg`, `tech_cells_generic`) are
vendored IP; `src/vlsi2_25fs26` is a second copy of the same design (without the
bring-up programs and `trig.c`); `openroad`, `yosys`, `klayout` and the like are
the implementation flow.

## 1. Inventory

| Part | State | Operations | Talks to |
|---|---|---|---|
| accelerator, `crocdic_top.sv` | FSM state, four parameters, two operand pairs, counter, latched request, latched grant and response | register reads and writes, start, the eight FSM states, acknowledgement | core and debug module through the user-domain demultiplexer (subordinate port); the crossbar (manager port); the engines (enable, done) |
| engine, `crocdic_cordic.sv` (twice) | FSM state, iteration count, x, y, z | load, iterate, done | the accelerator |
| programs, `sw/cordic_*.c` | source array, two destination arrays | software CORDIC, program the accelerator, poll DONE, compare | accelerator, SRAM, UART |
| bring-up programs, `sw/DMA_test_*.c`, `MMIO_test_2.c`, `print_names.c` | arrays | program, poll, print | accelerator, SRAM |
| user domain, `user_domain.sv` | the selection and in-flight count of a demultiplexer | route to CROCDIC or to an error subordinate | crossbar |
| interconnect and memory, `croc_domain.sv` | arbiter state, response fifos, in-flight counts, SRAM | arbitrate, route, answer | all managers and subordinates |
| core and boot ROM, `core_wrap.sv`, `bootrom.S`, `crt0.S` | pc, enabled interrupts, `wfi`, the interrupted frame | boot, trap entry and exit, `_eoc` | every bus, the interrupt lines |
| drivers, `sw/lib/src/*.c`, and tests, `sw/test/*.c` | globals | one function per register access or sequence of them | peripherals |
| debugger of the testbench, `croc_vip.sv` | what it has reported | load, raise msip, poll the core status, collect the console | debug module, UART, pads |
| timer, `obi_timer.sv` | count, compare, enable, autoreset, two sticky flags | count, expire, overflow, register accesses | peripheral bus, interrupts |
| CLINT, `clint.sv` | 64-bit time and compare value, software interrupt | count RTC edges, register accesses by halves | peripheral bus, interrupts |
| SoC control, `soc_ctrl_regs.sv` | boot address, fetch enable, status | masked writes, reads | debugger, core |
| GPIO, `gpio.sv` | direction, enable, output, synchroniser, interrupt enables and status | set, clear, toggle, edge detection, clear on read | peripheral bus, pads |
| UART, `obi_uart*.sv` | control registers, two FIFOs, two shift registers, baud generator | register accesses, send, receive, loop back | peripheral bus, pads |
| debug module, iDMA (not instantiated), pads | - | - | vendored, or wiring |

### What is hard

* **Registered grants.** The accelerator registers `gnt`, `rvalid` and `rdata`
  before its FSM looks at them. A request is therefore still driven in the
  cycle after its grant, and the bus may carry it out a second time, refuse it
  and see it withdrawn, or answer it while the FSM already issues the next one.
* **Two masters of one register file.** The core and the debug module may write
  any register in any cycle; only IDLE listens. Every other access is answered
  without an error.
* **The engine reads its operation input in every cycle**, its output
  multiplexer included.
* **Pulses.** Grant, response and the engines' done last one cycle.
* **Arithmetic limits.** Odd lengths, arctangent's operand pairs, byte enables
  of the last write, comparisons of sums that wrap, and, in the engine, unsigned
  sixteen-bit registers read as signed.
* **Overlap.** Working in place is used by `cordic_inverse_sqrt.c`; a result
  must never land on an operand that is still to be read.
* **Reset** in the middle of a job, with a transfer in flight.
* **Interconnect**: responses are matched to requests by order alone, by a fifo
  in the multiplexer and a counter in the demultiplexer.
* **Peripherals**: a hardware event and a software access in one cycle; flags
  that a read or a write clears; registers written or read in two halves while
  the hardware counts; status bits that lag behind what they describe.
* **Interrupts and `wfi`**: the timer interrupt is pending from reset on (time 0
  is not below compare value 0), and an interrupt may be taken between the
  instruction that enables it and the `wfi` that waits for it.

### What makes each part correct

* accelerator: a completion that a manager sees means that the memory holds the
  results and nothing else has changed; responses are never taken for those of
  another request; a job is isolated from concurrent accesses; it ends.
* engine: the bits of the C function; convergence; accuracy; a fixed latency.
* programs: they wait for their own job and compare the right values.
* interconnect: every granted request is answered once, to its sender, in
  order; arbitration does not starve; a wrong address does not block a port.
* timer, CLINT, GPIO: no event is lost but where the register description says
  so; counters and interrupts agree with what software was told.

The complete list of places is under `hazards` in `PROJECT.json`.

## 2. Modules

| Module | Stands for |
|---|---|
| `UserPkg` | operation codes, names of the registers |
| `CrocdicArrays` | memory as an array of halfwords, the result of an operation as a parameter, what a job is and what it should leave |
| `CordicUnit` | one engine as a black box: its control to the cycle, its arithmetic a parameter |
| `CrocdicTop` | the accelerator: one action per FSM state, with two `CordicUnit`s, the bus and the SRAM in the same step |
| `CrocdicJob` | abstract specification: parameters, start, chunks, completion, acknowledgement |
| `CrocdicRefinement` | the refinement mapping from `CrocdicTop` to `CrocdicJob` |
| `CordicReference` | the C function `cordic()` and the result each program computes with it |
| `CrocdicCordic` | the engine to the bit |
| `CrocdicProofs` | theorems about control and handshake of `CrocdicTop` and the memory it leaves |
| `CrocdicRefinementProofs` | `CrocdicTop` implements the safety part of `CrocdicJob` |
| `CordicReferenceProofs` | theorems about the C function: its loop and its results |
| `CordicProofs` | theorems about `CrocdicCordic`, and that it computes what `CordicReference` does |
| `CrocdicPrograms` | the eight benchmarks, `print_names` and the bring-up programs, run by the CPU against `CrocdicTop` cycle by cycle |
| `ObiXbar` | the main crossbar to the signal: demultiplexers, multiplexers, arbiter trees, response fifos, error subordinate, with four managers |
| `CrocdicProgramsProofs` | theorems about CPU, program and accelerator together, for every set of programs |
| `ObiXbarProofs` | theorems about `ObiXbar` for any subordinates and any addresses |
| `CrocPkg` | the peripherals' address map and the form of a bus request |
| `ObiTimer`, `Clint`, `Gpio`, `ObiUart`, `SocCtrl` | one peripheral each: its registers and what one clock cycle does to them |
| `Drivers` | the C functions of `sw/lib` as sequences of accesses, computations and branches |
| `SocPrograms` | boot ROM, startup code, the tests and demos of `sw/`, clients of the drivers: the images |
| `CrocSoc` | core, debugger and board: one image against all peripherals |
| `CrocSocProofs` | theorems about `CrocSoc` for every image: start, edges, time, alarm |
| `CrocSocDriverProofs` | the same for interrupts left enabled, the end of a program, timer and UART |
| `MC*` | finite instances for TLC |

**CrocdicTop.** A step is a clock edge. Each FSM state of `crocdic_top.sv` is an
action (IDLE is split into start, register write and anything else), and every
action contains `ClockEdge`: the latch of the subordinate port
(`SubordinatePort`), the latch of the manager port (`ManagerPort`), arbiter and
SRAM (`Crossbar`, `Sram`) and the two engines (`CordicEngines`). The request on
the manager port is a state function (`MgrReq`, `ReadAddr`, `WriteAddr`,
`WriteData`, `WriteOne`), as it is combinational in the code. `SbrReply` is the
combinational answer on the subordinate port. `Reset` is the asynchronous
reset. `job` and `started` are history variables: the parameters and the memory
at the moment of the start, and a count that bounds the exploration.

The environment is taken from the SoC. Any request of `Requests` arrives in any
cycle, as it does when core and debug module share the crossbar (the port's
grant is the request itself, line 72). An SRAM bank always grants
(`croc_domain.sv:496`) and answers one cycle later; its contents change with the
grant. The arbiter is fair among four managers, so that a request is refused a
bounded number of times, `MaxDenied`. An SRAM bank ignores the two low address
bits (`croc_domain.sv:473`).

*Abstractions.* A halfword is a member of `Data`; the functions are parameters
`Unary` and `Atan`. Addresses are bytes of a memory of `NumWords` words, which
is the whole address space: the 2^32 of the registers' width becomes
`4 * NumWords`, so that sums wrap as in the code, and every address is SRAM
(what an address outside of it does belongs to the interconnect, see the plan).
Memory changes through the accelerator only: a program does not touch the arrays
while it polls. OBI identifiers are left out: the accelerator issues
identifier 0 and does not read those of responses.

**CordicUnit and CrocdicCordic.** `CrocdicCordic` has the registers of
`crocdic_cordic.sv`, its tables and its arithmetic modulo 2^16; its inputs are
the registers of the top level that drive them. `CordicUnit` keeps control and
latched operands. That the first implements the second is the property
`ImplementsUnit`, so the composition checked in `CrocdicTop` stands on the
detailed engine. `CordicUnit!Output` is an undefined value, `NoData`, if the
operation has changed since the load; that no undefined value reaches a register
or the memory is the point of `CrocdicTop!TypeOK`.

**CrocdicPrograms** instantiates `CrocdicTop` with sixteen-bit halfwords, the
arithmetic of `CordicReference` (which the engine computes, by `MatchesSoftware`)
and the programs' own arrays. `main()` is a list of steps (write a register,
poll until a read is not zero, compare the arrays); a step is split into request
and response, and `Elsewhere` lets the CPU spend any number of cycles between
two accesses. The software pass is a constant of the program. `print_names`
reads the student names of the register file. The bring-up programs write and
poll the addresses of an earlier memory map, as their source does. An access
that is answered with an error traps (`Faults`), and the default exception
handler (`crt0.S:49`) returns to the same access; the other programs never get
such an answer (`NoFault`).

**ObiXbar.** A step is a clock edge; `Req`, `Addr`, `Allowed`, `ReqIn`, `Idx`,
`Gnt` and `Rvalid` are the combinational signals of a cycle, `Demux`, `Arbiter`,
`Fifo` and `Subordinate` the registers after it, and `Xbar` all of them together.
An address is the subordinate that decodes it. `USER` is the manager port of
`crocdic_top` with its four FSM states that matter here (`UserRests`,
`UserBegins`, `UserRequests`, `UserWaits`) and its registered grant; core and
debug module (`Holding`) keep a request until it is granted. Each subordinate
answers one cycle after it takes a request; only the error subordinate refuses
one, while it answers. `owed` and `denied` are history. Every bank behaves alike,
so one stands for both; the demultiplexers behind the peripheral and user ports,
which crocdic_top does not use, are subordinates that grant at once.

**CrocSoc.** A step is a clock cycle of the core and of every peripheral
(`Hardware`, one `...Cycle` for each). The core executes the image one
instruction at a time; a load or store takes two cycles, request and response.
`Stall` holds it up between two instructions, `TakeInterrupt`, `Mret`, `Sleep` and
`WakeUp` are the interrupt logic as the programs rely on it, and `Fault` the
exception of an access nobody decodes. `DebugWake` and `DebugPoll` are the
testbench's debugger. Each peripheral module is a translation of its RTL and
has no next-state relation of its own: `CrocSoc` gives it its accesses. An
instruction is what a C statement does to registers and memory, not an opcode:
`Drivers` is one operator per C function, and the images call them.

*Abstractions.* A GPIO register is the set of pins whose bit is 1; a stored word
carries its number and its set of bits. Time and alarm have two halves of
`HalfMax + 1` values. A UART character is one value, on the line for `WordBits`
data bits; what is sent while the loopback changes in the middle is `"garbled"`.
With LCR.stop_bits 0 the transmitter goes through both stop states, and the
model does too. The synchroniser before the pins is two stages, as in the RTL.

**CrocdicJob** knows neither clock nor bus. A chunk (two results) is replaced at
once, computed from the memory of that moment. The mapping shows a chunk when its
write is granted for the first time (`ChunkWritten`).

Definitions commented "Seeded defect" are not part of any specification. Each is
a plausible mistake in the definition that follows it; putting it in that
definition's place must violate a property, which shows that the property can
fail (`mutants` in `PROJECT.json`).

## 3. What TLC checks

| Run | Instance | Question |
|---|---|---|
| `crocdic_top` | six words of memory, lengths 5 and 6, SQRT and ATAN, source and destination at 4 or 12 (the reset value 0 too), one job, up to two refusals in a row | safety |
| `crocdic_length` | registers of eight values, lengths 5, 6, 7 | termination at the wrap of the counter |
| `crocdic_job` | four words, two jobs, odd length, ATAN and SIN, refusals, resets | refinement of `CrocdicJob` with its fairness |
| `crocdic_cordic` | ITER = 14, 16 bits, the arrays of the programs, every 127th halfword, all boundary values | the arithmetic |
| `crocdic_programs` | nine programs with their full arrays, up to three refusals in a row | the programs get right results and end |
| `bringup` | the six bring-up programs | violated: their first store is repeated for ever |
| `obi_xbar` | four managers, one bank, a peripheral, the error subordinate | order, fairness, and what the others assume of the crossbar |
| `soc_programs` | fourteen images, eight pins, up to two cycles of stall, three edges | the software against the peripherals |
| `timer_stale`, `clint_sleep`, `uart_flush`, `gpio_pin_status` | one image each | violated: see the findings |

*Why these bounds.* Lengths 5 and 6 give three chunks of SQRT (the last one with
one or two results) and two of ATAN (the last one with one or two results, the
fifth operand pair half outside the array), so that first, middle and last chunk
and both forms of the last write occur. The address choices give arrays that
coincide, lie apart or overlap by any relevant distance, in both directions;
`CompletionMeansResults` excludes only those where a result would land on an
operand still to be read (`OverlapSafe`). Two refusals are more than the
registered handshake spans: the present request and its duplicate can both be
refused, granted, or one of each. Every operation acts on the FSM as ATAN, SQRT
(one iteration more) or neither, and `crocdic_job` also runs SIN (0, the reset
value). The toy arithmetic is one-to-one in the operand, modulo a prime, so that
a wrong operand, lane or operation gives a wrong result. `ITER = 2` in the first
three runs: the black box leaves its loop by the comparison alone, and the
proofs below hold for every `ITER`. In `crocdic_length` only eight register
values exist, so lengths of 5 to 7 are the three largest, as 2^32-3 to 2^32-1
are in the RTL.

`crocdic_programs` allows three refusals, which is the most that the crossbar
gives (`denied` in `ObiXbar`, and two is not enough there). `ObiXbar` itself has
no bound: four managers, two subordinates with different grants and the one
idle managers address are all there is, since its fifos never hold more than one
entry.

In `soc_programs` `HalfMax = 7` lets the low half of the time wrap during a test;
`CountMax = 65535` is far enough not to be reached, as 2^32 - 1 is in the design;
`RtcPeriod = 5`, `BaudPeriod = 4` and `WordBits = 2` keep the order of the
peripherals' speeds (both slower than an instruction, a character slower than a
poll); `Delay = 6` stands for the turns of the tests' delay loops; their timeouts are
ten times that. Two stalls suffice to separate any
instruction from the next by up to two cycles, and two pairs by one, anywhere in
the image; all the races found need one. Three edges (up, down, up) let a pin
change again while its first edge is still on the way to the flag, and after it
has been read. `BootAddrDefault = 11` is the place of
`main()` in an image. The UART's FIFO depth of 16 is not reached by any text.

*Bounds by name.* `MaxStall` (cycles the core is held up), `MaxEdges` (changes of
the pins), `MaxJobs` (starts), `MaxDenied` (refusals), `NumWords`
(memory), `Prime` (values), `Grid` (distance of the arguments);
`OperationWrites`, `AddressWrites` and `NumberWrites` (words the managers write).

*What the properties say.*

* `CompletionMeansResults`: when a poll of DONE is answered with a non-zero
  word, every result of a well-formed job is in memory.
* `OutsideUntouched`: during a job memory outside the destination array stays.
* `ResponseMatchesRequest`: a response that is accepted answers the present
  request, not the duplicate of an earlier one.
* `EnginesInLockstep`, `ParametersFrozen`, `CounterInBounds`: isolation and
  progress of a job.
  A job that starts after a reset is not reached by `crocdic_top`, which has one
  job: `crocdic_job` explores it (two jobs and resets at any time), and the
  theorems of section 4 cover any number.
* `JobTerminates`: a job ends, unless its length is the largest register value:
  there the comparison at line 329 wraps and the job starts over for ever. (With
  a signed view, a length of -1. No program writes it.)
* `ImplementsJob`: all of it against the abstract specification.
* `MatchesSoftware`: hardware and C function agree in every bit, for the square
  root on arguments that are not negative (for every operand: `ResultsMatch`). `AngleConverges` and `Accurate` bound
  the errors of both.

* `JobStarts`: a program that writes to the start address gets a job started.
* `NoMismatch`, `NothingDropped`, `CompletionAwaited`, `ProgramEnds`: no program
  counts a mismatch, every register write is heard, the loop ends after its
  job and not before, and every program ends.
* `CountsOutstanding`, `AnswersReachTheirManagers`: counters, fifos and
  selections of the crossbar agree with what is outstanding, and every response
  goes to the manager it belongs to.
* `UnservedRequestsStay`: the assumption of `rr_arb_tree.sv:173`, that a refused
  request is still there in the next cycle. Only the error subordinate refuses,
  so only its arbiter locks; in `obi_xbar` the core's two ports meet there.
* `ServesUser`: the assumptions `CrocdicTop` makes of its bus (`Crossbar`): no grant
  without a request, at most three refusals, a response in the cycle after
  each grant and in no other. They hold because crocdic_top is input 0 of the
  tree, which an idle tree does not select, because its idle address 0 belongs to
  a peripheral, and because banks never refuse. `NoStarvation`: nobody waits for
  ever.
* `TestsPass`: no test of the repository fails, however the core is held up.
* `BootsWhenWoken`, `ReportIsFinal`, `HaltIsFinal`: the start and the end of a
  program. `ReportIsFinal` leaves out programs that write the core status
  themselves: `test_soc_ctrl.c:42` writes a pattern there, and the debugger's
  loop (`croc_vip.sv:272`) takes any value that is not zero for the end.
* `SleepsLongEnough`, `PeriodKept`, `TimeNotAhead`, `NoSpuriousAlarm`: time. The
  period in autoreset mode is compare + 1 cycles. `NoSpuriousAlarm` holds of the
  images' alarms. The driver writes the high half first, so that an alarm set
  back to a smaller high and a larger low half can raise a spurious interrupt:
  for a moment the new high half stands with the old low one. No image does it.
* `NoEdgeLost`, `OnlyAskedEdges`, `EdgesServed`: pins.
* `ConsoleShowsText`, `ReceivedInOrder`, `TextArrives`: characters.
* `ProgramsEnd`: every image that returns is reported as ended.

*What the violated runs show* (`findings` in `PROJECT.json`):

* `bringup`: the bring-up programs' registers have moved. Their first store,
  meant for the operation, hits the student names, where a write is answered with
  an error (`crocdic_top.sv:195`); the core takes a store access fault, the default
  handler returns to the store, and so for ever. No job starts (`JobStarts`), no
  poll is reached and nothing is printed.
* `timer_stale`: `obi_timer_set` leaves the sticky expired flag, so the interrupt
  of an earlier period counts for the new one. (`obi_timer_sleep` clears it, and
  `SleepsLongEnough` holds.)
* `clint_sleep`: the interrupt may be taken between enabling it and the `wfi`; the
  default handler disables it, and the `wfi` is never left. `obi_timer_sleep` has
  the same gap and survives it, because its timer goes on in autoreset mode.
* `uart_flush`: a byte written into the idle, empty transmitter does not clear the
  two empty bits of the line status: the clear (`obi_uart_tx.sv:139-144`) is
  overridden in the same cycle (258-265), and nothing clears them later. They stay
  set for the whole character, and a flush returns with the byte unsent; in
  `test_uart` the loopback is then switched off in the middle of the character.
* `gpio_pin_status`: reading one pin's status clears all.

*Outside the instance.* With `"ERROR"` as the address of `USER` in `MCObiXbar`, a
job over an array that nothing decodes, `UnservedRequestsStay` fails after three
cycles: the error subordinate refuses every other request, and crocdic_top, which
sees its grants a cycle late, withdraws the duplicate that was refused, against
the assumption of the arbiter tree (`rr_arb_tree.sv:173`). `CountsOutstanding` fails
as well: the locked arbiter carries the withdrawn request out all the same, and
one response too many makes the demultiplexer's counter wrap, after which the
port is blocked. No program of the repository names such an address.

Three more small facts of the sources: the comment at `gpio.sv:40-41` says that the
GPIO interrupt is asserted for one cycle, while the code (162-169) holds it until
the status is read, and `EdgesServed` relies on that: an edge that is flagged while
handlers are masked would otherwise not be served; the
comment at `test_soc_ctrl.c:21` puts the boot sequence at offset 0x5C, the
definition after it at 0x50, where it is; and `obi_timer_sleep(0)` never wakes,
since a compare value of 0 never expires.

*Fairness.* `CrocdicPrograms` assumes that a program is loaded and that a running
CPU does not stay `Elsewhere` for ever (`CpuRuns`). In `ObiXbar` time does not
stop. In `CrocSoc` the clock runs (`WF_clk(Clock)`), the debugger raises msip
(`WF_woken(Wakes)`) and goes on polling (`WF_reported(Polls)`), as its loops do.
`FairSpec` adds weak fairness of `Clock`, because the clock runs.
Nothing is assumed about which request arrives or when a refusal ends, beyond
`MaxDenied`. A reset may occur at any time and ends a job, so that termination
does not depend on it being rare.

## 4. What is proved

`CrocdicProofs` proves, for every memory size, `ITER`, `MaxDenied`, `MaxJobs`,
set of requests and arithmetic allowed by `ArraysAssumption`, `IterAssumption`
and `TopAssumption`:

* `TypeCorrect`, `NoStaleResponse`, `Lockstep`, `JobsAreIsolated`,
  `CounterStaysInBounds`: the corresponding properties are invariants.

None is inductive alone. `ResponseMatchesRequest` needs to know what is on the
bus one cycle earlier: `HandshakeInv` says that a latched grant in a request
state comes with this request's response on the bus, and that outside the bus
states no grant is latched. The second half excludes the stale grant of a
duplicate: it rests on the wait states, which drive no request and so separate
any two of them. `TypeOK` needs
`EnginesInv`: engines work only while the FSM waits, on the operation of the
register file, in lockstep, so an output is never that of another operation.
`CounterInBounds` is preserved by the wrapped sum because another chunk is begun
only if that sum is below the length. `IInv` is the conjunction; `TypeStep`,
`HandshakeStep`, `EnginesStep`, `FrozenStep` and `CounterStep` show that a clock
edge preserves its parts, one step for each FSM state.

Its second part builds on this, for the same constants and for every job that is well-formed (aligned arrays inside the memory, a length that is not
zero, an overlap that is safe):

* `NothingElseChanges`: `OutsideUntouched` is an invariant.
* `CompletionIsTrue`: `CompletionMeansResults` is an invariant.

The strengthening, `ResultsInv`, follows a chunk through the FSM. `Holds(mem,
job, r)` says that memory is the initial one with the first r results written.
It is true with r = `Results` while a chunk is read and computed, with r =
`Results` or `Results + 2` while its write is requested (it has been carried
out or not, and `WriteAddsResults` says that a second time does no harm), and with
`Results + 2` while the response is awaited. `ChunkInv` also hands on
the operands and the results themselves: what was read, what the engines took,
what they gave. `OperandsIntact` is the place of `OverlapSafe`: no result lies on
an operand still to be read. `LastChunkIsLast` is about the comparison that
ends a job, with the two sums that may wrap.

`CrocdicRefinementProofs` proves `Refinement`, `Spec => Job!Spec`, under
`DriverAssumption` (aligned addresses, a length below the largest register
value). Here a job need not be well-formed: arrays may overlap in any way or
pass the end of the memory, since `CrocdicJob` computes each chunk from the
memory it finds. `FreshInv` says that between its first read and its first granted
write a chunk is computed from the present memory; `WordLanes` that the two
lanes of a word are neighbours in an array also where addresses wrap.
`WriteRefines` is the step that takes effect, `ResponseRefines` the one that
finishes a job or goes on to the next chunk, and all other steps are a register
write, a start, an acknowledgement, a reset or a stutter.

`CordicReferenceProofs` is about the C function alone. Its `for` loop is the
recursive function `rotations` of `CordicReference`. A recursive definition is a
CHOOSE, so that such a function exists has to be proved first: `LoopExists`
proves it of any loop that stays in a set, by an induction on sets of numbers
(`SetInduction`: a set with 0 that is closed under + 1 has no least number
missing; the library's induction theorems take an operator and cannot be used).
`LoopRuns` then gives the registers turn by turn, and `ResultsAreShorts` that
every result of every software pass is a short.

`CordicProofs` proves `RotationConverges`: for every argument in -pi/2 .. pi/2,
the range the comment in `cordic_sin.c` allows, the angle left over before
iteration i is at most `Residual[i]`, so at most nine units at the end, and no sum
overflows. The run samples the arguments; the theorem covers all. The induction
runs over the fourteen iterations with `MoveTowardsZero` as its step and
`TableFitsResidual` as the only fact about the table.

It also proves `EngineTypes` (registers keep their widths for every operand;
`LoadTypes` and `CalculateTypes` treat the two branches of the FSM) and, from
that, `ControlAsUnit`: every step of the bit-level engine is a step of
`CordicUnit` with the same state, counter and done pulse. `CrocdicTop` and its
theorems use `CordicUnit`, so they hold of the design with the real engine.

Hardware and software run in lock step: `LockStep` says that in iteration `count`
the engine's x, y and z, read as signed words, are those of the C function after
`count` turns of its loop, on the operands the engine has loaded. `LoadMatches`
starts it (`LoadsAreArguments`: the engine's constants are those the C programs
pass), `TurnMatches` is one iteration against one turn, where `SignedSum` shows
that sixteen-bit registers cut a sum as an assignment to a short does and
`SameAngle` that both tables and both ways of doing a hyperbolic iteration twice
agree. From `LockStepInvariant` follow

* `ResultsMatch`: `MatchesSoftware` is an invariant, now for every operand and not
  a sample of them.
* `ResultsAccurate`: `Accurate` is an invariant, because the C function is as
  accurate as the comments say.

Both have hypotheses about the C function and nothing else: `RootsNotNegative` (the
register of a square root is not negative) and `SoftwareAccurate` (the error
bounds). They are closed statements about some 10^5 operands, with neither
constant nor variable; `MCCrocdicCordic` has them as ASSUMEs, so TLC evaluates
them to the last operand. What TLC samples in `crocdic_cordic` is thus only the
clock cycles; the arithmetic is complete.

`CrocdicProgramsProofs` is about every set of programs, `MaxDenied` cycles of
refusal and any delay of the CPU. Two hypotheses say what a program is to be;
both are ASSUMEs of `MCCrocdicPrograms`, where TLC evaluates them of the nine
programs.

* `ProgramsDisciplined`: `main()` writes registers only while no job of its own
  runs, and awaits DONE once for each (`Disciplined`, a statement about the text
  of the program). The bring-up programs are not disciplined: they write no
  register there is. That no access of a disciplined program is answered with an
  error, and so none traps, is `NoFault`.
* `ProgramsCompareEqual`: `main()` read as a sequential program, in which the
  results are in memory at once when DONE has been awaited (`InSteps`), compares
  equal elements only, and its jobs are well-formed.

`ProgInv` relates the place in `main()` to the accelerator: the access latched by
the register file is that of the present step, CROCDIC rests exactly while there
is no job to await, and the registers hold the latest writes. It gives

* `WritesArrive`: `NothingDropped` is an invariant, and
* `JobsAreAwaited`: `CompletionAwaited` is one.

`ComparingInv` adds `ReadingInv`: registers, the running job and, at rest, the
memory are those of the sequential reading so far. The step that takes work is
the read of DONE that ends a job: there the memory of the accelerator has to be
what the reading makes of it (`DoneIsCompleted`), which is the last conjunct of
`ResultsInv`, taken from `CrocdicProofs` with the sixteen-bit arithmetic in
the place of its parameters (`ConstantsFit` shows that it fits, by
`ResultsAreShorts`; `SameTick`, that the environment of the programs is one that
module allows). The result is

* `NoneMismatches`: `NoMismatch` is an invariant. How CPU, bus and engines
  interleave is settled for every program; TLC evaluates the arithmetic of the
  present ones.

`ObiXbarProofs` proves all invariants of `ObiXbar`, and `ServesUser`, for any set of
subordinates, any addresses that the other three managers may send, and any
order of their requests. The fifos have two entries (`NumMaxTrans`) and every
subordinate answers in the cycle after it takes a request, as in `croc_domain.sv`;
neither is a parameter.

* `XbarInvariant` has the parts `FifoInv` (a multiplexer's fifo holds the manager
  that its subordinate answers in this cycle, and nothing else), `ServingInv` and
  `OwedInv` (a manager is owed nothing, or one answer, which it gets in this very
  cycle from the subordinate its demultiplexer has selected), `LockInv` (only the
  error subordinate leaves an arbiter locked, on requests that stay) and
  `PatienceInv` (each refusal of crocdic_top moves the priority past one more of
  its rivals).
* `XbarTypes`, `DemuxesCount`, `AnswersArrive`, `RefusedStay`: `TypeOK`,
  `CountsOutstanding`, `AnswersReachTheirManagers`, `UnservedRequestsStay`.
* `UserIsServed`: `ServesUser`. This is the assumption `CrocdicTop` makes of its bus
  (`Crossbar`, `Sram`), so that it need not be taken for granted any more.

The hypothesis is `UserDecodes`: crocdic_top never sends an address nobody decodes.
It is needed (see *Outside the instance*), and the programs justify it, whose
arrays are variables the linker has put in SRAM. The code has no check of it.

`CrocSocProofs` proves six facts about every set of images, stall bound, slow
clock and set of pins:

* `BootWaitsForDebugger`: `BootsWhenWoken` is an invariant, if every image begins
  with the boot ROM (`StartsInBootRom`). `BootInv` says that until the debugger
  has woken the core, msip is clear, only the software interrupt is enabled and
  the pc is at the first two instructions: the pending timer interrupt cannot end
  the `wfi`.
* `NoEdgeIsLost`: `NoEdgeLost` is an invariant, if no image keeps one bit only of
  the interrupt status it loads (`WholeStatusKept`), which excludes
  `gpio_pin_get_interrupt_status` and nothing else. `AccessInv` ties the read in
  its response phase at the peripheral to the load the core waits for; `EdgeInv`
  says that an edge owed is flagged or about to be delivered by that load.
* `TimeHasCome`: `TimeNotAhead` is an invariant. `TimeInv` says what `main()` holds
  inside `clint_get_mtime`: a high half that has come, then with it a low half such
  that both make a time that has come. The function reads each half once and
  does not look whether the low half has wrapped in between. `HighGrows` and
  `OldHighHalf` say why the result can lag behind the time but not run ahead of
  it: a high half of before with the low half of now is not beyond the time.
* `EdgesWereAsked`: `OnlyAskedEdges` is an invariant. Setting up a pin is two
  read-modify-writes, of `INTRPT_EDGE` and of `INTRPT_EN`. `EnableInv` follows `main()`
  through them: what it holds is what the register holds, as no handler writes
  there, and a pin is enabled only once its edge is selected.
* `NoAlarmBetween`: `NoSpuriousAlarm` is an invariant. `AlarmInv` says that the compare
  value is the alarm last asked for, or, between the two stores, its high half
  with the low half of the one before. `TornAlarm` is the argument for writing
  the high half first (`clint.c:19`): such a mixture is not below both alarms, but
  for one case.
* `TypesCorrect`: `TypeOK` is an invariant, of all four peripherals, the core and the
  board. A peripheral keeps to its type only if it is asked sound things: the timer
  and the CLINT store the numbers they are given, GPIO the bits. So the invariant
  follows a word from where it is made to where it is stored. `CoreTypes` says
  that whatever `main()` or a handler holds is a word of 32 bits, `AccessTypes` that
  a read in its response phase is the one its peripheral answers, and `ArgumentInv`
  that `clint_set_mtimecmp` is called with a time of two halves. `FlowInv` says
  which instruction is next; `PortTypes`, the types of the peripherals with the
  UART's FIFOs and shift registers, closes the circle. `TimerTyped`, `ClintTyped`,
  `GpioTyped` and `UartTyped` are its steps, one for each peripheral.
  The hypotheses are `WellTyped` and `AlarmSetByDriver` of the images, and
  `BootAddrAssumption`: the default boot address is an address.

The three about time, edges and alarms are about functions that interrupts may
hold up between any two instructions, so they rest, as `TypesCorrect` does, on a
common invariant of the core, `FlowInv`, with its lemma `StepFlows`: every step leaves `main()` where it is, takes it to a place that
jumps and branches lead to, or advances it by one instruction that does what it
says. `CoreInv` is why: a handler runs with interrupts off and returns to where it
came from, or behind the access that faulted, and the access in its response
phase is the one of the instruction at pc. `JumpInv` says where a jump may lead: to
the boot address, which is the default one or a constant that the program has
stored, or to a constant it has just taken, as `test_soc_ctrl` does to enter the
boot ROM a second time. All images of the run are `Structured` in this sense.

`CrocSocDriverProofs` goes on from `FlowInv`:

* `HaltsForGood`: `HaltIsFinal` is an invariant. `MaskInv` follows the interrupt
  enables: whatever an instruction of `main()` finds enabled, another has enabled
  before it in the text (`EnabledAt`), and what `obi_timer_sleep` or
  `clint_sleep_ticks` has saved and restores is not enabled anywhere else. An
  image that keeps to this has everything masked at `_eoc`, so that no pending
  interrupt ends the `wfi` behind it.
* `ReportsAreFinal`: `ReportIsFinal` is an invariant. `ReportInv` says that the core
  status is 0 until `_eoc` stores there, that its store carries twice the return
  value plus 1, and that the debugger has read one or the other. It needs
  `HaltsForGood`: a core that left the `wfi` would not be where it was reported.
* `PeriodsKept`: `PeriodKept` is an invariant. `PeriodInv` follows `main()` through
  `obi_timer_set`: while the timer is off, or at 0 besides, it stays so until the
  enable at the end, and a `write_ctrl_reg_bit` writes back the other bit as it is,
  since no handler writes there between its read and its write (`WriteBitInv`).
  `ZeroAt` is why automatic reset cannot catch a count beyond its compare value.
* `SleepIsLongEnough`: `SleepsLongEnough` is an invariant. `SleepInv` has what holds at
  each instruction of `obi_timer_sleep` behind its last store: the counter has only
  counted since. With the flag of an earlier period still set, the core takes the
  interrupt in the place of the `wfi`, since both enables are on by then, so that
  a flag raised in the `wfi` is of this setting; and nothing else ends the `wfi`, as
  no other interrupt is enabled there (`SleepsAlone`).
* `CharactersInOrder`: `ReceivedInOrder` is an invariant. `ReceiverInv` says that every
  character the surroundings have sent is in one place, in the order of sending
  (`InOrder`): used, in the hand of `main()`, in the receive register, in the FIFO, or
  still to arrive. `data_ready` is registered and stays set for the cycle after the
  read of the last character; in that cycle `main()` has this character in hand
  (`Fresh`) and reads no status. `GetcharInv` carries a status once seen to the read
  it permits: a character that waits goes on waiting, with interrupts and stalls
  in between, since nobody else reads. `ControlInv` is `uart_init`: once the FIFOs are
  in use, the divisor latch is no longer in the receive register's place, and the
  loopback is off throughout.

Their hypotheses are about images, and how the programs are written justifies
them. `TimeReadByDriver`, `EdgesAskedByDriver`, `AlarmSetByDriver`, `TimerSetByDriver` and
`SleptByDriver` say that time, edges, alarm and timer are touched through the
functions of `sw/lib` only, entered at their start; `ReceivedByDriver` that a program
that receives characters sets the UART up once with `uart_init`, reads it with
`getchar` in `main()` only, uses each character at once, and is sent no more than the
16 that fit in the FIFO should it be slow (beyond them the UART drops
characters, and the order is lost); `MaskedAtEnd` that a program
masks what it has enabled before it returns, jumps or faults; `ReportedAtEnd` that
only `_eoc` writes the core status, unless the program means to; `WellTyped` that
programs use words of 32 bits, registers there are, interrupts the core
has, and set the timer within its range. A program that writes pins keeps to words of
as many bits as there are pins, since the model, unlike the code, does not drop the bits
beyond. `MCCrocSoc` checks all eleven hypotheses of all images of the run (`AllImagesAssumption`). Three more are
about behaviours:

* `TimeHasCome` and `NoAlarmBetween` assume `[][NoWrap]_vars`: `mtime`, a counter of
  64 bits, does not pass its largest value.
* `NoAlarmBetween` assumes that an alarm moved back to a lower high half and a
  greater low half (`MovesBack`) is one whose time has come already. This is the
  one case that `TornAlarm` cannot exclude, a limit of the driver and not of the
  proof (see section 3). With the time kept from wrapping, TLC finds the
  assumption true in every state of the run's images: only a torn read of the
  time in `clint_sleep_ticks` moves an alarm back, and that alarm is past.
* `HaltsForGood`, `ReportsAreFinal`, `SleepIsLongEnough` and `CharactersInOrder` assume `[]ChecksPass`: a
  program that checks something while an interrupt is enabled does not fail the
  check. A `CHECK_ASSERT` that fails there returns to `_eoc` with the interrupt
  on, and the timer of `test_interrupts`, in autoreset mode, would wake the core
  from its last `wfi`. Only that image has such a check (`ChecksEnabled`), and the run
  shows that it passes (`TestsPass`); of all others the assumption is true.

*Left to TLC:* the two hypotheses about the C function, the two about the
benchmarks and the eleven about the images, which are evaluated;
`TestsPass` and `ConsoleShowsText` of core and peripherals, which are about what
particular images do with the values they read; and what rests on
fairness, which the prover does not treat: `JobTerminates`, `ProgramEnds`,
`NoStarvation`, `ProgramsEnd`, `EdgesServed`, `TextArrives` and the progress part
of `ImplementsJob`.

## 5. Not modelled

* The core, the debug module and the JTAG link as hardware: they appear as what
  the programs and the testbench rely on. The final `wfi` can also be left by a
  halt request of the debugger, which is not modelled.
* The iDMA engine: `iDMAEnable` is 0, its place is taken by an error subordinate,
  and `test_idma` is modelled as far as it goes with that.
* The demultiplexers of the peripheral and user domain, which have a single
  manager each; bus ids; the error bit of the responses crocdic_top gets, which it
  ignores (the one of the responses it gives traps, see `CrocdicPrograms`).
* Accesses of single bytes to GPIO and SoC control (`soc_ctrl_regs.sv:99` clears
  the bytes that are not addressed; no software does it); two programs writing
  OUT at a time.
* UART: parity, other word lengths, line errors, modem lines, DMA mode, its own
  interrupts. GPIO and UART pads.
* `print_config` before its scan of the peripherals (line 119), which reads CSRs
  and constants; what the programs print about cycle counts.
* The technology wrapper of the SRAM (the behavioural one, latency 1, is
  assumed), pads, the implementation flow and the second copy of the design.

## 6. What could follow

The text on the console as a theorem, for programs that send with `printf` only; a bound on the number of jobs of a program
(`CrocdicPrograms` fixes `MaxJobs` at the two that `cordic_inverse_sqrt` needs); the
full UART FIFO with a longer text; the peripheral demultiplexer with the debug
module as a second manager of the peripherals.
