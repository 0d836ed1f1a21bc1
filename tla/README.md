# A model of librelogic

librelogic is a software PLC in C: a host program creates a `plc_t`, loads a
ladder program into it and calls `plc_func` again and again; every call is one
*scan* that reads inputs, executes the rungs of the program and writes outputs.
This directory holds TLA+ modules for the parts of it that keep state, TLC
configurations that model-check them, and proofs checked by TLAPS.

File names below are relative to the repository; `plclib.c` is
`src/vm/plclib.c` and `plclib.h` is `include/plclib.h`.

## 1. Inventory

| component | state | operations | what makes it correct |
|---|---|---|---|
| memory registers `%m` (`plclib.c`) | `p->m[]`: V, RO, DOWN, PULSE, EDGE, SET, RESET; `old->m[].PULSE` | `read_mvars`, `contact`/`set`/`reset`, `st_mem`, `check_pulses`, `write_mvars`, `save_state`, configurators | a pulse is counted once per rise, whatever coils drive it; V wraps in its word; every change is announced |
| timers `%t` | `p->t[]`: S, sn, V, P, Q, ONDELAY, START | `manage_timers`, coils, configurators | every counted scan counts once; no early output; a started timer fires |
| blinkers `%b` | `p->s[]`: Q, S, sn | `manage_blinkers`, configurator | exact period; blinks for ever |
| digital inputs `%i` | `p->inputs`, `p->di[]` (I, RE, FE, masks), `old->inputs` | `read_inputs`, `dec_inp`, `plc_force`, `plc_unforce` | contacts repeat the buffer under the masks; edges; changes announced |
| digital outputs `%q` | `p->outputs`, `p->dq[]`, `old->outputs`, what the hardware drives | coils, `st_out`, `enc_out`, `write_outputs`, `plc_stop`, forcing | precedence of coils, latches, bytes and masks; nothing is driven after `plc_stop` |
| tasks of a scan and their pace | locals of `all_tasks` and `task`, the clock, the static times of `plc_func` | `all_tasks`, `task`, `timeval_subtract`, `usleep` | a rung is cut off at its timeout, not before and not much after; scans begin one step apart |
| life cycle | `p->status`, `p->update`, `p->hw`, `p->rungno` | `plc_start`, `plc_stop`, `plc_load_program_file`, `plc_func`, `plc_reset_update` | outputs only on enabled hardware; errors hold; nothing escapes the update mask |
| rungs, stack and accumulator (`rung.c`) | `rung_t`: instructions, stack, `acc`, `prealloc` | `take`, `give`, `push`, `pop`, `append`, `clear_*`, `intern` | push and pop of a rung balance; limits hold |
| virtual machine (`plclib.c`, `data.c`, `instruction.c`) | accumulator, stack, program counter | `instruct`, `handle_jmp`, `handle_ld`, `handle_st`, `handle_stackable`, `operate` | the operation meant is applied to the operands meant; failures end the rung |
| code generator (`codegen.c`, `parser-tree.c`) | tree to instructions | `gen_expr`, `gen_ass`, `mk_*`, `clear_tree` | the instructions compute the value of the tree, with a bounded stack |
| IL parser (`parser-il.c`) | per line: parts, label, error; the rung | `parse_il_line`, `parse_il_program`, checks, `append`, `intern` | the rung says what the lines say; jumps land; a bad line is reported and refused |
| LD parser (`parser-ld.c`) | program of cursors and nodes | `parse_ld_line`, `horizontal_parse`, `vertical_parse`, `parse_ld_program` | the tree denotes the drawn circuit |
| analog inputs and outputs | `ai`, `aq`, `real_in`, `real_out` | `dec_inp`, `enc_out`, `st_out_r`, forcing, limits | scaling; what is forced is read and driven until it is lifted |
| real memory `%mf` | `mr` | `ld_mem_r`, `st_mem_r` | comes back as stored |
| simulated hardware (`hw/hardware-sim.c`) | two `FILE *`, buffers of characters | `sim_enable`, `sim_disable`, `sim_fetch`, `sim_flush`, reads, writes | no use of closed files; characters are the bits they stand for |
| gpiod hardware (`hw/hardware-gpiod.c`) | chip and lines | `gpiod_enable`, `gpiod_disable`, reads, writes | lines are released when not all are there |
| comedi, uspace, dry hardware | device or permission | the same operations | pins show old or new values only |
| plclite and host loops (`plclite.c`) | globals, signal handler | `main`, `sigkill` | outputs are off when the process ends |
| logging and statistics (`util.c`) | log level, sums | formatting | – |

How they interact. There are no threads: all calls are made by the host's one
thread, except the signal handler of plclite, so what interleaves are *calls*
of the host (start, stop, load, force, configure, reset the mask) with scans;
inside a scan, instructions of the program with its beginning and end, and the
plant, which moves while the scan reads it bit by bit; other processes, which
take lines of the hardware; and the end of the process, which may come at any
instruction. The parts share the registers of `plc_t`, its saved copy `p->old`,
and the mask `p->update`, which the scan only adds to and the host clears
(`plc_reset_update`); `save_state` copies registers only when the mask says so.
A scan is

    read_inputs, dec_inp (also clears outputs), read_mvars, manage_timers,
    manage_blinkers | sleep, all_tasks: one task per rung | check_pulses,
    write_mvars, enc_out, write_outputs, save_state

What is hard here: conditional saving against a mask the host clears; several
coils on one register in one scan; periods off by a scan; forcing, forcing the
other way and lifting; loops that walk bytes and bits with two counters; a clock
whose microseconds start again, and a sleep computed from two measurements of
it; one rung failing among several; two parsers whose errors leave half of a
program behind; words, bits and reals in one accumulator; hardware that is
enabled half way; a life cycle in which errors, loads, restarts and interruption
come in any order. `PROJECT.json` lists them as hazards, each at its line.

## 2. Modules

A component module holds the state of the code and nothing else. Its properties
that relate the state to the past are stated in an `...Observed` module that
EXTENDS it with history variables. Operators marked `BUG FORM` are plausible
mistakes in the definition that follows them; each property is shown to catch
one (`mutants` in `PROJECT.json`), and no specification uses them.

| module | what it is |
|---|---|
| `Counters` | memory registers under any sequence of coils and stores |
| `CountersOneCoil` | the same, and under the rule of the repository's README that an output appears once per program; implements `PulseCounter` |
| `PulseCounter` | abstract: a register samples a level per scan and counts its rises |
| `Timers`, `TimersObserved` | timers; scans counted, values the host saw |
| `Blinkers`, `BlinkersObserved` | blinkers; scans since the last toggle |
| `Clocks` | timers and blinkers under one host; beside each other, and against the documented scales, for run `Scales` |
| `Inputs`, `InputsObserved` | digital inputs and forcing; values forced since the last lift |
| `Outputs`, `OutputsObserved` | digital outputs; status with loads and failures, how the PLC came to rest, bytes stored in the scan |
| `Analog` | analog inputs and outputs, their limits and forcing |
| `Transfer` | bits and samples on their way between registers and hardware, by each back end |
| `Signals`, `MCSignals` | digital inputs, digital outputs, analog channels or the transfer |
| `Task` | `all_tasks` and `task` with the clock |
| `Pacing` | `plc_func` around it: the times it measures and the sleep |
| `Times` | `Clocks` or `Pacing`: what is counted in scans, and what is measured by the clock |
| `Plc`, `PlcObserved`, `MCPlc` | composition of the five digital register modules with the life cycle; what the host saw |
| `Backends` | what each back end acquires, holds and gives up |
| `Host`, `MCHost` | `Plc` on `Backends`, with other processes, and the interruption and restart of this one |
| `RungVM` | the machine of one rung: accumulator, stack, instructions on bits, scans that fail or time out |
| `Words` | the same machine on words and reals: types, operations, the bytes of operands |
| `Codegen` | trees to instructions (`gen_expr`, `gen_expr_left`, `gen_expr_right`, `gen_ass`), as operators |
| `Ladder` | from a ladder through trees and instructions to the coils; EXTENDS `RungVM` and `Codegen` |
| `Machine`, `MCLadder` | `Ladder` or `Words`; two programs no ladder makes, and groups of operands |
| `ParserLD` | ladders of characters to statements: cursors, nodes, crossing lines |
| `Drawing` | abstract: what a drawn ladder means, column by column, without cursors |
| `ParserIL` | lists of lines to a rung: parts of a line, checks, labels, jumps |
| `Listing` | abstract: what an instruction list means by the table of the repository's README |
| `Loader`, `MCLoader` | `plc_load_program_file` with either parser; small ladders and lists |
| `CountersProofs`, `TimersProofs` | theorems about registers, and about timers and blinkers, alone and under one host |
| `SignalsProofs` | about digital inputs, digital outputs, analog channels and the transfer |
| `PlcProofs` | about the composition with the life cycle, and with the back ends |
| `PacingProofs` | about tasks and their pace |
| `Binary` | powers of 2 and the bits of a number, as the code takes bytes and words apart |
| `BinaryProofs` | lemmas: least elements, induction and recursion; division, powers and bits |
| `MachineProofs` | about the machine of a rung, ladders from symbol to coil, and words |
| `LoaderProofs` | about loads: what a list becomes, where its jumps lead, and what the coils of a drawn ladder get |

**phase.** Every digital register module has the variable `phase`, `"host"` between scans
and `"tasks"` while the rungs execute. Its `BeginScan` is what `plc_func` does
to the component before `all_tasks`, its `EndScan` what it does after, and
instructions happen in between. `Plc` instances the five modules with the same
`phase`, so that the `BeginScan` of the composition is the conjunction of
theirs; the components share no other variable.

**The program** is open in the register modules: any instruction may come at any
time during the tasks. This includes what every program can do, in any number of
rungs; what a particular one does is a restriction, such as `CountersOneCoil`.

**Loading.** `ParserLD` reads a line cell by cell as `parse_ld_line` does, with
the number of characters it passes over; `VerticalParse` does to the statements
of the lines what `vertical_parse` does at the node that `find_next_node` gives.
`Drawing` computes from the same cells which operands let power through to a
coil, and `CoilsAsDrawn` compares the two for ladders that are `WellDrawn`:
written in the README's symbols with operands spelled out, nothing behind a
coil, and without the drawings of section 4. `ParserIL` parses one line per step, into a piece
before the last colon and one after it, and stores, drops, skips or refuses it;
`Listing` says from the same text what the rung must be.

**The machine.** `RungVM` executes one instruction per step. `Ladder` puts
before it the parser's statements, in the order the parser meets the symbols,
and the code made of them. `gen_expr` is recursive, but what it makes of an
expression depends on its items, operation and modifier and on the operation
that waits for it, and nothing else looks into an expression: `Expression`
represents one by its code for each waiting operation (`GenExpr`), and so builds
from below what the code builds from above. Beside each statement `Ladder` keeps the set of
inputs for which power reaches the end of the line (`power`): series is
intersection, a node is union. The properties compare the coils of complete
scans with `power`; trees and instructions do not occur in them. Scans read
different inputs each, may time out before every instruction, and fail at an
operand beyond the configured ones, and the next scan begins with the
accumulator and the stack they leave. `Words` executes any instructions of a
group (`Lists`) in one scan, on an accumulator that holds an integer or a real
and does not say which.

**The host.** `Host` gives each action of `Plc` what it does to the back end:
`plc_start` enables, `plc_stop` disables, a scan begins with a fetch. Enabling
succeeds as the back end decides. `Interrupted` is the signal handler with the
start of the next process: registers, copies, mask, rungs and handles anew, the
plant as it was left.

**Data.** A byte is the set of its bits that are 1, and a number in `Transfer`
and `Words`. A register value is a number modulo `VMod` (2^64 in the code). A
real number is one of a few integers; in `Analog` it counts units of 1/`FULL`,
so that scaling is exact. Conversions that C leaves undefined give any result.
All negative statuses are `"ERROR"`. Forcing bounds (`n < NI`: number of bytes
compared with a bit index), the byte loops that only reach byte 0 (`Reached`),
and the edges computed from a copy that is never saved (`Decoded`) are modelled
as they are.

**Correspondence.** Actions carry the names of the C functions or, for a part of
a function, of its purpose; `map` in `PROJECT.json` names the lines of each.

## 3. Runs

| run | question | result | distinct states |
|---|---|---|---|
| `Counters` | registers under any coils in any order, or one ST coil each | saved pulses are the present ones between scans; every rise is counted, a held pulse once; `PulseCounter` implemented by the second kind | 227,952 |
| `Times` | timers of both delay modes, stopped and restarted, or blinkers; or two rungs that jump at will, scan after scan | every counted scan accounted for, with the periods the code keeps; no early output; nothing unannounced; a started timer fires, a blinker blinks for ever; no timeout before its time; rungs that begin early enough in a second are cut off in time; scans one step apart while the work fits | 519,762 |
| `Signals` | two bytes of inputs, two of outputs, an analog channel, or bytes and samples in transfer | changes announced; nothing driven from `plc_stop` to the next start, through loads and failures; forced is forced until lifted; inputs are found as the plant had them; pins show old or new values only | 837,663 |
| `Ladder` | every small ladder, generated and executed, two programs of other origin, and instructions on words and reals | coils follow the circuit in each complete scan; a rung pops what it pushed; nothing is executed past a missing operand; what is stored is loaded; results fit their types | 6,144,864 |
| `Load` | files of either language | well drawn ladders and well formed lists are parsed as they mean; jumps land; every load ends | 1,018,261 |
| `Host` | every back end; starts, failing starts, stops, loads, errors, interruption in any order | scans and outputs on enabled hardware only; an error holds the outputs; a running PLC holds what it uses; half enabled lines stay so | 62,952 |
| `PlcMask` | all digital register modules together, with stops, loads and failing rungs | a host that looks only when the mask is not 0 misses nothing it displays; outputs excepted from a stop until it has looked after the next scan | 4,243,144 |
| `LadderClosed` | `Ladder` with negated contacts anywhere | **no**, section 4 | |
| `LoadErrors` | is an accepted program free of errors? | **no**, section 4 | |
| `TaskLate` | is every looping rung cut off? | **no**, section 4 | |
| `Overrun` | is the sleep at most a step? | **no**, section 4 | |
| `Scales` | does a timer of scale S count every S scans, or a blinker toggle? | **no**, neither, section 4 | |

Bounds and why they are enough. Registers, timers and blinkers do not read each
other, so two of each show every interaction that goes through the shared mask
and the conditional saving. `VMod` 3 wraps upwards and downwards within a few
scans. Scales {0, 2} and presets {0, 2} contain the boundary 0 and a value that
needs several scans; scales of blinkers contain "off", the shortest period and
a longer one. Two bytes are the smallest number for which byte loops differ
from bit loops, in `Signals` too, where `ASCIISTART` = 1 leaves both digits and
characters of the upper half in a byte of two bits, and `Wired` = 3 one bit of
the second byte without a line. An analog channel has raw words 0 to 2, and
limits and values on both sides of 0. `Times` has either registers or tasks
in use (`InitTimes`), which read nothing of each other; it has two rungs of two
instructions and a second of a few timeouts, so that a rung begins at each
distance from the end of a second; `MaxIO` exceeds the second, and `Word` is
more than any time that can pass.

`Ladder` has two lines, three contacts on three operands of which one is
missing, two columns of nodes and the four kinds of coils: series in parallel,
parallel in series and shared branches all occur, with branches two deep.
`MAXSTACK` = 16 (256 in the code) is passed by the longest of these ladders,
which are refused, and reached by a program that pushes in a loop. `Cuts` = 2
lets one scan be cut short and others follow it, before a new PLC is made; a
drawn ladder leaves at most a few frames per cut scan, so that there is always
`Room` for a complete scan here (see section 4 for when there is not). Its words have bytes of two bits,
and one or two bytes; the groups of operands combine the kinds that are loaded
differently, with operations of each sort.

`Load` has ladders of three lines, the fewest that can be crossed, from some
twenty shapes of line with two columns of nodes, errors and missing coils, and
operands without a number, with 255 and with 256; and
lists of up to `MAXBUF` = 4 lines in a rung of `MAXSTACK` = 3, so that both
limits are met, from some twenty-five lines with every error, duplicate labels,
blanks, comments, and jumps forwards, backwards, to nowhere and without a label. Bytes keep their 256
values, so that numbers wrap.

`Host` has one line of output and one of input for gpiod, the fewest that can be
half enabled; `Loads` reaches `MaxRung` = 3 (256 in the code), where the number
of rungs wraps. `PlcMask` has one register of each kind, because composition is
its question; its word has one value, so that the direction and the read only flag of a
register tell nothing apart and are fixed (`InitPlc`). The only bounds that are not bounds of data are `Loads`,
`Contacts` and `Nodes` (the size of a drawing), `Cuts`, `MaxTime` (an instruction
takes at most so long, less than a second), `MaxIO` (the time between two
scans) and `Horizon` (where the history variables of time stop counting).

Fairness. `Fires` and `Blinks` assume that the host calls `plc_func` again and
again and that each call ends: the loop of plclite does nothing else. The
program is under no fairness: a timer need only fire if it *stays* started.
`EarlyLoopCut` assumes that the process runs and that, while a rung executes,
infinitely many instructions see the clock advance; the clock of the code is
real time. `LoadEnds` assumes that a call that has begun goes on. Deadlock is
checked in all runs but `Load` and `LoadErrors`, where a load that has ended has
no next step.

## 4. Where code and documentation disagree

With a run that shows it:

- A negated contact that does not become the first instruction of its coil
  (the one just before the coil does) gets the modifier `NEG|PUSH` from
  `gen_expr`; `handle_stackable` compares the modifier with `IL_NEG` and with
  `IL_PUSH` and finds neither, so that the contact is applied as it is and
  nothing is pushed. `!i0/1--i0/2--(` computes i0/1 AND i0/2 (`LadderClosed`).
- `task` measures time by `tv_usec` alone. A looping rung that begins within a
  timeout of the end of a second is never cut off (`TaskLate`). The time is never
  too short (`NoSpuriousTimeout`, proved), and it is right for a rung that
  begins early enough (`TimeBounded`, proved).
- `plc_func` subtracts from its step the time since the last tasks and the time
  those took, and gives `usleep` the difference, negative or not: after a scan
  longer than a step the PLC sleeps for more than an hour (`Overrun`), where a
  comment says it is "supposed to be called every T msec". That scans are paced
  by the step as long as all work fits in one, and in a second, is proved
  (`PacedByStep`).
- `manage_timers` counts S scans in `sn` and increases V in the next one, every
  S + 1 scans; `manage_blinkers` toggles every S + 2. `plclib.h` says of S
  "S=1000=>increase every 1000 cycles" (line 140) and "S=1000=>toggle every 1000
  cycles" (line 158). `ScaleIsPeriod` says that one of the two is right, and
  `Scales` ends in a state in which both a timer and a blinker are late.
  `TicksAccount` and `BlinkPeriod` state the periods that the code keeps.
- The error of a line is overwritten: `parse_il_program` returns the result of
  `intern`, `parse_ld_program` that of `vertical_parse`. A program with a line
  in error is accepted and runs as far as it was parsed, where `parser-il.c`
  says "execute command if no errors" (`LoadErrors`).

Modelled as the code has it, without a run of their own:

*Digital inputs and outputs*

- `dec_inp` does not restart its bit counter for the second byte: contacts
  beyond byte 0 are never decoded, though `ut-lib.h` says "everything in buffer
  should be transferred to inputs" (`Reached`). `enc_out` is the same.
- `old->di` is never written, so `RE` is equal to `I` in every scan, and `FE` is
  never set (`Decoded`); the README calls `r` the rising edge.
- Forcing a contact to 1 after forcing it to 0 leaves it 0 (`ForcedContacts` has
  this precedence); a change by forcing is not announced; operands are bounded
  by the number of bytes; a byte stored by the program is not masked
  (`ForcedCoils` excludes such bytes).
- `plc_stop` does not clear `old->outputs`: after a restart outputs may go on
  unannounced. `OutputsAnnounced` holds up to the first stop; `SilenceMeansSame`
  of the composition speaks of outputs again once the host has looked after a
  scan (`behind`).
- A load, or a failing start, of a running PLC and a scan that fails leave the
  outputs on, under the status `ST_STOPPED` or an error: `StoppedIsDark` is about
  the rest that `plc_stop` brings, and not about the status.

*Analog channels*

- A channel is forced when its mask is strictly within its limits: one whose
  limits have different signs is forced to 0 from the start, and moving limits
  may force or free a channel (`Limit`). A force outside the limits is ignored.
- At full scale, and beyond the limits, `enc_out` converts a number that a
  `uint64_t` does not hold; on common machines full scale drives 0. `plc_stop`
  drives the lower limit, not 0.
- Values are compared with `old->ai` and `old->aq`, which nothing writes, by the
  `abs` of integers: a value of 1 or more is reported as changed in every scan, a
  smaller one never (`Noticed`).

*Hardware*

- A comedi sample has 32 bits and is scaled as a word of 64: every input reads
  about its lower limit, and an output keeps the low 32 bits of its word.
- The simulation ends its buffers at the first byte that is 0: an input byte of 0 hides
  those after it, an output byte of 208 codes to 0 and holds up those after it.
  Characters of the upper half are not decoded, and are subtracted from an analog
  word. After `sim_disable` the closed files are used again (`closed`).
- A failing or repeated `gpiod_enable` leaves lines requested, and is then
  blocked by them until the process ends (`HalfEnabledIsFinal`).
  Starting on uspace or gpiod clears the outputs, on the others not.
- The signal handler of plclite, "graceful shutdown", neither stops the PLC nor
  disables the hardware: outputs stay on (`left` of `Host`).

*Registers*

- An R coil on a register whose pulse is high leaves an edge under a high pulse,
  which is counted although the pulse has not risen; so the refinement of
  `PulseCounter` is one of ST coils only. Stores into `%m` ignore RO.
- V of a timer is never cleared: `down_timer` is not called; a timer
  restarted after it has fired fires at once. An ST coil starts a timer whatever
  the accumulator holds. A change of a timer's Q without one of V is not
  announced, nor is a value that the program stores in `%m`: neither is in the
  `Display` of `PlcObserved`.

*Life cycle*

- `plc_stop` has no effect on a PLC in error, whose outputs stay on
  (`ErrorHolds`), nor on one into which a program was loaded while it ran, which
  is "stopped" with outputs on.
- `plc_start` and `plc_stop` overwrite pending bits of the mask, and errors do
  not raise the status bit. `all_tasks` keeps the result of the last rung only.
  `rungno` is a byte that wraps to 0 with the 256th rung.
- A refused program leaves the rung with the instructions made so far; a later
  load makes the status that of its own rung, and the PLC then executes both
  (`LoadRung` of `Plc` counts the rung; `Ladder` begins again with a new PLC).
- `plc_init`, which sets the first time `plc_func` measures from, is never
  called: the first scan sleeps for any time up to a step (`InitPacing`).

*Machine*

- `negate` complements 64 bits, and any of the results is TRUE as a bit: a
  negated AND, OR or XOR of an IL program applies TRUE (`Operate`), and a bit
  that is loaded negated becomes a word. The macro `BOOL` is not parenthesised;
  `ST!` of a bit gives TRUE for a value above 1; `ST!` on `%m`, `%mf` and timers ignores
  the negation.
- A pop computes in the type of the operand after the bracket, not of the one
  before it. AND, OR and XOR of reals give 0, a division by 0 gives -1. Any bit
  of `%c` is the whole command byte.
- Accumulator and stack are not restarted with a scan. A rung that is cut short
  inside a branch leaves its frames for ever, and once they fill the stack
  `handle_stackable` ignores that `push` fails: later scans compute without the
  operations lost. `CoilFollowsCircuit` and `StackRestored` hold while there is
  `Room`, as there is until a scan is cut short (`LadderUncut`, proved).

*Ladders*

- A line without contacts contributes nothing to a node, although power reaches
  it; a coil on such a line makes `gen_ass` refuse the program.
- The number of an operand is taken modulo 256: `i256/0` reads `i0/0`. A missing
  number, 255, and anything but a digit up to 7 after the slash are errors of
  the line (`BadContact`, `BadCoil`), which do not refuse the program
  (`LoadErrors`). `WellDrawn` asks for operands that exist (`NumbersExist`).
- The last three conditions of `WellDrawn`, `WireAfterContacts` and `OwnBits`
  name the drawings that are read differently from what they show: what is drawn
  behind a coil is never read, and does not reach the lines it leads to;
  nodes in columns left of the number of a line with nodes are passed over;
  a line crossed by another loses a node further on; the bit of an operand is the one of the
  next slash on the line, whosever it is; after a contact as many characters are
  passed over unread as an operand with a bit would have, 10 counted as
  a number of one digit and 100 as one of two.

*Lists*

- `AND!` and `LD!`, which the README lists, are refused (`GoodModifier`).
- All in front of the *last* colon is the label: "a:b:" is one. The label of a line
  without an operation is lost. A second instruction with a label, and one more
  than the rung holds, is dropped in silence (`Drop`), and the program runs
  without it; `JumpsLand` says what then still holds of its jumps. A jump that
  names none keeps the operand 0 and leads to the first instruction; `JumpsLand`
  speaks of those that name one.
- The number of an operand is taken modulo 256, and 255 for an error. A line whose
  operand is in error is stored with what was read of it, and an unknown
  letter after ST passes for an output (`GoodOperand`).
- Operands of two, four and eight bytes, which the machine implements, cannot be
  written in either language.

## 5. Proofs

TLAPS proves what follows for every value of the constants under the named
assumptions of the modules: sets of registers of any size, any word, any number
of bytes and bits, any timeout and clock, any size of the stack, any programs,
ladders and lists. The assumptions say that numbers are numbers and sets are of
the right kind; those that say more are

- `AnalogAssumption` of `Signals`: limits are whole numbers, so that scaling
  an input to its limits is not rounded;
- `WordAssumption` of `Pacing`: a word is more than a step, as 2^32 is;
- `LineAssumption` of `Ladder`: the lines are those from 1 to some number;
- `LinesAssumption` of `Loader`: lines have the parts they are divided into, and
  no jump is written without a modifier (section 6);
- `WordsAssumption` of `Machine`: an operand has 1, 2, 4 or 8 bytes, as the code
  has, each of any number of bits, and a real is a whole number, as in the model.

Some theorems have a hypothesis besides: `~Reconfigure` where a property speaks
of registers that are set up once (reconfiguring the scale of a timer breaks
its account by definition, and a register made writable with an edge pending
counts it), and `Closed = "last"` where one speaks of ladders whose negated
contacts are next to a coil (section 4 has the others, which are compiled
wrongly). The runs have instances of both kinds.

**Registers** (`CountersProofs`). Type correctness is inductive, and
`PulseBaseline` is inductive with it: if no pulse changed since the last
saving, not saving changes nothing, and if one did, `check_pulses` raises the
bit that makes `save_state` copy; whether the host has reset the mask does not
matter. `RisesCounted` follows from types alone: a rise makes an edge in
`check_pulses`. That the registers implement `PulseCounter` under the rule of one
coil each (`CountersImplement`) needs `OneCoil`: before its coil is executed the
pulse of a register is the saved one and, if high, has been counted; afterwards
the edge says whether the pulse differs from the saved one. Initial states map
to initial states, and each step to a step or a stutter.

**Timers and blinkers** (`TimersProofs`). The invariant is the account itself,
V(S + 1) + sn = scans counted with sn <= S and V <= P, and for the outputs, that a
timer off its rest has finished its delay. For a blinker it is that `sn`
counts the scans since it toggled, at most S + 1. `ClocksAreAnnounced` holds
because what the host has not seen is either in the mask or will be when the
present scan ends (`TicksKnown`, `TogglesKnown`).

**Inputs, outputs, analog channels** (`SignalsProofs`). During the tasks
`iChanged` is whether the buffer differs from the copy; between scans buffer and
copy agree; while the bit is clear what the host saw is the copy. Of the
outputs, until the first stop what the hardware drives *is* the copy
(`OutputsSaved`), and a byte not stored in this scan is as `dec_inp` left it, so
that the masks rule it. The masks of an analog channel are as the host asked
last, and a forced value stays strictly within limits that are not moved
(`MasksAsAsked`); then reading it and encoding it gives it back. Of a PLC at rest
(`dark`) no action but its start lets a scan begin, and nothing else writes to the
hardware (`SignalsStoppedDark`).

**Transfer** (`SignalsProofs`). Bits go one at a time, each by a number that is
taken apart and put together by powers of 2. `ReadInv` says of each bit on
which side of `n` it is: below it the byte has what the back end found at that
contact, above it nothing (`BitsSoFar`); and of the history that it has the value
the pin shows now (`PlantSeen`). `WriteInv` says the same of pins, of the latch of uspace
and of the characters of the simulation (`BitsWritten`), so that a scan that has
written leaves nothing of the one before (`SignalsWrittenOnce`), and all that was
read was there at some time of this scan (`SignalsAsFound`). What is needed of
numbers is in `BinaryProofs`: bits change one by one (`BitChanged`), and two
numbers with the same bits are the same (`SameBits`).

**Life cycle** (`PlcProofs`). The invariant of `PlcSilence` says
of each kind of register that what the host has not seen is in the mask, or in
a flag that will be when the scan ends (`Known`); what is proved of counters and
timers alone is used of those in the composition. Every step begins or ends the
scan of all registers, overwrites the mask, or touches what the host does not
see (`StepKinds`); `plc_stop` and `plc_start` overwrite it with the bit of the
status, which tells the host to look. `plc_stop` also leaves the saved outputs
different from the present ones: `behind` says so until the host has looked after
a scan has saved them again. For `Host`: tasks run only on a
running PLC, and only hardware that is there is enabled (`LifeInv`); all that
gpiod ever holds are its own lines (`BackendInv`), which then block it, the first
line in the way deciding.

**Tasks and their pace** (`PacingProofs`). The measured `delta` is at most
`elapsed`, and equal to it as long as the second has not ended (`Measured`,
`Accurate`). `Timed` says what the clock is worth: less than a second after tasks
began it shows when that was, and once they have ended `runTime` is that time;
so the rest of the work and the sleep make up the step exactly. `PacedTasks`
shows that paced scans are scans of module `Task`, so that what is proved of that one
holds of them.

**Rungs and ladders** (`MachineProofs`). `RungType`: the stack of a rung stays in
its frames, for any sequence of complete, failing and timed out scans; it is
inductive but for the bound of the model on cut scans, which needs that a scan
only begins below it. `RungNothingPastFailure`: whatever has been executed of
this scan has read operands that are there (`Passed`). `LadderRungs` carries both
over to rungs that are made of ladders.

`LadderCoils` is the correctness of the compiler: parser, code generator and
machine together. The argument goes from below.

1. A *trace* of some code is a sequence of states, one more than it has
   instructions, each of which the next instruction takes to the next (`Trace`),
   on a stack without end. Traces are composed (`LeadsOn`).
2. Code *computes* a set of inputs, for an operation that waits, if from every
   state it leads to one with the same stack and coils, whose accumulator says
   whether the inputs are in the set; where an operation waits, the frame it
   needs is pushed, and only that (`Computes`).
3. The tree of each line *means* its `power`: its code computes it for each
   operation that may wait. This is kept by a contact in series (`SeriesMeans`) and by the OR of
   a column of nodes (`ParallelMeans`, line by line in `JoinedMeans`).
   A line that ends in a negated contact computes it only where nothing waits
   (`MeansAlone`), which is why negated contacts elsewhere go wrong.
4. The code of the ladder *follows* it: from any state it leads to one with
   the same stack in which each coil has the effect that is due
   (`GeneratedFollows`). This is the invariant `RungFollows` of what is installed.
5. A scan is at each instruction in the state of such a trace, `OnTrack`, as long
   as the stack of the machine has room for what the endless stack holds:
   code that gives back the stack it found goes no deeper than half its length
   (`TraceDepth`), and `Room` says that there is so much left. A scan that fails or
   times out ends its track; the next one begins on another, whatever
   accumulator and stack it finds.

`LadderStack` follows in the same way. `LadderUncut` says that `Room` is no
condition until a scan of the ladder is cut short: then the stack is empty
between scans (`Uncut`), and no code that `append` accepts is too deep for
it.

The OR of nodes and the code of a ladder are defined by recursion over the lines,
as recursive functions. What holds of them for any number of lines needs
induction, of which the theorems of the library cannot be used by these provers;
here it is had from a fact about sets alone: a set of numbers that is not empty
has a least element (`LeastNatural`), by the well-founded order of finite sets;
so numbers without a property have a least one unless there are none
(`Induction`), and the approximations of a recursive function agree (`Recursion`).
So it is with the powers of 2, the bytes of a word, and the columns of a drawing.

**Words** (`MachineProofs`). `MachineRungs`: a machine that also executes lists of
words does to ladders what `Ladder` does, so that all of the above holds of it
(`MachineCoils`). The invariant of words is `WordInv`: what is stored is in the
registers as bytes, the accumulator fits the type it was made in, and what was stored last
is loaded from where it is. It rests on what `ld_bytes` and `st_bytes` do for
every size: the sum is the number of which the bytes are the digits
(`BytesOfDigits`), and these digits are what a store leaves, the highest in the first byte
(`BytesStored`); and on what range each operation has for each type (`OperateRange`).

**Lists** (`LoaderProofs`). Only `intern` sets targets, and it sets that of a jump
to the first instruction with its label; that the first exists is `LeastNatural`
again. Until then all that is in the rung are instructions as lines leave
them (`Appended`), which is `LoaderJumpsLand`, for lists of any quality.
`LoaderAsWritten` is about lists that keep the rules. `LineRead` says what
`parse_il_line` makes of one line: nothing, or the instruction the line
means, without an error. `ListInv` adds to types that the rung follows, instruction by
instruction, the lines so far that say something (`Follows`), as long as these
are tidy: well formed, no more than the rung holds, and no label twice. A list that is
tidy has been so before its last line (`TidyBefore`), so that each line follows the
rest (`LineFollows`); when `intern` comes, each jump has a label that exactly one line
has, and gets its number (`InternFollows`).

**Drawings** (`LoaderProofs`). `LoaderCoils` relates cursors to columns: the parser
goes along each line as far as a node and comes back for the next line, where
`Flow` goes column by column through all lines at once. `DrawnInv` says
of a well drawn ladder that

- a line that is to be read on stands at a symbol it can read, in front of its coil, and its tree is
  what `Flow` has at its column (`Arriving`); a line that is done has for its
  coil what was meant, and no node or crossing further on (`Arrived`);
- where one line has passed a node, every line that is not done has passed that
  column too (`Front`). This makes the lines that meet in a column arrive there
  together, and is what `find_next_node` is for: it takes the leftmost node
  (`FirstNode`);
- a line was left behind a negation only if it is being read (`Negating`), and all
  lines above the one that is read are at their nodes (`AtNodes`).

`AtColumn` draws from these what `vertical_parse` needs: a line in the column of the
node has a node there exactly if its cursor is there, and is crossed exactly if its
symbol says so. Then the lines it joins are those the drawing connects
(`BranchesDrawn`), and what it makes of them is what `Flow` has behind the node
(`JoinDrawn`). For the steps along a line the characters matter: what is passed over
unread behind a contact is the rest of its operand and wire (`ContactPassed`), through
which `Flow` passes (`FlowContact`). No symbol is in error (`NoBadSymbol`).
`LadderCoils` begins where this ends, with the symbols in the order in which the
parser meets them.

Only model-checked: liveness (`Fires`, `Blinks`, `EarlyLoopCut`, `LoadEnds`), which
needs ENABLED, and the five runs that refute. Every invariant and every action property
that a passing run checks is a theorem too.

## 6. Not modelled

- The analog outputs of the simulation: a word is printed as hexadecimal text
  into a buffer that is too short for most words, so that what is written
  cannot be said from the code.
- Jumps of lists without a modifier: `parse_il_line` takes the label from a
  pointer that nothing has set. `LinesAssumption` of `Loader` excludes them.
- What `sigkill` frees while the interrupted scan may be using it: the process
  ends at once, and what matters for the plant is in `Interrupted`.
- Freeing (`destroy_program`, `clear_lines`), except where the state goes on
  without what was freed.
- `plc_clear` between two PLCs of one process; the host of the repository makes
  one.
- The lists of code lines of a rung, timing statistics, nicknames, logging, type
  names, the reading of the command line: text that no control depends on. More
  lines in a file than `MAXBUF` overrun the table of lines (`plclib.c:1465`); files
  are shorter here.
- The unit tests under `tst/` are read for what they assert, and not modelled.

## 7. Plan

1. One theorem from characters to coils: the symbols that `ParserLD` reads
   of a drawing, in the order it reads them, are a ladder of `Ladder`, and
   `Flow` is its `power`.
2. Lists with errors: which lines of an accepted one its rung follows.
3. Analog channels in `Plc`: the mask bits they share with digital ones.
4. The analog outputs of the simulation, once their buffer is as long as a word.
