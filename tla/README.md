# SpecCircuit in TLA+

SpecCircuit (the C++ library `FlatCircuit`) simulates synchronous circuits and
*specializes* them: when some inputs of a circuit, such as a configuration, stay
constant, it replaces them by constants, folds what they determine, deletes what
is dead and simulates the rest.  The program is sequential.  What is hard in it
is not concurrency between threads but three kinds of order and agreement: a
netlist whose wires are recorded at both ends and edited one end at a time, an
event queue that decides what is evaluated again, and clock edges found by
comparing a value with one remembered from an earlier signal.

Paths below are relative to `src/` of the repository.

## The system

| part | source | state | operations | model |
|---|---|---|---|---|
| netlist | `src/circuit.h`, `src/circuit.cpp` | cells, drivers and receivers of every bit, next identifier, port cells, names | addCell, addPort, setDriver, connect, deleteCell, bulkDelete, replaceCellPortWithConstant, definitionIsConsistent | `Netlist`, `Circuit` |
| interpreter | `src/simulator.h` | values, past values, registers, memories, combChanges, seqChanges, userInputs | constructor, setFreshValue, update, refreshConstants | `QuadValue`, `CellSemantics`, `Simulator`, `Specialize` |
| value store | `src/value_store.*` | one table and four maps of offsets; a raw two-state table | get and set of each kind of value, buildRawValueTable, setCompiledRaw | as variables of `Simulator` and `Compiled` (with masks of unknown bits) |
| bit vectors | `jitted_utils/quad_value_bit_vector.h` | none | four-valued logic, arithmetic, comparison, shifts | `QuadValue` (one bit), `Words` |
| transformations | `src/transformations.cpp` | candidates, sets of cells to delete | foldConstants, deleteDeadInstances, deDuplicate, removeConstDuplicates, cullPassthroughs, cullZexts, foldConstantsWRTState, specializePort, specializeCircuit | `FoldConstants`, `FoldByState`, `Cleanup`, `Specialize` |
| scheduling, compiled simulation | `src/simulator.cpp`, `src/simulator.h` | the groups of the schedule, the raw table, libraries | staticSimulationEvents, compileCircuit, simulateRaw, updateCompiledFourState, updateCompiledTwoState, setFreshValueTwoState | `Schedule`, `Compiled` |
| generated code | `src/ir.*`, `src/cpp_utils.*` | none | text of C++ | what the instructions do, in `Compiled`; what their operators compute of words, in `Words` |
| serialization | `src/serialize.cpp` | a file | saveToFile, loadFromFile | `Serialize` |
| front end | `src/convert_coreir.cpp` | none | convertCellType, loadFromCoreIR | `FrontEnd` |
| Verilog, analysis, helpers | `src/output_verilog.cpp`, `src/analysis.cpp`, `src/utils.*`, `src/algorithm.h`, `jitted_utils/static_*` | none | clients of the netlist; bit vectors nothing calls | not modelled |

A client builds a `CellDefinition`, constructs a `Simulator` on it (a reference:
both share the definition), alternates `setFreshValue` and `update`, and may
call `specializeCircuit`, which edits the definition under the simulator.

### What makes each part correct

* netlist: whatever the sequence of edits, a bit is a receiver of its driver and
  of nobody else, and no wire leads to a bit that is gone.
* interpreter: an update leaves every output equal to the function of its
  inputs; registers load once for an edge of their clock, all from the values
  before it; reset wins; every update returns.
* transformations: what the output ports show is unchanged, and the definition
  stays consistent.
* specialization: a client of the simulator cannot tell that the definition was rewritten
  under it, nor does an assertion stop a pass or a later update.
* serialization: what is loaded is the circuit that was saved.
* front end: what is loaded reads what the module connected, directly.
* bit vectors: on binary words the functions are arithmetic on numbers; a bit that
  is known in spite of unknown operands is right whatever those are.
* scheduling: the schedule ends and reaches everything that may change, each cell
  after what it reads; along it the compiled update computes what the interpreter
  computes, and what its masks show as known is known.  (Not so, in the code, where a
  read address changes: see the findings.)

## Modules

* `Netlist` is a definition as a value.  `type`, `drivers` and `receivers` are
  total functions; bit `NoBit` is the empty `SignalBit`.  One operator for each
  method, one `...Aborts` for the assertions that guard it.
* `Circuit` is a definition under edit: one action for each public operation, in
  any order.  A failed assertion stops it and is named in `status`.
* `Serialize` is saveToFile and loadFromFile as functions between definitions and
  files, a file being the records of its lines.
* `QuadValue` has the one-bit values 0, 1 and x and their operators.
* `Words` has the functions on words of any width: those of the library, with their loops
  of carry, borrow and partial product bit by bit, and those of generated code, the
  operators of C++ and the masks beside them.  Two actions: updatePort for a cell of some
  type, and the instructions for it.
* `CellSemantics` says what each kind of cell computes (`Eval`, from
  `updatePort`), who receives an output and what an edge is.
* `Simulator` is the interpreter.  Each turn of a loop of `update` is an action
  (`Update`, `CombStep`, `SeqStep`, `RereadStep`, `LoopEnd`) and `phase` is the
  program counter, so that properties can speak about the states inside update;
  a client acts only when `phase` is `"idle"`.
* `SyncCircuit` is the abstract specification: ports change together, then
  everything clocked loads at once.  It has no queue and no order.
* `SimulatorSync` maps the interpreter to it.
* `FoldConstants` is the candidate loop of foldConstants over `Netlist`, a cell a
  turn, for one state of the registers; `phase` says how it ended.
* `FoldByState` is foldConstantsWRTState: the data-flow analysis, a cell of its work
  list a step, and the loop that replaces and deletes what it labelled, for a value
  store that a simulator may have left.
* `Specialize` is the simulator and those passes on one definition: specializePort,
  specializeCircuit (folding, dead cells, duplicates) and refreshConstants, between
  the calls of a client.  Beside it the definition as it was runs as `SyncCircuit`.
* `FrontEnd` makes a definition of a module of CoreIR and calls the passes
  loadFromCoreIR calls; the client goes on with `Cleanup`.
* `Cleanup` is the removals, called in any order, a turn of a loop or
  a bulk deletion a step.
* `Schedule` is staticSimulationEvents, a turn of its loops a step, and the filter
  of compileCircuit: the groups of cells a compiled update runs through.  It follows the
  dependencies of `combinationalDependencies`, which leaves out every port of a memory, the
  read address too: a memory comes into the schedule only behind its own clock.
* `Compiled` is the compiled simulation along a schedule: update, a group of generated
  code a step, first of the four-state code on a table of bytes and masks, and after
  simulateRaw of the two-state code on a table of its own.  It is mapped to
  `SyncCircuit` too.
* `Ordering` has the elements of a finite set in order, as C++ iterates over a set or map.
* `Wiring` builds families of circuits; `MCCircuit`, `MCSimulator`, `MCFold`,
  `MCFoldByState`, `MCFrontEnd`, `MCSpecialize`, `MCCompiled` and `MCWords` have the small
  instances.
* `NetlistProofs` and `CellProofs` have the lemmas about the operators of definitions
  and of cells, `CircuitProofs`, `SimulatorProofs`, `FoldProofs`, `CleanupProofs`,
  `FoldByStateProofs` and `CompiledProofs` the theorems about the components.

Operators marked `fault:` stand next to the definition they alter.  They are the
plausible bugs the properties were tried against and are used by nothing else.

### How the state corresponds to the code

`value[c]` is the value `portOffsets` keeps for the output of cell `c` (for an
output port cell, for its input); `past[c]` the entry of `pastValueOffsets`,
which exists for outputs that reach a clock or reset; `reg`, `mem` the register
and memory tables; `combChanges`, `seqChanges` and `userInputs` the sets of those
names; `reread` the local `memoriesToUpdate`.  `First` is the order of the
`std::set`.  `userInputs` is a set of pairs of a port and a vector ordered by
`operator<`, under which an unknown value is equivalent to every other: the first
unknown value keeps all others out.  `SetFreshValue` models that.

In `FoldConstants`, `candidates` is the set of that name and `regs` the argument
`registerValues`; `orig` (the definition before) and `frozen` (the value a register
was folded to) are history, which no guard reads.  In `Cleanup`, `pass` and `todo`
are the transformation that is running and what its loop has left; `Wires(n, in, r,
mem)` is the function of a definition: what every output shows under some inputs
and some state of the registers and memories.

In `Specialize`, `stage` is the program counter of the caller and of the passes it calls
(`phase` stays that of the simulator), `specialized` is `specializedPorts`; `ins`, `old`,
`origReg`, `origMem` and `pc` are the state of the original circuit, history.  In
`FrontEnd`, a select is a bit or the whole of a port of an element, elements being
numbered in the order in which they become cells, and `loaded` is what was returned.

In `Compiled`, a byte of the table is a number and its mask a bit, since ports are one bit
wide; `xValue`, `xReg` and `xMem` are the masks, and `Shown` is what a client reads.

In `FoldByState`, `label` is `cellClassification`, `store` what the value store has for
the output of every cell, and `at` the place of the loop over the labels.  The store
has entries for the outputs of the definition it was made for and no others, so a
look-up of anything else ends in the phase `"missing"`.  In `Serialize`, the name of a
cell is the identifier it had when it was saved; `names` in `LoadedIsSaved` is any
order the names of the ports may have, which is the order in which loading makes the ports.
In `Words`, a word is a function from its bits, and a result of no bits stands for a
program that has stopped.

A loop over all elements of a queue in which no element reads what another
writes (the input ports, `seqChanges`, the changed registers) is one action.

## Runs

| run | instance | question |
|---|---|---|
| `Circuit` | cells with one- and two-bit ports, 3 identifiers | do edits keep both ends of every wire in agreement, does any edit meet a dangling wire, does the consistency check accept the result, is what is saved and loaded the same circuit |
| `Clocked` | 32 wirings of two registers of either edge and a gate; 16 of a register with reset that shares its port with data and clock; 16 of a memory that feeds itself and a register; unknown inputs | is update the synchronous circuit, does it lose no event, settle and return, does reset win, do writes use values from before the edge and reach the reader |
| `Ripple` | a register that clocks a register | expected violation: the event left behind |
| `Folding` | a configuration register behind a multiplexer; two registers, one with reset; a memory a port reads; all their wirings, constants and register states | is the function unchanged while folded state holds, is that state really frozen, is no cell forgotten, does folding end |
| `FoldByState` | a multiplexer, gates and constants, one of which may be unknown, that read each other; two registers that may keep their value or load a constant; all their wirings and every store a simulator may leave | does the analysis settle, only ever rise and label only what never moves; is the function unchanged and every input driven, where no unknown select chooses what is labelled |
| `NoValue` | the multiplexers of `FoldByState` | expected violation: look-ups of what has no value |
| `Redundant` | 64 modules whose wraps, extensions and constants read each other in chains; 128 definitions with pass-throughs, two constants 0, gates that may become duplicates, a register that may keep itself alive | is what is loaded connected as the module is; do the removals, in any order, keep the function, every driver and what matters |
| `Specialized` | gates that become duplicates when a multiplexer is chosen; a register whose clock a multiplexer chooses; a multiplexer that a register with a reset selects | does a circuit that is specialized and folded while it is simulated show what it showed, and does nothing stop it |
| `Compiled` | registers of either edge and with a reset as in `Clocked`, registers clocked by a gate and by each other, and 16 wirings of a memory that is read at a port or behind a gate; unknown inputs | does the schedule end, have every gate behind what it reads and everything clocked, is the compiled update, before and after simulateRaw, the synchronous circuit |
| `MemoryReads` | the memories of `Clocked`, whose read address may come from a register | expected violation: what is read is stale |
| `Words` | every operation, of the library and of generated code, on all pairs of words of four bits with unknown bits, shifts by up to 12 | are they arithmetic on numbers, and are known bits right |
| `Shifts` | the shifts of `Words` by up to one more than the width | expected violation: a shift by the width gives no result |

Identifiers are never reused; three of them (`MaxId`) are a cell, its driver and its
receiver, or two cells and the constant that replaces one, and two bits are enough for a
receiver at two offsets. The theorems about `Circuit` hold for any number. The circuits
of the simulator runs are families, all wirings of a few cells, so that an order of
evaluation against the order of identifiers, feedback through registers and shared
clocks all occur. `Fresh` are the values a client sets; x occurs in every run as the
initial value of the ports.

`SameFunction` compares the two definitions under every input and every state of the
registers: in `Folding` those in which the folded registers hold their constants
(`RegStates`), which `FoldedStateIsFrozen` shows they keep.  It speaks of circuits
without combinational cycles, in `Cleanup` also without memories; the families have
none.  `Orderly` of `FoldConstants` and `FoldByState`, `Removable` of `Cleanup` and `Synchronous` of
`SimulatorSync` name these hypotheses, and TLC evaluates them on the families.  In
`Folding` both properties leave out states in which a memory was folded whose address
is known to be unknown (`AddressesKnown`); such states occur in the run, and without the
exception it reports them.  In `Folding` up to two constants are added to seven cells (`MaxId = 9`); the
removals add none, and `Redundant` has nine
cells (two of them fields, where it is loaded).  `FoldByState` makes at most three
constants beside its seven cells (`MaxId = 10`); one of its cells is a constant, which may be
unknown.  Its `SameFunction` excepts definitions in which a multiplexer whose constant
select is unknown chooses a labelled cell (`ChoicesVary`): that cell is deleted, and the
readers of the multiplexer are left without a driver.  Such definitions occur in the run,
and without the exception it reports them.

Four bits let a borrow or a carry cross more than one bit; the library's limit of 64 on
an amount is `MaxShift`, scaled to 12 so that amounts below, at and above the width and
the limit all occur.

`Specialized` bounds its client: a port has one pending value, ports are specialized in the
order of their identifiers, and specializeCircuit is called when there is something to
fold.  `MaxId = 12` leaves room for a constant in place of every port and folded cell of
the largest family.  The client keeps to a protocol the tests follow: a port specialized
at another value than it shows is not folded before the constants are refreshed.  Without
that, readers of a folded multiplexer keep the value of the input it no longer chooses,
because folding tells nobody.  The properties make two exceptions: states in which a
register or memory that was folded held something else than what replaced it
(`Kept`; the code does not compare: a multiplexer that such a register selects is then
folded to another input than it passed, and its readers, told of nothing, show the old
one, which `Selected` of `MCSpecialize` reaches), and, for what is compared with the
original, clocks that are not ports.

`Compiled` starts from the table the constructor leaves and calls in any order
simulateRaw, once, writes and updates.  Of the four-state code the run compares bits as if
all were known, and what is shown as known with the interpreter, where every select and
address the code goes by is the interpreter's (`Selected`): for an unknown one the code
takes the bit that was last in the byte, the interpreter `IN0` or the number 21.
The switch loses the memories, as the code does, so the refinement is of updates before
it and after it.  `MaxGroups` bounds a schedule by eight groups;
the longest of the circuits checked has six, and `ScheduleEnds` and the deadlock check
would report one that stops at the bound.  A register that takes part in clocking
itself, and a cycle of gates, give a schedule without end in the code; the families
leave them out (`Ends` in `MCCompiled`).  `ImplementsSync` is stated for clocks that
are ports.  The memories of `Compiled` (`ReadAtInputs`) are read at addresses that no
register and no memory reaches (`AddressesHoldStill`), and nothing that is loaded is reached
by a memory (`LoadsNoReads`); TLC evaluates both on all its families (`EveryCompilable`).
That is the most the code keeps: with another address the table shows stale words, as
`MemoryReads` finds, and a register that loads what a memory reads loads what it read in
the update before, since the first group, before the clock edge, has no memory in it.
`ScheduleCovers` and `TypeOK` need neither.

Deadlock is checked except where the program really stops: on an assertion
(`Clocked`: an unknown write address; `Ripple`: a lost event; `Specialized`: a gated
clock whose past value is missing), when a
transformation has returned (`Folding`, `FoldByState` and the runs of their modules),
after the one operation that is evaluated (`Words`) or with all identifiers handed out (`Circuit`, a
bound of the model).

Fairness (`FairSpec`, used by `Clocked`; `Specialized` has none): `update` runs on the
thread of its caller and nothing interrupts it, so its steps are weakly fair, and so is
the call the constructor makes.  A client need never call anything.  In the same way the
specifications of `FoldConstants` and `FoldByState` have weak fairness of `Next`, and
that of `Compiled` of `Compile`: the loops run to their end on the thread of their caller.

### Findings

* `update` (`src/simulator.h:497`) ends its loop when `combChanges` is empty; a
  register that changed and drives only a clock has queued in `seqChanges`, and
  the assertion at `:500` fails.
* foldConstants replaces the reader of a folded memory (`src/transformations.cpp:437`)
  without making its receivers candidates, as both other branches do; a cell whose
  inputs are all constant is left and the closing check (`:485`) stops the program.  It is
  not among the runs; `tlc -config MCConstantMemory.cfg MCFold` shows it: `ClosingCheckPasses`,
  which `Folding` checks on families without such a memory, fails.
* foldConstantsWRTState asks the value store for the select and data inputs of a constant
  multiplexer (`src/transformations.cpp:1118`); the store has outputs only and its
  look-up asserts.  So does the look-up of a select that an earlier turn replaced by a
  new constant (`:1141`).
* The code of a sum or difference, two-state (`src/ir.cpp:84`) and four-state (`:169`),
  leaves the carry in the port's container, where the complement is masked (`:240`): what
  reads the port next sees a value the interpreter does not have.  `test/op_tests.cpp:107`
  compares the two on 16 bits, where nothing is left over.  Not among the runs either:
  `tlc -config MCSums.cfg MCCompiled` shows it, `ReadsTheSynchronousValue` fails.
* `combinationalDependencies` lets a read address past `src/circuit.cpp:87` and drops it at
  `:93`, so the schedule follows no change of it (`MemoryReads`).  A memory is read once an
  update, behind its own clock, and in the order of identifiers: before a register with a
  higher one that drives its address.  `test/op_tests.cpp:157` and `:252` assert that the
  two simulators agree.
* `lshr` of the library by exactly the width counts an unsigned index down to 0
  (`jitted_utils/quad_value_bit_vector.h:988`), never ends and writes outside the vector
  (`Shifts`).  "Compare shift ops" (`test/op_tests.cpp:361`) draws amounts from 0 to 17 for
  words of 16 bits and requires that library and generated code agree; the latter gives 0.

Behaviour that the models follow without a run of its own: a memory with an unknown
address shows the number 21 (`src/simulator.h:743`) and is folded to 0
(`src/transformations.cpp:437`); `deleteCell`
(`src/circuit.h:941`) looks up the driver of an unconnected input before it asks
whether there is one (`:943`) and stops; a register with a constant input is folded to
it whatever it holds (`src/transformations.cpp:95`, where the comment at `:93` asks for
the comparison), after which cells that it fed through a folded multiplexer may show
what they no longer compute; `setCompiledRaw` (`src/value_store.h:188`) says it copies memories to
the raw table and copies none; the masks of generated sums, products, comparisons and
shifts mark the lowest bit at most, and those of a logical shift to the right none,
since they come after the return (`src/ir.cpp:170`); `paramsForMod`
(`src/convert_coreir.cpp:290`) inserts the initial contents of a memory under a key that
is taken, which drops them; `deleteCell` also stops at an input that is driven by an
output of its own cell with a lower port number, SEL, CLK and ARST of a cell that reads
itself, because the output has unhooked it (`UnhookedFirst`).

A multiplexer whose constant select chooses its own output is deleted by foldConstants
after its receivers were moved to it (`src/transformations.cpp:411`), which leaves them
without a driver.  The definition has a combinational cycle, of which `Folding` is free;
`FoldConstants` follows it to the phase `"no cell"`.

The refinement is stated for clocks that are input ports on purpose.  For a clock
that is the output of a gate the code differs from a synchronous circuit: the gate
is evaluated once for each input that changed and the second evaluation overwrites
the past value, so an edge can be lost.

## Proofs

Checked by TLAPS for every cell library, number of cells and, for `Circuit`,
every width; the assumptions are the named `ASSUME`s, and hypotheses of a theorem are
written in it (`ASSUME ... PROVE Spec => ...`).  Each property below is also one that a
run checks.

* `CircuitProofs`: the inductive invariant joins the types, `EndsAgreeIn` and
  `WiresExistIn`, and that a running definition is the only one that changes.
  Agreement of the ends alone is not inductive: that deleteCell finds all
  receivers of a cell needs that wires exist, and conversely.  From it follow
  `TypeCorrect`, `WiresAgree`, `WiresExist` and `EditsNeverDangle`.
  `ConsistencyTestPasses`: definitionIsConsistent follows wires from their receivers
  only, and accepts because the ends agree.  `DriversAreLostToDeletionOnly` and
  `ReplacedPortsAreLeftAlone` are action properties, an operation a step.
  `NetlistProofs` has one lemma for each operator of `Netlist`.

  `SavedIsLoaded`: what is saved and loaded is the circuit under other identifiers,
  whatever edits made it.  The invariant adds that the port cells are the cells of type
  PORT (`PortsArePorts`), since loading makes a port of every line of that type.  The
  argument: the cells loading makes, ports in the order of their names and then the rest,
  are numbered one after the other (`NumbersTheLines`); what there is after each line has
  a closed form (`Made`), proved by the least line at which it would fail; a line is found
  again by its number; and the bits of a driver come back as they were (`DriversComeBack`).
  It assumes that port widths are natural numbers (`SerializeAssumption`).

* `SimulatorProofs`: the inductive invariant adds to `StaleCellsArePending` that
  registers show their state and that the queues are empty where the loops say.
  The argument of `NoLostWakeUp`: an output changes only by a signal, which queues
  every receiver whose function reads it (`CellProofs`), and a port leaves the
  queue only when its cell is evaluated.  `UpdateSettles` follows because update
  returns with an empty queue.  Nothing is assumed about cycles or clocks.

* `SimulatorProofs`, second part: `UpdateIsSynchronous`, the refinement of `SyncCircuit`, for definitions
  without combinational cycles whose clocks and resets are input ports
  (`AllSynchronous`).  Of what `SyncCircuit` computes with a recursive function the
  interpreter has only outputs that agree with their cells, one by one; that those are
  the same values is `WiresAreUnique` of `CellProofs`: in an acyclic definition the
  equations of the cells have one solution, since among the cells on which two solutions
  differ there would be one whose inputs agree.  `SyncInv` adds to the invariant of the
  interpreter that constants keep their values, that events exist only between the change
  of the ports and the step that drains them, and that while there are any every port
  that differs from its past value has all its receivers queued: a register that is not
  queued is not at an edge.  `NoEventIsLost` is the assertion at the end of `update`,
  which `Ripple` refutes without the hypothesis.

* `SimulatorProofs`, third part: `Specialize`, for definitions without combinational cycles
  whose port cells are of type PORT (`Specializable`).  The lemmas of `FoldProofs` and
  `CleanupProofs` are used under an instance of those modules on the one definition
  (`FP`, `CP`): each turn of a pass hands the receivers of a cell to another (`HandedTo`)
  or drops cells that nobody reads.  `SpecializeTypeInv` says that what is left are cells
  of the original and constants (`Rewritten`), that every queued port is one of a cell
  (`QueuedAreCells`), and that the definition changes only while nothing is queued
  (`RewritesBetweenUpdates`), without which `SpecializeTypeCorrect` would not be inductive:
  a queue would keep ports of cells that are gone.  `SpecializingSucceeds` is about the
  assertions, of definitions whose clocks are ports and without memories (`Memoryless`).
  Its invariant follows the clocks (`ClockedAlike`): whatever clocks a register is the
  port that clocked it or, when that port is specialized, a constant of the value it is
  held at.  So nothing but ports and constants clocks (`Quiet`), a port keeps its past
  value and refreshConstants gives one to each constant (`PastFound`), and no event is
  left at the end of a loop.  `NoCellIsLeftOver` needs nothing of the clocks.

* `SimulatorProofs`, fourth part: `SpecializedShowsTheOriginal`, the refinement in the small
  that a client relies on, under the same hypotheses.  The invariant `ShownInv` joins three
  arguments.  About the definition alone (`RewriteInv`): values the original may show
  that hold the specialized ports, and the folded registers at what replaced them
  (`Possible`), are read by every input that is left (`ReadsAs`), and a folded register
  would load what it is frozen at (`FrozenLoads`).  The lemmas on turns of `FoldProofs` and
  on duplicates of `CleanupProofs` give each step.  About the store (`ValuesInv`): between
  the steps of a client a cell that is stale is queued; while the definition is rewritten
  the values are such values of the original (`Agreed`), up to ports set anew and to
  constants the store does not know of yet (`UpToDateUnlessConst`), so that what
  refreshConstants queues is all that has to be.  That values which agree on ports and
  registers agree on all cells is again that among the cells on which they differ one has
  inputs that agree (`ShownCells`).  About the run of the original beside it (`TwinInv`):
  a clock of the original that moved has its receivers queued unless it is held
  (`ClocksFollowed`), so the edges are the same (`TwinEdges`), the registers that are left
  load what the original loads, and those that were folded would not move (`TwinLoads`): a
  reset that was folded is held (`ResetsAreHeld`), and a clock edge loads what is frozen.
  `Kept` is needed at one place, where an idle store becomes values of the original
  (`IdleIsAgreed`); without it readers of a register that held something else are stale,
  as `Selected` shows.

* `FoldProofs`: the first inductive invariant adds to the types that candidates have
  inputs, so are no constants, that `registerValues` knows every register that is left
  (`IInv`), and that port cells stay port cells (`FullInv`).  `FoldEffect` is the
  argument: a fold changes the drivers of the receivers of the folded cell and of nothing
  else, so what is known of the inputs of a cell changes only when it receives the folded
  cell, and those receivers become candidates.  Hence `NoCandidateIsLost`, and from it
  `ClosingCheckHolds`, because a cell with constant inputs can be folded.  Both assume
  `Memoryless`: the branch for memories queues nothing, and `MCConstantMemory.cfg` shows that
  the theorems fail with it.  `FoldingTyped` assumes nothing.

  `FoldingKeepsTheFunction` and `FoldedStateStaysFrozen` assume `Orderly`: no
  combinational cycles (a multiplexer that chooses its own output loses its receivers
  their driver), the port cells are of type PORT, and no name of a constant that replaces
  a cell is taken (replaceCellPortWithConstant asserts it).  Their invariant `FaithInv`
  says that the definition stays acyclic and fully driven, that what is left has the types
  it had, everything new being a constant (`Structure`), and that under all values the
  original definition may show while folded registers hold what replaced them
  (`ShownBy`), every input that is left reads the value it reads in the original
  (`ReadsAs`) and what was folded is frozen (`Faithful`).  A fold gives the receivers of a
  cell to one that shows the same value, whatever the inputs: `KnownOutputIsShown` for
  gates, `ChosenInputIsShown` for multiplexers, `FoldedMemoryReads` for memories; folding
  a register instead takes values away from `ShownBy`, and those that are left agree
  (`FreezingShowsLess`, `FoldedRegisterKeeps`).  The invariant goes through a fold in one
  order only, since frozen state depends on constants that come from earlier frozen
  state; and it is about the values of the original, so that the values of the rewritten
  definition, the only solution of its equations, come last (`RemainsReadTheSame` of
  `CellProofs`).

* `CleanupProofs`: for acyclic definitions whose port cells are of type PORT
  (`Removable`), removals called in any order keep a definition well formed and driven
  (`CleanupTypeCorrect`) and what every cell that is left reads (`RemovalsKeepTheFunction`).
  The invariant `CInv` says of the definition what `FaithInv` says (`Sound`), and of the
  work a loop has left that the cells it will look up are still there and of their type
  (`WorkIsFound`).  A duplicate shows what the gate shows that replaces it, because their
  inputs have the same drivers; no cycle comes about because the gate that stays reads
  nothing the one that goes did not read (`RewiredAcyclic`).  `DeadCellsAreDeleted` and
  `NoneIsLeftOver` are about deleteDeadInstances, whose reachability is the least closed
  set: what is deleted is closed under receivers, and the cells that remain reach an
  output port by the same wires.

* `FoldByStateProofs`: for acyclic definitions whose port cells are of type PORT
  (`Orderly` of `FoldByState`).  The invariant `IInv` says of the labels that each has its
  reason (`Grounded`): what a label is given for is that cells are labelled constant, so a
  label stays right when more cells are; hence `LabelsRise`.  Cells outside the work list
  have the label their drivers make (`Settled`), since a turn changes what other cells
  are driven by only for the readers it queues (`SameDrivers`): `LabelsSettle`.  Labelled
  combinational cells show what the value store has because among those that did not
  there would be one whose inputs do, and labelled registers do not move (`LabelledShow`,
  `LabelsSound`).  Of the loop over the labels up to a cell the invariant says (`Folding`)
  that of the original definition only multiplexers that were passed are gone, that a
  labelled cell drives what it drove or a new constant does (`Kept`), so that a select is
  what the analysis saw, that every input reads what it read (`ReadsTheSame`), and that
  what is to be deleted is read only by what will be gone (`NothingLost`).  The last part
  alone needs `ChoicesVary`; `KnownSelectsVary` says that only unknown selects are
  excepted.  `FoldingByStateKeepsTheFunction` follows when the labelled cells go
  (`FinishLeaves`).

* `CompiledProofs`, for families of definitions without combinational cycles
  (`CircuitsAcyclic`; staticSimulationEvents does not end for others).
  `ScheduleCoversTheDefinition`: the invariant `ScheduleInv` says of the list of a group
  that whatever a listed port feeds is listed behind it, or will be since the port is still
  to be spread (`ReadersFollow`), that every clocked reader is queued (`ClockedQueued`), and
  of the groups that are done that they cover each other (`GroupsCover`).  Keeping the last
  update of a cell only (`LastUpdates`) leaves readers behind their drivers.  A
  memory is clocked by a source or a gate (`CompiledAssumption`), so it is in the first group
  of clocked cells and is read in the group after it (`MemoriesAreClocked`).
  `CompiledTypeCorrect` gives the table one bit for each port, or a byte where there are
  sums, and a mask (`TableTypes`).

  `CompiledReadsAreSynchronous` and `CompiledImplementsSync` also assume that there is no
  sum (`NothingIsSummed`; `MCSums.cfg` is the counterexample with one), that constants and
  the initial values of registers with reset are known (`ConstantsAreKnown`; the two-state
  code has no others), and that read addresses hold still (`AddressesStill`; `MemoryReads`
  is the counterexample without).  Their invariant `RunInv` says where in an update cells
  may disagree with their inputs: until the first clocked group is passed the memories and
  what they reach (`Unsettled`), since no memory has been read yet; after a clocked group
  the cells of the next group only (`Settling`).  A group beyond the first has only
  clocked cells and what they reach (`LaterGroups`), so no address moves once the memories
  are read (`AddressesStill`), and what is not reached by a memory reads nothing that is
  (`ReadsUnreached`).  A run through a group in which every cell comes after what it reads
  leaves them agreeing, and by `WiresAreUnique` the values are those of the recursive
  function of `SyncCircuit`.  For the refinement the clocks are ports (`ClockedByInputs`),
  so that nothing is clocked a second time in an update (`ClockedOnce`), and outside updates
  the past value of a clock is its value (`PastIsValue`): an edge is seen once.  The clock
  edge is the first clocked group, when memories are still unread, so the refinement needs
  that what is loaded does not depend on them (`NothingReadIsLoaded`).

The library's induction theorems take an operator as a parameter and cannot be used.
Where an argument needs induction it is the least element of a nonempty set of numbers,
the definition of `Acyclic` (each set of combinational cells has one that reads none of
it) or the definition of a least closed set.

Only model-checked: `LoadedReadsItsSources` (a recursion over chains of any length, the
induction over data that the provers lack), `Words` (what its recursive functions compute
for every width is induction over data again), and `UpdateReturns`, `Terminates` and
`ScheduleEnds` (liveness, out of the reach of the prover).  Specialization of a circuit
with memories is neither, beyond the types of its state (`SpecializeTypeCorrect` needs no
such hypothesis): `SpecializingSucceeds`, `NoCellIsLeftOver` and
`SpecializedShowsTheOriginal` assume `Memoryless`, and the families of `Specialized` have
none.

## Plan

Written first, because everything else edits or reads a definition: `Netlist` and
`Circuit`, then the interpreter against `SyncCircuit`, then the transformations, the
schedule and the compiled update, then their composition in `Specialize`, the four-state
code, the generated words and the front end.  The proofs follow the same order.
Left, in this order:

1. Specialization of circuits with memories, of which `FoldConstants` alone is checked.
2. Cells wider than one bit in `CellSemantics`, with the functions of `Words`, and with
   them buses whose bits come from several drivers.

## Not modelled

Text (generated C++, Verilog, printing, saved files), levelizeCircuit,
canCompressSequentialTests and traceValue (nothing runs them), the bit vectors of fixed
width in `jitted_utils/static_*` (the generator emits operators of C++ and nothing calls
them), the passes CoreIR runs on its own modules, loading of libraries, timing
measurements.  The layout of the value store: offsets are handed out one after the other
and never change.
