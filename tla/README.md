# A TLA+ model of apa

apa measures how many bits the values of embedded programs really need. A QEMU
plugin watches Thumb instructions and counts the effective width of what they
compute; benchmarks, two of them written for the project, are run under it;
a script turns the counts into tables and charts. The study stands or falls
with what is counted, so the model begins with the decoder and the sampler, goes
on to the two hand-written benchmarks, which are small concurrent and numeric
systems of their own, and ends with the scripts that build, measure and analyse.

## 1. Inventory

| Component | Source | State | Operations | What makes it correct |
|---|---|---|---|---|
| Decoder | `plugin/decode.c`, `decode.h` | none: a function | `decode_insn`, `thumb_expand_imm` | never indexes a table out of bounds; the measurement does not depend on the encoding of an instruction; immediates as the processor sees them; out-of-scope instructions ignored |
| Register binding | `plugin/bitwidth.c` 57-66, 221-265 | `reg_handles`, `reg_valid` | `vcpu_init`, `bind_reg`, `parse_rn`, `read_reg` | a register number reads the register it names; none is silently missing |
| Sampler | `plugin/bitwidth.c` 71-219, 267-304 | callbacks planned per translation block, `histogram` | `vcpu_tb_trans`, `cb_sample_writeback`, `cb_compare_or_store`, `plugin_exit` | each result counted once, with its own class and width, unless it ends its block or its register has no handle |
| Accelerator driver | `benchmarks/custom/accelmgr/accelmgr.c` | descriptor ring, engine position, statistics, calibration, report queue, summary | `submit`, `accel_tick`, `service_engine`, `pop_done`, `drain_reports`, `bench_init`, `bench_run` | driver and engine agree about the ring; nothing in flight is overwritten; no completion lost; frames and reports conserved; the wait loops end |
| Control loop | `benchmarks/custom/pidctl/pidctl.c` | four channels: controller, plant, supervision | `channel_tick`, `bench_init`, `bench_run` | signals in range, products in 32 bits, debounced state changes, lasting faults raised |
| Benchmark contract | `benchmarks/custom/harness.h`, `harness.c`, `host_test.c`, `check.sh` | two checksums, an exit status | `main`, the loop of `check.sh` | both runs give `bench_expected()`; the exit status tells whether every program was built and passed |
| Build and measurement | `run_analysis.sh`, `Makefile`, `plugin/Makefile`, `benchmarks/Makefile`, `build_all.sh`, `run_all.sh` | sources, plugin, ELF and CSV files on disk; an emulator in the background | clone, build, run with a time limit, kill, report | what is analysed was measured now, on what is there now; what is reported stays true; scripts end |
| Analysis | `analysis/analyze.py` | tables | load, exclude, combine, percentiles, plots | sums and percentiles of what was loaded; charts for any set of results |
| CoreMark port, start-up code, linker scripts, examples | `benchmarks/coremark_port/`, `startup.s`, `mps2.ld`, `examples/` | none of interest | | |

How they interact. QEMU calls the plugin: once per vCPU (`vcpu_init`), once for
every translation block (`vcpu_tb_trans`, which calls `decode_insn` for each
instruction and registers callbacks), before instructions (the callbacks, which
read registers through the handles and count), and at exit (`plugin_exit`, which
writes the CSV). `run_analysis.sh` clones what is missing, calls `make`,
`run_all.sh` and twice `analyze.py`; the user may also call each of them alone.
They hand over files: `build_all.sh` leaves ELF files, `run_all.sh` starts a QEMU
for each in the background, asks it to stop, kills it and looks at the CSV, and
`analyze.py` reads every CSV it finds.
The benchmarks interact with the rest only through the instructions they
execute, and with `host_test.c` through the three functions of the contract.
Inside `accelmgr` the core and a stand-in for the engine share the ring: the core
rings a doorbell and retires, the engine writes results, a DONE bit and an
interrupt bit.

What is hard here: the sample of a result is taken later, by another
instruction's callback, in code planned before it runs; the decoder is nests of
overlapping bit masks; three positions, a counter and a status bit describe one
ring from two sides; the report queue overwrites its oldest entry from the
producer's side; a debounce counter serves two directions; fixed-point products
have to fit; and the scripts meet whatever an earlier, failed or interrupted one
has left, with an emulator that writes its results at the last moment.
`PROJECT.json` lists these hazards at their lines.

## 2. Modules

```
Decode ----------- DecodeStream ------ MCDecode __
   |  \_ DecodeProofs  \_ DecodeStreamProofs       |
   \__ Sampler ----------------------- MCSampler   |
           \______ SamplerProofs                   |
Registers ________/ \----------------------------- MCPlugin
JobQueue <= AccelRing
               \__ AccelMgr ---------- MCAccelMgr
                      |   \_ AccelMgrProofs ____
                      \__ AccelBench            |
Words ___________________/   |  \_ AccelTwice __|_ AccelBenchProofs
   |                         \________ HostCheck --- MCHostCheck
   \_______ Pid _____________________/
Hysteresis /  \_ PidTwice _ PidProofs
     \_ Supervisor ________/ \-------- MCSupervisor
Analyze ---- Campaign ---------------- MCCampaign
                 \_ CampaignProofs
Sums, a library of lemmas: AccelMgrProofs, CampaignProofs
```

**Decode** is `decode.c` as operators: one per group of encodings, `decode_t16`,
`decode_t32` and `decode_t32_dpi_common` in the order the C code tests them. A
halfword is a number, its fields are `Field(hw, hi, lo)`; a 32-bit immediate is
the set of the positions of its 1 bits. A decoded record has the fields its
setter fills and no others, so reading an unset one is an error of the model
checker. **DecodeStream** is the environment: instructions one after the
other, and the architectural reference the answers are held against: the constant of a
modified immediate, the 32-bit encoding of an instruction that has a 16-bit one
(`WideTwin`), and the groups of encodings that `decode.h` puts out of scope.

**Registers** is `vcpu_init`, one descriptor per step, in any order and with any
handles. A name is what the code can tell of it.

**Sampler** is the rest of `bitwidth.c`. `plan` holds the callbacks that
`vcpu_tb_trans` registered on a block, `todo` those of the current instruction
that have not run, `hist` the histogram, `csv` the file. QEMU and the processor
are the environment: `EnterBlock`, `CompleteWrite`, `CompleteOther`, `Skip` (an IT
block's condition fails) and `Trap`. `truth` and `lost` are history variables that only
the processor's actions change: `truth` is what it produced, and `lost` the part of it
that `bitwidth.c` gives up by its own account (`BeyondReach`: a result that ends its
block, 18-21, and what lies in a register without a handle). A callback that returns
early changes neither, so that a sample dropped for any other reason leaves the books
unbalanced. `BoundRegs` are the registers with a handle. A byte has `ByteBits` bits, so
that the model checker can use small words and the proofs any.

**AccelRing** is the descriptor ring: `submit`, `accel_tick`, `service_engine`, and
the loop of `pop_done` as a mode with one action per iteration. Left out are
registers nothing reads, addresses (functions of the slot) and the sample bytes.
**JobQueue** is what the ring promises: a bounded FIFO of jobs with their results.
**AccelMgr** adds the statistics, calibration, report queue and the application
layer's summary. **AccelBench** is `bench_run` and `host_test.c` on top: the program
counter `accel_pc` and the return place `back` walk the C loops. **Words** is the
checksum's arithmetic in 16-bit halves.

**Hysteresis** is the threshold decision of `channel_tick`; **Supervisor** drives it
with any errors; **Pid** is the whole of `pidctl.c` with the errors its plant makes.

**AccelTwice** and **PidTwice** put two runs of a program side by side, each step one of
both: the run `bench_init` begins in a fresh memory, and the one it begins in a second
memory after another run, of which nothing is known. They serve the proofs that the
two return the same checksum, and have no run of their own.

**HostCheck** is `check.sh`. It extends `AccelBench` and `Pid`, whose variables are the
memories of the two programs, and builds and runs them one after the other. Where both
programs define a name, that of `accelmgr.c` is prefixed (`accel_init` is its
`bench_init`). A compiler that fails is a choice of every `Build`.

**Analyze** is `analyze.py`, a script that a Python exception can end at several
places: `at` is the place, `i` the counter of its loop, `per_bench` and `combined`
the tables. A CSV is a sequence of rows and a flag for a last line that does not
parse. A grid of charts is the number of its panels, since a grid of one raises.
`percentile_bits` is its loop, over the running sum (`RunningSum`); what it promises is
said apart from it, in `PercentilesAsDocumented`.

**Campaign** is everything around it. `script` is what the user has started, `at`
and `i` again the place in it, `sources`, `libbitwidth`, `elf` and `stamp` the
versions of files, so that "stale" can be said. An emulator is a process of its
own: `running`, `stopping` once it was asked to, `writing` between `fopen` and
`fclose`, when its file may be empty, cut off within a row, or whole; nothing
makes it go on. `Interrupt` is the terminal's ^C at any moment. The user edits,
cleans and starts scripts when no script and no emulator is left; `first` and
`stamp` are history.

An operator or action whose comment begins with "Mutant" or "A mutant" is not
part of a specification: it is a plausible mistake, used to see that a property
would notice it (section 3).

## 3. Runs

| Run | Instance | Shows |
|---|---|---|
| `plugin` | seven register descriptors, every order, every assignment of handles; then all 59392 16-bit encodings; 32-bit ones with 3 of the 16 registers in each head and 448 second halfwords; all 4096 modified immediates | `ReadsItsOwnRegister`, `EveryRegisterReadable`, `TableIndicesInRange`, `ImmediatesAsArchitected`, `EncodingsDifferForSPOnly`, `OnlyAddressAddsCounted` |
| `sampler` | four blocks of three to five real encodings, three registers, one of them without a handle, 4-bit words, three block runs | `TypeOK`, `Accounting`, `CsvMatchesHistory` |
| `manager` | four descriptors, three jobs, three result blocks, four report slots, six frames | `RingTypeOK`, `Agreement`, `StagedAsDescribed`, `NoLostInterrupt`, `InFlightKept`, `ImplementsJobQueue`, `MgrTypeOK`, `FramesConserved`, `ReportsConserved`, `DropsOldestOnly`, and with fairness `EveryJobRetired` |
| `host_check` | the programs themselves, built or not: their constants, their tables, 1536 frames and 10000 ticks of four channels, each twice | `CheckTellsResult` (0x1c76a897, 0xb5e38be9), `KeepsUp`, `ArithmeticInRange`, `MostlyUnclipped`, `CheckEnds` |
| `supervisor` | the real thresholds, errors on both sides of each | `SupTypeOK`, `Dwells`, `OuterStatesDebounced`, `FaultsFollowed` |
| `campaign` | three benchmarks, two of them to be cloned and one excluded by `-c`; two scripts, an edit, a failing command, an interrupt | `CampaignTypeOK`, `SummaryTellsAll`, `ReportStaysTrue`, `NoEmulatorLeftBehind`, `OnlyThisRun`, `TargetWithinAll`, `CombinedIsSum`, `PercentilesAsDocumented`, `DeliversForSeveral`, `EveryScriptEnds` |

Each of these properties has a mutant in `PROJECT.json`: with it in place of the
definition it stands for, TLC finds the property violated in the same instance.

Six more runs show that the code does not do what a comment or the README of the
repository says.

* `decode_branches`: the modified-immediate test of `decode_t32` (348) does not look
  at bit 15 of the second halfword, so BL, B.W and B<cond>.W are counted as data
  processing. `decode.h` 50-52 lists branches as out of scope.
* `decode_address`: `decode_t16` (157) asks whether SP or PC is the destination of
  `ADD Rdn, Rm`, not whether it is the operand, so the 16-bit `ADD Rd, SP` and
  `ADD Rd, PC` are counted. `decode.h` 50-52 lists SP/PC-relative address formation as out
  of scope, and the comment at 158 says "SP/PC involved". The 32-bit ADD of SP is dropped
  (278-280), so that the assembler's choice of the encoding of `ADD Rd, SP` decides
  whether it is measured. What holds is said exactly: `OnlyAddressAddsCounted`, that of
  all the groups out of scope these two are the only ones counted, and
  `EncodingsDifferForSPOnly`, that the two encodings of an instruction are measured alike
  if and only if it is not `ADD Rd, SP`.
* `sampler_it`: a result skipped by its IT block is sampled all the same, against
  `bitwidth.c` 6-7.
* `supervisor_flip`: in WARN, errors such as 399, 399, 1201 move to ALARM on the
  single sample 1201, since both directions count in one counter, against
  `pidctl.c` 190-191. `OuterStatesDebounced` is the part of that promise that holds.
* `campaign_build`: the target `build` of `benchmarks/Makefile` (10) is the directory
  `build_all.sh` makes, and not phony. Once it is there nothing is built, so that
  after an earlier `build_all.sh` or `make`, `run_analysis.sh` clones CoreMark and
  Embench and measures neither; an edited benchmark is measured with its old ELF.
  `run_analysis.sh` 2-3 says "build everything". `make clean` helps.
* `campaign_exclude`: `analyze.py -e edn` loads `edn` and draws it. Line 343 extends
  the list of exclusions by the option's string, which adds its characters. The
  docstring of `load_results` (68) speaks of a set of names to skip, and the README of the
  repository (109-110) of a benchmark to exclude. `CombinedIsSum` is about what is done
  with the list, whatever it holds.

Smaller differences of the same kind are modelled as they are and noted at
the definitions: a 32-bit compare is measured without the shift of its second operand
(`RegisterForm32`; `bitwidth.c` 23-25 speaks of the discarded result). In `analyze.py`,
`-c` excludes `edn` as well, which the README of the repository does not list; and one
benchmark alone ends in an exception when the grid with one panel is drawn (251, 362),
where the header speaks of one or more (`DrawGrid`; `DeliversForSeveral` states what
holds). A CSV whose benchmark has no ELF any more is not removed by `run_all.sh` (12) and
stays in the analysis, old plugin and all: `OnlyThisRun` is about benchmarks that have one.

`host_check` is also a test of the model: it computes the checksums
of `bench_expected()`, so every statistic, report and state bit that enters them is
the C program's.

### Bounds, and why they are enough

* `plugin`: the handles in the order of the list are one outcome of `vcpu_init` of many;
  only from it instructions are decoded. The two parts share no state, so any other
  outcome would give the same decoding.
* `manager`: a ring of four descriptors is full with three in use. `MaxFrames` = 6 frames
  take every position round the ring and into its second lap, fill and overflow the
  report queue of three usable slots and cross recalibration three times; a full ring,
  an empty one and equal `seq` values occur. `MaxFrames` and `MaxFull` bound counters
  only. The theorems of section 4 hold for every size and number.
* `MaxRuns` = 3: a block can run before and after it was cut short by an
  exception, and after another one. One block writes, stores and compares the register
  without a handle. The registers have 4 bits, a byte one bit,
  so byte, halfword and word stores truncate differently; the results are zero,
  one, the most negative word and minus one.
* Supervision has no bound; the ten errors lie on both sides of each threshold.
* `host_check` has the programs' own constants. A submission that is refused
  does not occur in it, as `KeepsUp` says; `manager` has any client's refusals.
* `campaign`: with two scripts the second meets what the first has left, finished,
  failed or interrupted: an old CSV, an ELF without its sources' last edit, a
  plugin older than its sources, a `build` directory half filled. Each benchmark's
  CSV has two rows, the second of which can be cut; without the excluded one half
  of the stores have no bits, so that 50 per cent is met exactly. `MaxStarts`, `MaxEdits`,
  `MaxFailures` and `MaxInterrupts` bound the user, the edits, the failing commands
  and the interrupts. `campaign_build` and `campaign_exclude` have no failure and no
  interrupt.

### Deadlock

`sampler` and `plugin` stop (the emulator has terminated, the list is at its
end with handles other than those decoding starts from), and so do `host_check` (the script has returned) and `campaign` (the user has
started all the scripts the bounds allow); their configurations switch the check
off. Everywhere else it is on.

### Fairness

* `MgrLiveSpec` (run `manager`): `bench_run` calls `accel_tick` and `service_engine` in
  pairs until the ring has room and, at the end, until it is empty, so each is called
  again and again: strong fairness. `pop_done` and `drain_reports` are loops that run to
  their ends: weak fairness. Nothing is assumed of `submit`, or that reports are drained.
* `CheckSpec` and `Supervisor`: a single program takes its next step.
* `CampaignSpec`: weak fairness of the scripts' next step, since shell, make and
  Python go on, and `sleep` ends. A script waits for git and for the compilers, so this
  assumes that they return, in success or failure. The user and above all the emulators
  get none: `EveryScriptEnds` rests on the `kill -9` before the `wait`.
* Elsewhere only safety is claimed and no fairness is stated.

## 4. Proofs

All are checked by TLAPS for every value of the constants that the assumptions
named here admit; TLC evaluates each assumption on the constants of the runs.

* **DecodeProofs, DecodeStreamProofs** (`StreamAssumption`). `DecodeInRange`: `decode_insn`
  answers with a well-formed record, group by group from the type of the setters;
  the fillers of the opcode table stand at the compares' positions only.
  `TableIndices` carries this to the stream, with `StreamTypeOK` as the invariant.
  `NothingElseOutOfScope`: the fields by which the decoder tells its groups apart
  overlap, each being the next one with a few more bits (`TopFields`,
  `GroupFields`), and no test of another group claims a move, load, short branch,
  transfer or address formation; that `ADD Rd, SP` and `ADD Rd, PC` are counted is part
  of the statement. `ConstantsAsArchitected`: `thumb_expand_imm` is T32ExpandImm for all 4096
  immediates (`Immediate`, by the selector's five cases), and TST.W reaches it.
  `EncodingsAgree`: an instruction's 16-bit encoding and its 32-bit twin decode to the
  same class, registers and constant, and those of `ADD Rd, SP`, for every `Rd`, do not
  (`HighTwin`). `Digit` reads the fields of a halfword
  off its sum of powers of two; with it the fields of both halfwords of a twin are
  known (`HeadFields`, `SecondFields`), one lemma per group says what `decode_t32` makes
  of them (`WideRegister`, `WideImmediate`, `WideShift`, `WideStore`, `WideMultiply`), and
  one per 16-bit group that `decode_t16` makes the same (`SameShift` to `SameStore`).
* **SamplerProofs** (`SamplerAssumption`, `RegistersAssumption`). `Typing`, from
  `TypeOK`, which is inductive because it says that a translated block carries exactly
  the callbacks of `Plan`. `Exactness`: if `ExactProgram` then `Spec => []Accounting`. The
  invariant equates four quantities, two of them in flight: a result whose sample is
  due on the instruction at hand (`Owed`) and a compare counted before it executes
  (`Ahead`). It needs the strengthening that the register of a due sample still
  holds the result, which is why the sample has to be the first callback of the
  very next instruction. Any set of registers may have handles: nothing is owed for one
  that has none, and `OneCounted` says that a callback counts one exactly if what it
  reads can be read. `FileTellsHistory` says that the rows of the file are the processor's
  history less what is beyond reach, since it is written between blocks, when nothing is
  owed or ahead, and nothing counts after it (`CsvIsFinal`). `ExactProgram` excludes what the violation runs show:
  conditional measured instructions, shifted compares, encodings decoded as
  something else; and stores and compares that fault. TLC evaluates it on
  the program of `sampler`.
  `OwnRegister` and `NoneDropped` are about `vcpu_init`, from `RegInv`: inside its loop
  exactly the registers gone through have handles, and those that are general ones
  are bound (`SeenAreBound`).
* **AccelMgrProofs** (`RingAssumption`, `MgrAssumption`). First the ring alone. `RingInv`
  is the types, `Agreement`, `StagedAsDescribed` and `NoLostInterrupt` together: none is
  inductive alone, because the DONE bits locate the cursor, the cursor the free slots,
  and the free slot is where `submit` may write. The lemmas about positions on a
  circle say how a stretch of it grows and shrinks at either end; the descriptor ring
  and the report queue both use them. `RingTyping`, `PositionsAgree`, `FramesStaged`,
  `InterruptsKept` follow, and `NothingOverwritten` for the steps. `RingRefinesQueue`
  is the refinement `RingSpec => ImplementsJobQueue`: `submit`, `accel_tick` and
  `pop_done` are the queue's three actions (`SubmitMaps`, `TickMaps`, `PopMaps`), the
  other two leave both sequences as they are. Then the manager. `MgrInv` is
  `RingInv`, the channels of the
  descriptors inside their four bits, `MgrTypeOK`, `FramesConserved` and
  `ReportsConserved`. The ring's invariant is needed because what is retired has to
  have been executed; the types because a report's fields are cut to 4, 2, 6 and
  20 bits. What a push or a drain does to the queue and to the events among it is
  said once, of any buffer (`Put`, `Taken`); a push into a full queue is a `Taken`
  and then a `Put`. `ManagerTyping`, `NoFrameLost`, `NoReportLost`, `OldestDropped`.
* **AccelBenchProofs** (and `BenchConstants` and `Provisioned`: the ring holds more than
  `QUEUE_DEPTH` descriptors and the report queue more than `QUEUE_DEPTH + 8` reports),
  for any number of frames and any tables; `host_check` evaluates these
  assumptions on the constants of `accelmgr.c`, and its steps inside that program are
  those of `BenchSpec`. `BenchKeepsUp`: its invariant
  adds to `MgrInv` where `bench_run` is (`PlaceOK`), that everything executed has been
  retired outside `service_engine` (`Served`), that the frames submitted are the retired
  ones and those in the ring (`Accounted`), and, the heart of it, that of the frames up
  to the last multiple of eight all but `QUEUE_DEPTH` have been handed on
  (`HandedInTime`): so fewer than `QUEUE_DEPTH + 8` reports wait when the next one is
  pushed. `EveryTickServes`: the early return of `accel_tick`, which `AccelBench` has no
  action for, is never reached. `BenchEnds` and `NeverStuck` are `CheckEnds` of this
  program less its fairness: every step takes at least one off a count of the steps left
  that never exceeds two runs' worth, `13 * FRAMES` and some for the summary each, and at
  every place some action's guard holds. `RunsAlike` (on `AccelTwice`)
  is reproducibility: from `bench_init` on the two memories agree in all that the program
  still reads (`SameMgr`; the staging areas, which `bench_init` leaves alone and nothing
  reads, may differ), so guards, results and at last checksums are the same.
  `NeitherWaits` adds that the two are not in step by one of them having stopped.
* **PidProofs** (`HysteresisAssumption`, `SupervisorAssumption`, `PidAssumption`). `SupInv`
  bounds the debounce counter by the samples since the last change and, in the
  outer states, equates it with the agreeing samples; from it `SupervisionTyping`,
  `StatesDwell` and `OuterDebounced`. `SignalsInRange` and `ProductsInRange`, together
  `ArithmeticSafe`: the signals keep their ranges and no product of `channel_tick`
  leaves an `int32_t`, whatever the gains, profiles, noise and load their types admit.
  `FaultsFollowedInTime` is `FaultsFollowed` with a bound in place of fairness: every
  sample past `ALARM_HI` brings ALARM one nearer, and `2 * DEBOUNCE_N` of them
  arrive; the same for OK below `WARN_LO`. `ChannelsFollowedInTime` says it of the control loop's
  channels. `WarningsPaced`: what the checksum counts of warnings and alarms is at most
  one for `2 * DEBOUNCE_N` ticks and one more, however the error flips. `PidEnds` and
  `PidRunsAlike` (on `PidTwice`) are for this program what `BenchEnds` and `RunsAlike` are
  for the other.
* **CampaignProofs** (`CampaignAssumption`, `AnalyzeAssumption`), for any benchmarks and
  any number of scripts, edits, failures and interrupts. `Typed` is
  `CampaignTypeOK` with what the place in a script implies (`Placed`); every other proof
  starts from it.
  `OneAtATime`: an emulator lives only between its start and its `kill`.
  `ReportsStayTrue` needs more than its property: a judged benchmark has no emulator
  left, and those from the counter on have not been judged (`Judged`).
  `SummaryComplete` is `SummaryTellsAll` for the part of the list gone through
  (`BuiltSoFar`). `NothingStale` needs that the plugin is new once `make` has passed it,
  and what is measured up to the counter (`Fresh`). `SameMeasurements` and
  `ChartsOfTheSum`: the tables are those of the files read so far and `combined` is
  their sum (`Loads`), and after the first analysis no file changes (`Firsts`).
  `Percentiles`: the loop of `percentile_bits` finds the least width. Its running sum is
  the sum of the counts so far (`RunningSums`, by the lemmas of `Sums`), and it leaves at
  the first width whose sum reaches the share (`FirstFound`), which the last one does. `ChartsDelivered`
  goes through the places where an exception can end the script (`Failed`).
  `ScriptsAreFinite` is `EveryScriptEnds` less its fairness: `StepsLeft`, at most
  `Longest`, decreases with every step of a script, and no step of an emulator, nor an
  interrupt, adds to it. That a second analysis follows the first but no
  third needs `Firsts`: an analysis that succeeded has read a file.
* **Sums**, lemmas only. What `SumFunctionOnSet` computes is defined by recursion,
  element after element. The lemmas do induction without an operator as a
  parameter: a set of naturals that is not empty has a least element
  (`LeastElement`), so the subsets of a finite set that are counterexamples would have
  a smallest one (`SubsetInduction`). Then any element can be taken out of a sum
  (`SumRemove`), an element adds its value, zeros add nothing.

Only model-checked:

* liveness (`EveryJobRetired`, `CheckEnds`, `EveryScriptEnds`, `FaultsFollowed`), out of
  the prover's reach. For the last three the bound on the number of steps is proved
  (`BenchEnds`, `PidEnds`, `ScriptsAreFinite`, `FaultsFollowedInTime`); what is left to TLC
  is that a step which can be taken is taken;
* what is a fact about the programs' own tables: `MostlyUnclipped`, and of
  `CheckTellsResult` the two checksums. That both runs of a program return the same
  one holds for any tables (`RunsAlike`, `PidRunsAlike`);
* the six properties that the code violates.

## 5. Not modelled

* CoreMark, Embench and their port layer: third-party programs.
* Start-up code, linker scripts, examples: executed once, no state. The sanity
  program (`examples/sancheck/sanity.c`) is a few lines for reading a CSV by eye;
  its values need 32-bit registers, more than the model checker's integers hold,
  so `sampler` cannot run it as it is. Its instructions are among those `plugin` decodes.
* `harness.c`: the first run of `host_test.c`, then a spin.
* What the charts of `analyze.py` look like. Percentages are exact in the model and
  floats in the program.
* In `run_all.sh`, the pattern `*.elf` when no ELF matches it: the shell then runs the
  loop once for the pattern itself, on a benchmark called `*`. A CSV with a header only is
  not empty for `test -s`, and `Verdict` calls it EMPTY; a full run writes one row at least
  (`Rows`, in `AnalyzeAssumption`), and a file cut off holds a row or nothing.
* In the scripts: a user who edits while one runs, or starts one while an emulator of
  an interrupted one is still writing; `make -j` or `-k`, a full disk, RUNTIME other than long enough to boot.
* In the plugin: `fopen` failing, memory growth of the callback records, several
  vCPUs (the machine has one), and a second `vcpu_init`.
* In `accelmgr`: wrap-around of the statistics (`stat_sum` wraps after some
  hundred thousand frames; the program has 1536), registers that are only written.

## 6. Plan

1. Done: decoder, sampler, register binding, ring, manager, benchmark programs,
   supervision, host validation, the measurement pipeline and the analysis.
2. Done: theorems for every safety and action property of the runs that speaks of
   more than one program's tables, the refinement of `JobQueue`, reproducibility as
   theorems about two runs, and bounds on the steps of both `bench_run`s and
   of every script.
3. Possible next: `Accounting` for programs that are exact but for shifted compares; the
   statistics of `accelmgr.c` modulo `2^32`.
