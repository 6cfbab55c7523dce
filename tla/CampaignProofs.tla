--------------------------- MODULE CampaignProofs ---------------------------
(***************************************************************************)
(* What a measurement campaign may rely on: for any benchmarks, in any     *)
(* order, any rows of their files, and any number of edits, failures and   *)
(* interrupts.                                                             *)
(***************************************************************************)
EXTENDS Campaign, Sums, SequenceTheorems

-----------------------------------------------------------------------------
(* The two lists of benchmarks.                                            *)

LEMMA Listed ==
  /\ Len(Benches) \in Nat /\ DOMAIN Benches = 1 .. Len(Benches)
  /\ \A k \in 1 .. Len(Benches) : Benches[k] \in Name
  /\ \A b \in Name : \E k \in 1 .. Len(Benches) : b = Benches[k]
  /\ \A j, k \in 1 .. Len(Benches) : Benches[j] = Benches[k] => j = k
BY AnalyzeAssumption DEF Name, Range, IsInjective

LEMMA Ordered ==
  /\ Len(BuildOrder) \in Nat
  /\ \A k \in 1 .. Len(BuildOrder) : BuildOrder[k] \in Name
  /\ \A b \in Name : \E k \in 1 .. Len(BuildOrder) : b = BuildOrder[k]
BY CampaignAssumption DEF Range, IsInjective

LEMMA NameFinite == IsFiniteSet(Name)
<1>1. IsFiniteSet(1 .. Len(Benches))
  BY Listed, FS_Interval
<1>2. Benches \in Surjection(1 .. Len(Benches), Name)
  <2>1. Benches \in [1 .. Len(Benches) -> Name]
    BY Listed, AnalyzeAssumption
  <2> QED
    BY <2>1, Listed DEF Surjection
<1> QED
  BY <1>1, <1>2, FS_Surjection

-----------------------------------------------------------------------------
(* Files.                                                                  *)

LEMMA CsvType ==
  ASSUME NEW rows \in Seq(Row), NEW torn \in BOOLEAN
  PROVE  Csv(rows, torn) \in CsvFile
BY DEF Csv, CsvFile

LEMMA CutType ==
  ASSUME NEW rows \in Seq(Row), NEW k \in 2 .. Len(rows), NEW file \in CutAt(rows, k)
  PROVE  file \in CsvFile
<1> DEFINE head == SubSeq(rows, 1, k - 1)
<1>1. head \in Seq(Row)
  BY SubSeqProperties
<1>2. rows[k] \in Row
  BY ElementOfSeq
<1> HIDE DEF head
<1>3. \A n \in 1 .. rows[k].count : Shortened(rows[k], n) \in Row
  BY <1>2 DEF Shortened, Row
<1>4. \A n \in 1 .. rows[k].count : Append(head, Shortened(rows[k], n)) \in Seq(Row)
  BY <1>1, <1>3, AppendProperties
<1> QED
  BY <1>1, <1>4, CsvType DEF CutAt, head

-----------------------------------------------------------------------------
(* Types, in the parts that the actions change.                            *)

ControlOK ==
  /\ script \in {"none", "run_analysis", "make", "build_all", "run_all", "analyze"}
  /\ at \in {"clone", "plugin", "benchmarks", "build", "run", "sleep", "grace",
            "load", "overall", "by_class", "by_bench", "each", "ended"}
  /\ i \in Nat /\ (at = "ended") = (i = 0)

FilesOK ==
  /\ sources \in [Name -> Nat] /\ plugin_src \in Nat /\ libbitwidth \in 0 .. plugin_src
  /\ build_dir \in BOOLEAN /\ failed \subseteq Name
  /\ elf \in [Name -> Nat]
  /\ \A b \in Name : elf[b] <= sources[b] /\ (elf[b] # 0 => build_dir)

RunOK ==
  /\ emulator \in [Name -> {"none", "running", "stopping", "writing"}]
  /\ results \in [Name -> {NoFile} \cup CsvFile]
  /\ stamp \in [Name -> [elf : Nat, plugin : Nat]]
  /\ reports \in [Name -> {"none", "OK", "EMPTY"}]

StatusOK ==
  /\ options \in Options
  /\ status \in {"none", "running", "done", "failed"}

LEMMA TypeParts == CampaignTypeOK <=> ControlOK /\ FilesOK /\ RunOK /\ StatusOK
BY DEF CampaignTypeOK, ControlOK, FilesOK, RunOK, StatusOK

(* Where a script can be.                                                  *)
Placed ==
  /\ script = "none" => at = "ended"
  /\ at = "build" => build_dir
  /\ at \in {"sleep", "grace"} => i <= Len(Benches)

(* A step of the analysis, as the rest of the campaign sees it.            *)
LEMMA AnalysisMoves ==
  ASSUME ControlOK, StatusOK, AnalyzeNext
  PROVE  /\ Analyzing /\ UNCHANGED options
         /\ at' \in {"load", "overall", "by_class", "by_bench", "each", "ended"}
         /\ i' \in Nat /\ (at' = "ended") = (i' = 0)
         /\ status' \in {"running", "done", "failed", status}
<1>1. CASE LoadFile
  BY <1>1 DEF LoadFile, Read, Skip, Ends, Analyzing, ControlOK
<1>2. CASE Loaded
  BY <1>2 DEF Loaded, Ends, GoesTo, Analyzing, ControlOK
<1>3. CASE PlotOverall
  BY <1>3 DEF PlotOverall, Ends, GoesTo, Analyzing, ControlOK
<1>4. CASE PlotByClass
  BY <1>4 DEF PlotByClass, DrawGrid, Ends, GoesTo, Analyzing, ControlOK
<1>5. CASE PlotByBench
  BY <1>5 DEF PlotByBench, DrawGrid, Ends, GoesTo, Analyzing, ControlOK
<1>6. CASE PlotEach
  BY <1>6 DEF PlotEach, DrawGrid, Ends, Skip, Analyzing, ControlOK
<1>7. CASE ChartsWritten
  BY <1>7 DEF ChartsWritten, Ends, Analyzing, ControlOK
<1> QED
  BY <1>1, <1>2, <1>3, <1>4, <1>5, <1>6, <1>7 DEF AnalyzeNext

(* The actions by what they may touch.                                     *)
Begin  == StartRunAnalysis \/ StartMake \/ StartBuildAll \/ StartRunAll \/ StartAnalyze
Edit   == (\E b \in Name : EditBenchmark(b)) \/ EditPlugin \/ MakeClean
Build  == Clone \/ Cloned \/ MakePlugin \/ MakeBenchmarks \/ BuildOne \/ BuildSummary
Run    == RunSkips \/ RunStarts \/ RunTerminates \/ RunKills \/ RunDone
Report == AnalyzeStep \/ AnalysisOver

LEMMA Kinds ==
  CampaignNext <=> Edit \/ Begin \/ Build \/ Run \/ Report \/ Interrupt \/ \E b \in Name : Emulator(b)
BY DEF CampaignNext, User, Script, Edit, Begin, Build, Run, Report

(* An emulator that was asked to stop writes its own file and nothing else.*)
LEMMA EmulatorMoves ==
  ASSUME NEW b \in Name, Emulator(b)
  PROVE  \E state \in {"writing", "none"}, file \in CsvFile :
           emulator[b] \in {"stopping", "writing"} /\ Writes(b, state, file)
<1>0. <<>> \in Seq(Row) /\ Rows[b] \in Seq(Row) /\ FALSE \in BOOLEAN
  BY AnalyzeAssumption
<1>1. Csv(<<>>, FALSE) \in CsvFile /\ Csv(Rows[b], FALSE) \in CsvFile
  BY <1>0, CsvType
<1>2. CASE EmulatorOpens(b)
  BY <1>1, <1>2 DEF EmulatorOpens
<1>3. CASE EmulatorFlushes(b)
  <2>1. PICK k \in 2 .. Len(Rows[b]) : \E file \in CutAt(Rows[b], k) : Writes(b, "writing", file)
    BY <1>3 DEF EmulatorFlushes
  <2>2. PICK file \in CutAt(Rows[b], k) : Writes(b, "writing", file)
    BY <2>1
  <2>3. file \in CsvFile
    BY <2>2, CutType, AnalyzeAssumption
  <2> QED
    BY <1>3, <2>2, <2>3 DEF EmulatorFlushes
<1>4. CASE EmulatorCloses(b)
  BY <1>1, <1>4 DEF EmulatorCloses
<1> QED
  BY <1>2, <1>3, <1>4 DEF Emulator

LEMMA EmulatorFrame ==
  ASSUME \E b \in Name : Emulator(b)
  PROVE  UNCHANGED <<script, at, i, files, reports, tables, bounds>>
BY EmulatorMoves DEF Writes

LEMMA ControlStep ==
  ASSUME ControlOK, StatusOK, Placed, [CampaignNext]_vars
  PROVE  ControlOK'
<1>1. CASE Edit
  BY <1>1 DEF Edit, EditBenchmark, EditPlugin, MakeClean, ControlOK
<1>2. CASE Begin
  BY <1>2 DEF Begin, Begins, StartRunAnalysis, StartMake, StartBuildAll, StartRunAll, StartAnalyze,
              BuildBegins, RunBegins, AnalysisBegins, ControlOK
<1>3. CASE Build
  BY <1>3 DEF Build, Clone, Cloned, MakePlugin, MakeBenchmarks, BuildOne, BuildSummary, AfterBuild,
              BuildBegins, RunBegins, ScriptEnds, NextOne, GoTo, ControlOK
<1>4. CASE Run
  BY <1>4 DEF Run, RunSkips, RunStarts, RunTerminates, RunKills, RunDone, AnalysisBegins,
              ScriptEnds, NextOne, ControlOK
<1>5. CASE AnalyzeStep
  BY <1>5, AnalysisMoves DEF AnalyzeStep, ControlOK
<1>6. CASE AnalysisOver
  BY <1>6 DEF AnalysisOver, AnalysisBegins, ScriptEnds, ControlOK
<1>7. CASE Interrupt
  BY <1>7 DEF Interrupt, ScriptEnds, ControlOK
<1>8. CASE \E b \in Name : Emulator(b)
  BY <1>8, EmulatorFrame DEF ControlOK
<1>9. CASE UNCHANGED vars
  BY <1>9 DEF vars, ControlOK
<1> QED
  BY <1>1, <1>2, <1>3, <1>4, <1>5, <1>6, <1>7, <1>8, <1>9, Kinds DEF Report

LEMMA StatusStep ==
  ASSUME ControlOK, StatusOK, [CampaignNext]_vars
  PROVE  StatusOK'
<1>0. All \in Options /\ Target \in Options /\ ByHand \subseteq Options
  BY CampaignAssumption DEF All, Target, Options
<1>1. CASE Edit
  BY <1>1 DEF Edit, EditBenchmark, EditPlugin, MakeClean, tables, StatusOK
<1>2. CASE Begin
  BY <1>0, <1>2 DEF Begin, Begins, StartRunAnalysis, StartMake, StartBuildAll, StartRunAll, StartAnalyze,
                    AnalysisBegins, tables, StatusOK
<1>3. CASE Build
  BY <1>0, <1>3 DEF Build, Clone, Cloned, MakePlugin, MakeBenchmarks, BuildOne, BuildSummary,
                    AfterBuild, ScriptEnds, tables, StatusOK
<1>4. CASE Run
  BY <1>0, <1>4 DEF Run, RunSkips, RunStarts, RunTerminates, RunKills, RunDone, AnalysisBegins,
                    ScriptEnds, tables, StatusOK
<1>5. CASE AnalyzeStep
  BY <1>5, AnalysisMoves DEF AnalyzeStep, StatusOK
<1>6. CASE AnalysisOver
  BY <1>0, <1>6 DEF AnalysisOver, AnalysisBegins, ScriptEnds, StatusOK
<1>7. CASE Interrupt
  BY <1>0, <1>7 DEF Interrupt, ScriptEnds, StatusOK
<1>8. CASE \E b \in Name : Emulator(b)
  BY <1>8, EmulatorFrame DEF tables, StatusOK
<1>9. CASE UNCHANGED vars
  BY <1>9 DEF vars, tables, StatusOK
<1> QED
  BY <1>1, <1>2, <1>3, <1>4, <1>5, <1>6, <1>7, <1>8, <1>9, Kinds DEF Report

LEMMA PlacedStep ==
  ASSUME ControlOK, StatusOK, Placed, [CampaignNext]_vars
  PROVE  Placed'
<1>1. CASE Edit
  BY <1>1 DEF Edit, EditBenchmark, EditPlugin, MakeClean, Idle, Placed
<1>2. CASE Begin
  BY <1>2 DEF Begin, Begins, StartRunAnalysis, StartMake, StartBuildAll, StartRunAll, StartAnalyze,
              BuildBegins, RunBegins, AnalysisBegins, Placed
<1>3. CASE Build
  <2>1. CASE Clone \/ Cloned \/ MakePlugin
    BY <2>1 DEF Clone, Cloned, MakePlugin, ScriptEnds, NextOne, GoTo, files, Placed
  <2>2. CASE MakeBenchmarks \/ BuildSummary
    BY <2>2 DEF MakeBenchmarks, BuildSummary, AfterBuild, BuildBegins, RunBegins, ScriptEnds, Placed
  <2>3. CASE BuildOne
    BY <2>3 DEF BuildOne, NextOne, Placed
  <2> QED
    BY <1>3, <2>1, <2>2, <2>3 DEF Build
<1>4. CASE Run
  BY <1>4 DEF Run, RunSkips, RunStarts, RunTerminates, RunKills, RunDone, AnalysisBegins,
              ScriptEnds, NextOne, files, Placed
<1>5. CASE AnalyzeStep
  BY <1>5, AnalysisMoves DEF AnalyzeStep, Analyzing, files, Placed
<1>6. CASE AnalysisOver
  BY <1>6 DEF AnalysisOver, AnalysisBegins, ScriptEnds, files, Placed
<1>7. CASE Interrupt
  BY <1>7 DEF Interrupt, ScriptEnds, Placed
<1>8. CASE \E b \in Name : Emulator(b)
  BY <1>8, EmulatorFrame DEF files, Placed
<1>9. CASE UNCHANGED vars
  BY <1>9 DEF vars, files, Placed
<1> QED
  BY <1>1, <1>2, <1>3, <1>4, <1>5, <1>6, <1>7, <1>8, <1>9, Kinds DEF Report

LEMMA FilesStep ==
  ASSUME ControlOK, FilesOK, Placed, [CampaignNext]_vars
  PROVE  FilesOK'
<1>1. CASE \E b \in Name : EditBenchmark(b)
  BY <1>1 DEF EditBenchmark, FilesOK
<1>2. CASE EditPlugin
  BY <1>2 DEF EditPlugin, FilesOK
<1>3. CASE MakeClean
  <2>1. elf' \in [Name -> Nat] /\ \A b \in Name : elf'[b] = 0
    BY <1>3 DEF MakeClean, Each
  <2>2. libbitwidth' = 0 /\ build_dir' = FALSE /\ UNCHANGED <<sources, plugin_src, failed>>
    BY <1>3 DEF MakeClean
  <2>3. \A b \in Name : elf'[b] <= sources[b]
    BY <2>1 DEF FilesOK
  <2>4. 0 \in 0 .. plugin_src
    BY DEF FilesOK
  <2> QED
    BY <2>1, <2>2, <2>3, <2>4, Zenon DEF FilesOK
<1>4. CASE Begin
  BY <1>4 DEF Begin, StartRunAnalysis, StartMake, StartBuildAll, StartRunAll, StartAnalyze,
              BuildBegins, files, FilesOK
<1>5. CASE Clone
  <2>1. UNCHANGED <<plugin_src, libbitwidth, build_dir, elf, failed>>
    BY <1>5 DEF Clone
  <2>2. CASE UNCHANGED sources
    BY <2>1, <2>2 DEF FilesOK
  <2>3. CASE /\ sources' = [b \in Name |-> IF b \in Repositories[i] THEN 1 ELSE sources[b]]
             /\ \A b \in Repositories[i] : sources[b] = 0
    <3>1. sources' \in [Name -> Nat]
      BY <2>3 DEF FilesOK
    <3>2. \A b \in Name : sources[b] <= sources'[b]
      BY <2>3 DEF FilesOK
    <3> QED
      BY <2>1, <3>1, <3>2 DEF FilesOK
  <2> QED
    BY <1>5, <2>2, <2>3 DEF Clone, Missing
<1>6. CASE Cloned \/ MakePlugin \/ MakeBenchmarks \/ BuildSummary
  <2>1. UNCHANGED <<sources, plugin_src, elf>>
    BY <1>6 DEF Cloned, MakePlugin, MakeBenchmarks, BuildSummary, BuildBegins, files
  <2>2. build_dir' = build_dir \/ build_dir' = TRUE
    BY <1>6 DEF Cloned, MakePlugin, MakeBenchmarks, BuildSummary, BuildBegins, files
  <2>3. libbitwidth' \in 0 .. plugin_src /\ failed' \subseteq Name
    BY <1>6 DEF Cloned, MakePlugin, MakeBenchmarks, BuildSummary, BuildBegins, files, FilesOK
  <2> QED
    BY <2>1, <2>2, <2>3, Zenon DEF FilesOK
<1>7. CASE BuildOne
  <2>1. BuildOrder[i] \in Name /\ build_dir
    BY <1>7, Ordered DEF BuildOne, ControlOK, Placed
  <2>2. UNCHANGED <<sources, plugin_src, libbitwidth, build_dir>> /\ failed' \subseteq Name
    BY <1>7, <2>1 DEF BuildOne, FilesOK
  <2>3. \E e \in {0, elf[BuildOrder[i]], sources[BuildOrder[i]]} :
          elf' = [elf EXCEPT ![BuildOrder[i]] = e]
    BY <1>7, <2>1 DEF BuildOne, FilesOK
  <2>4. elf' \in [Name -> Nat]
    BY <2>1, <2>3 DEF FilesOK
  <2>5. \A b \in Name : elf'[b] <= sources[b]
    BY <2>1, <2>3 DEF FilesOK
  <2> QED
    BY <2>1, <2>2, <2>4, <2>5 DEF FilesOK
<1>8. CASE Run \/ Report
  BY <1>8 DEF Run, RunSkips, RunStarts, RunTerminates, RunKills, RunDone,
              Report, AnalyzeStep, AnalysisOver, files, FilesOK
<1>9. CASE Interrupt
  BY <1>9 DEF Interrupt, FilesOK
<1>10. CASE \E b \in Name : Emulator(b)
  BY <1>10, EmulatorFrame DEF files, FilesOK
<1>11. CASE UNCHANGED vars
  BY <1>11 DEF vars, files, FilesOK
<1> QED
  BY <1>1, <1>2, <1>3, <1>4, <1>5, <1>6, <1>7, <1>8, <1>9, <1>10, <1>11, Kinds DEF Edit, Build

LEMMA RunStep ==
  ASSUME ControlOK, FilesOK, RunOK, Placed, [CampaignNext]_vars
  PROVE  RunOK'
<1>1. CASE Edit \/ Report
  BY <1>1 DEF Edit, EditBenchmark, EditPlugin, MakeClean, Report, AnalyzeStep, AnalysisOver, run, RunOK
<1>2. CASE Begin
  BY <1>2 DEF Begin, StartRunAnalysis, StartMake, StartBuildAll, StartRunAll, StartAnalyze,
              RunBegins, Each, run, RunOK
<1>3. CASE Build
  BY <1>3 DEF Build, Clone, Cloned, MakePlugin, MakeBenchmarks, BuildOne, BuildSummary, AfterBuild,
              RunBegins, Each, run, RunOK
<1>4. CASE RunSkips \/ RunDone
  BY <1>4 DEF RunSkips, RunDone, run, RunOK
<1>5. CASE RunStarts
  <2>1. NoStamp \in [elf : Nat, plugin : Nat]
    BY DEF NoStamp
  <2> QED
    BY <1>5, <2>1 DEF RunStarts, RunOK
<1>6. CASE RunTerminates
  BY <1>6 DEF RunTerminates, AskToStop, RunOK
<1>7. CASE RunKills
  BY <1>7 DEF RunKills, Verdict, RunOK
<1>8. CASE Interrupt
  BY <1>8 DEF Interrupt, AskToStop, RunOK
<1>9. CASE \E b \in Name : Emulator(b)
  <2>1. PICK b \in Name, state \in {"writing", "none"}, file \in CsvFile : Writes(b, state, file)
    BY <1>9, EmulatorMoves
  <2>2. [elf |-> elf[b], plugin |-> libbitwidth] \in [elf : Nat, plugin : Nat]
    BY DEF FilesOK
  <2> QED
    BY <2>1, <2>2 DEF Writes, RunOK
<1>10. CASE UNCHANGED vars
  BY <1>10 DEF vars, run, RunOK
<1> QED
  BY <1>1, <1>2, <1>3, <1>4, <1>5, <1>6, <1>7, <1>8, <1>9, <1>10, Kinds DEF Run

LEMMA InitTypes == CampaignInit => ControlOK /\ FilesOK /\ RunOK /\ StatusOK /\ Placed
<1> SUFFICES ASSUME CampaignInit PROVE ControlOK /\ FilesOK /\ RunOK /\ StatusOK /\ Placed
  OBVIOUS
<1>1. ControlOK /\ Placed
  BY DEF CampaignInit, ControlOK, Placed
<1>2. FilesOK
  <2>1. sources \in [Name -> Nat] /\ elf = [b \in Name |-> 0]
    BY DEF CampaignInit, Each
  <2>2. plugin_src = 1 /\ libbitwidth = 0 /\ build_dir = FALSE /\ failed = {}
    BY DEF CampaignInit
  <2>3. elf \in [Name -> Nat] /\ \A b \in Name : elf[b] = 0 /\ elf[b] <= sources[b]
    BY <2>1
  <2>4. libbitwidth \in 0 .. plugin_src /\ plugin_src \in Nat /\ failed \subseteq Name
    BY <2>2
  <2> QED
    BY <2>1, <2>2, <2>3, <2>4, Zenon DEF FilesOK
<1>3. RunOK
  BY DEF CampaignInit, RunOK, Each, NoStamp
<1>4. StatusOK
  BY DEF CampaignInit, StatusOK, All, Options
<1> QED
  BY <1>1, <1>2, <1>3, <1>4

Typed == ControlOK /\ FilesOK /\ RunOK /\ StatusOK /\ Placed

LEMMA AlwaysTyped == CampaignSpec => []Typed
<1>1. CampaignInit => Typed
  BY InitTypes DEF Typed
<1>2. Typed /\ [CampaignNext]_vars => Typed'
  BY ControlStep, FilesStep, RunStep, StatusStep, PlacedStep DEF Typed
<1> QED
  BY <1>1, <1>2, PTL DEF CampaignSpec

(* Every variable keeps its type; an ELF is never newer than its sources,  *)
(* and none is left when make clean has removed its directory.             *)
THEOREM CampaignTyping == CampaignSpec => []CampaignTypeOK
<1>1. Typed => CampaignTypeOK
  BY TypeParts DEF Typed
<1> QED
  BY <1>1, AlwaysTyped, PTL

-----------------------------------------------------------------------------
(* The emulators.                                                          *)

LEMMA EmulatorsStep ==
  ASSUME Typed, NoEmulatorLeftBehind, [CampaignNext]_vars
  PROVE  NoEmulatorLeftBehind'
<1>1. CASE Edit
  BY <1>1 DEF Edit, EditBenchmark, EditPlugin, MakeClean, Idle, NoEmulatorLeftBehind
<1>2. CASE Begin
  <2>1. Idle /\ UNCHANGED emulator
    BY <1>2 DEF Begin, Begins, StartRunAnalysis, StartMake, StartBuildAll, StartRunAll, StartAnalyze,
                RunBegins, run
  <2> QED
    BY <2>1 DEF Idle, NoEmulatorLeftBehind
<1>3. CASE Build
  <2>1. UNCHANGED emulator /\ at \notin {"sleep", "grace"} /\ script' \in {script, "none"}
    BY <1>3 DEF Build, Clone, Cloned, MakePlugin, MakeBenchmarks, BuildOne, BuildSummary, AfterBuild,
                BuildBegins, RunBegins, ScriptEnds, NextOne, GoTo, run
  <2> QED
    BY <2>1 DEF NoEmulatorLeftBehind
<1>4. CASE RunSkips \/ RunDone
  <2>1. UNCHANGED emulator /\ at \notin {"sleep", "grace"} /\ script' \in {script, "none"}
    BY <1>4 DEF RunSkips, RunDone, AnalysisBegins, ScriptEnds, NextOne, run
  <2> QED
    BY <2>1 DEF NoEmulatorLeftBehind
<1>5. CASE RunStarts
  <2>1. at' = "sleep" /\ UNCHANGED <<script, i>> /\ at = "run"
    BY <1>5 DEF RunStarts
  <2>2. \A b \in Name : b # Benches[i] => emulator'[b] = emulator[b]
    BY <1>5 DEF RunStarts, Typed, RunOK
  <2> QED
    BY <2>1, <2>2 DEF NoEmulatorLeftBehind
<1>6. CASE RunTerminates
  <2>1. at = "sleep" /\ at' = "grace" /\ UNCHANGED <<script, i>>
    BY <1>6 DEF RunTerminates
  <2>2. \A b \in Name : emulator[b] = "none" => emulator'[b] = "none"
    BY <1>6 DEF RunTerminates, AskToStop
  <2> QED
    BY <2>1, <2>2 DEF NoEmulatorLeftBehind
<1>7. CASE RunKills
  <2>1. at = "grace" /\ UNCHANGED script
    BY <1>7 DEF RunKills
  <2>2. \A b \in Name : emulator'[b] = IF b = Benches[i] THEN "none" ELSE emulator[b]
    BY <1>7 DEF RunKills, Typed, RunOK
  <2> QED
    BY <2>1, <2>2 DEF NoEmulatorLeftBehind
<1>8. CASE AnalyzeStep
  BY <1>8, AnalysisMoves DEF AnalyzeStep, Analyzing, run, Typed, NoEmulatorLeftBehind
<1>9. CASE AnalysisOver \/ Interrupt
  BY <1>9 DEF AnalysisOver, Interrupt, AnalysisBegins, ScriptEnds, run, NoEmulatorLeftBehind
<1>10. CASE \E b \in Name : Emulator(b)
  <2>1. PICK b \in Name, state \in {"writing", "none"}, file \in CsvFile :
          emulator[b] \in {"stopping", "writing"} /\ Writes(b, state, file)
    BY <1>10, EmulatorMoves
  <2>2. \A x \in Name : emulator'[x] # "none" => emulator[x] # "none"
    BY <2>1 DEF Writes, Typed, RunOK
  <2>3. UNCHANGED <<script, at, i>>
    BY <2>1 DEF Writes
  <2> QED
    BY <2>2, <2>3 DEF NoEmulatorLeftBehind
<1>11. CASE UNCHANGED vars
  BY <1>11 DEF vars, run, NoEmulatorLeftBehind
<1> QED
  BY <1>1, <1>2, <1>3, <1>4, <1>5, <1>6, <1>7, <1>8, <1>9, <1>10, <1>11, Kinds DEF Run, Report

LEMMA AlwaysAlone == CampaignSpec => [](Typed /\ NoEmulatorLeftBehind)
<1>1. CampaignInit => NoEmulatorLeftBehind
  BY DEF CampaignInit, NoEmulatorLeftBehind
<1> QED
  BY <1>1, EmulatorsStep, AlwaysTyped, PTL DEF CampaignSpec

(* While a script runs, the only emulator is that of the benchmark being   *)
(* measured (run_all.sh, 19-29), after failures, interrupts and emulators  *)
(* that ignored the request to stop too.                                   *)
THEOREM OneAtATime == CampaignSpec => []NoEmulatorLeftBehind
BY AlwaysAlone, PTL

-----------------------------------------------------------------------------
(* Verdicts.                                                               *)

(* A benchmark that was judged has no emulator any more, and those that    *)
(* the loop has not come to are not judged yet.                            *)
Judged ==
  /\ \A b \in Name : reports[b] # "none" => reports[b] = Verdict(b) /\ emulator[b] = "none"
  /\ at \in {"run", "sleep", "grace"} =>
       \A k \in 1 .. Len(Benches) : k >= i => reports[Benches[k]] = "none"

LEMMA JudgedStep ==
  ASSUME Typed, NoEmulatorLeftBehind, Judged, [CampaignNext]_vars
  PROVE  Judged'
<1>1. CASE Edit
  BY <1>1 DEF Edit, EditBenchmark, EditPlugin, MakeClean, run, Judged, Verdict
<1>2. CASE StartRunAnalysis \/ StartMake \/ StartBuildAll \/ StartAnalyze
  BY <1>2 DEF StartRunAnalysis, StartMake, StartBuildAll, StartAnalyze, BuildBegins, AnalysisBegins,
              run, Judged, Verdict
<1>3. ASSUME RunBegins PROVE Judged'
  <2>1. \A b \in Name : reports'[b] = "none"
    BY <1>3 DEF RunBegins, Each
  <2> QED
    BY <2>1, Listed DEF Judged
<1>4. CASE StartRunAll
  BY <1>3, <1>4 DEF StartRunAll
<1>5. CASE Clone \/ Cloned \/ MakePlugin \/ BuildOne
  BY <1>5 DEF Clone, Cloned, MakePlugin, BuildOne, NextOne, GoTo, ScriptEnds, run, Judged, Verdict
<1>6. CASE MakeBenchmarks \/ BuildSummary
  <2>1. RunBegins \/ (UNCHANGED run /\ at' \in {"build", "ended"})
    BY <1>6 DEF MakeBenchmarks, BuildSummary, AfterBuild, BuildBegins, ScriptEnds
  <2>2. CASE UNCHANGED run /\ at' \in {"build", "ended"}
    BY <2>2 DEF run, Judged, Verdict
  <2> QED
    BY <1>3, <2>1, <2>2
<1>7. CASE RunSkips
  <2>1. at = "run" /\ UNCHANGED <<at, run>> /\ i' = i + 1 /\ i \in Nat
    BY <1>7 DEF RunSkips, NextOne, Typed, ControlOK
  <2> QED
    BY <2>1, Listed DEF run, Judged, Verdict
<1>8. CASE RunStarts
  <2>1. Benches[i] \in Name /\ reports[Benches[i]] = "none"
    BY <1>8, Listed DEF RunStarts, Judged, Typed, ControlOK
  <2>2. /\ \A b \in Name : b # Benches[i] => results'[b] = results[b] /\ emulator'[b] = emulator[b]
        /\ UNCHANGED <<i, reports>> /\ at = "run"
    BY <1>8 DEF RunStarts, Typed, RunOK
  <2> QED
    BY <2>1, <2>2 DEF Judged, Verdict
<1>9. CASE RunTerminates
  <2>1. \A b \in Name : emulator[b] = "none" => emulator'[b] = "none"
    BY <1>9 DEF RunTerminates, AskToStop
  <2> QED
    BY <1>9, <2>1 DEF RunTerminates, Judged, Verdict
<1>10. CASE RunKills
  <2>1. i \in 1 .. Len(Benches) /\ Benches[i] \in Name
    BY <1>10, Listed DEF RunKills, Typed, Placed, ControlOK
  <2>2. /\ \A b \in Name : emulator'[b] = IF b = Benches[i] THEN "none" ELSE emulator[b]
        /\ \A b \in Name : reports'[b] = IF b = Benches[i] THEN Verdict(b) ELSE reports[b]
    BY <1>10 DEF RunKills, Typed, RunOK
  <2>3. at = "grace" /\ at' = "run" /\ i' = i + 1 /\ UNCHANGED results
    BY <1>10 DEF RunKills
  <2>4. \A k \in 1 .. Len(Benches) : k >= i' => k >= i /\ Benches[k] # Benches[i] /\ Benches[k] \in Name
    BY <2>1, <2>3, Listed
  <2> QED
    BY <2>2, <2>3, <2>4 DEF Judged, Verdict
<1>11. CASE RunDone
  BY <1>11 DEF RunDone, AnalysisBegins, ScriptEnds, run, Judged, Verdict
<1>12. CASE AnalyzeStep
  BY <1>12, AnalysisMoves DEF AnalyzeStep, run, Typed, Judged, Verdict
<1>13. CASE AnalysisOver
  BY <1>13 DEF AnalysisOver, AnalysisBegins, ScriptEnds, run, Judged, Verdict
<1>14. CASE Interrupt
  <2>1. \A b \in Name : emulator[b] = "none" => emulator'[b] = "none"
    BY <1>14 DEF Interrupt, AskToStop
  <2> QED
    BY <1>14, <2>1 DEF Interrupt, ScriptEnds, Judged, Verdict
<1>15. CASE \E b \in Name : Emulator(b)
  <2>1. PICK b \in Name, state \in {"writing", "none"}, file \in CsvFile :
          emulator[b] \in {"stopping", "writing"} /\ Writes(b, state, file)
    BY <1>15, EmulatorMoves
  <2>2. \A x \in Name : x # b => results'[x] = results[x] /\ emulator'[x] = emulator[x]
    BY <2>1 DEF Writes, Typed, RunOK
  <2>3. reports[b] = "none"
    BY <2>1 DEF Judged
  <2> QED
    BY <2>1, <2>2, <2>3 DEF Writes, Judged, Verdict
<1>16. CASE UNCHANGED vars
  BY <1>16 DEF vars, run, Judged, Verdict
<1> QED
  BY <1>1, <1>2, <1>4, <1>5, <1>6, <1>7, <1>8, <1>9, <1>10, <1>11, <1>12, <1>13, <1>14, <1>15, <1>16,
     Kinds DEF Begin, Build, Run, Report

(* What run_all.sh printed of a benchmark, OK or EMPTY, stays true of its  *)
(* file until run_all.sh starts again: no late emulator writes into it.    *)
THEOREM ReportsStayTrue == CampaignSpec => []ReportStaysTrue
<1>1. CampaignInit => Judged
  BY DEF CampaignInit, Judged, Each
<1>2. Judged => ReportStaysTrue
  BY DEF Judged, ReportStaysTrue
<1> QED
  BY <1>1, <1>2, JudgedStep, AlwaysAlone, PTL DEF CampaignSpec

-----------------------------------------------------------------------------
(* The summary of a build.                                                 *)

BuiltSoFar ==
  at = "build" =>
    \A k \in 1 .. Len(BuildOrder) :
      k < i /\ elf[BuildOrder[k]] # sources[BuildOrder[k]] => BuildOrder[k] \in failed

LEMMA BuiltStep ==
  ASSUME Typed, BuiltSoFar, [CampaignNext]_vars
  PROVE  BuiltSoFar'
<1>1. CASE at' = "build" /\ i' = 1
  BY <1>1, Ordered DEF BuiltSoFar
<1>2. CASE BuildOne
  <2> DEFINE b == BuildOrder[i]
  <2>1. /\ i \in Nat /\ i' = i + 1 /\ at = "build" /\ UNCHANGED sources
        /\ b \in Name /\ elf[b] \in Nat /\ sources[b] \in Nat /\ elf[b] <= sources[b]
        /\ elf \in [Name -> Nat]
    BY <1>2, Ordered DEF BuildOne, NextOne, Typed, ControlOK, FilesOK
  <2>2. \A x \in Name : x # b => elf'[x] = elf[x]
    BY <1>2, <2>1 DEF BuildOne
  <2>3. failed \subseteq failed' /\ (elf'[b] # sources[b] => b \in failed')
    <3>1. CASE elf' = (IF sources[b] > 0 THEN [elf EXCEPT ![b] = sources[b]] ELSE elf) /\ UNCHANGED failed
      BY <2>1, <3>1
    <3>2. CASE failed' = failed \cup {b}
      BY <3>2
    <3> QED
      BY <1>2, <3>1, <3>2 DEF BuildOne
  <2>4. \A k \in 1 .. Len(BuildOrder) : BuildOrder[k] \in Name /\ (k < i' => k < i \/ k = i)
    BY <2>1, Ordered
  <2> QED
    BY <2>1, <2>2, <2>3, <2>4 DEF BuiltSoFar
<1>3. CASE at' # "build"
  BY <1>3 DEF BuiltSoFar
<1>4. CASE UNCHANGED <<at, i, elf, sources, failed>>
  BY <1>4 DEF BuiltSoFar
<1>5. BuildOne \/ at' # "build" \/ (at' = "build" /\ i' = 1) \/ UNCHANGED <<at, i, elf, sources, failed>>
  <2>1. CASE Edit
    BY <2>1 DEF Edit, EditBenchmark, EditPlugin, MakeClean, Idle, Typed, Placed
  <2>2. CASE Begin
    BY <2>2 DEF Begin, StartRunAnalysis, StartMake, StartBuildAll, StartRunAll, StartAnalyze,
                BuildBegins, RunBegins, AnalysisBegins
  <2>3. CASE Build
    BY <2>3 DEF Build, Clone, Cloned, MakePlugin, MakeBenchmarks, BuildSummary, AfterBuild,
                BuildBegins, RunBegins, ScriptEnds, NextOne, GoTo
  <2>4. CASE Run
    BY <2>4 DEF Run, RunSkips, RunStarts, RunTerminates, RunKills, RunDone, AnalysisBegins,
                ScriptEnds, NextOne
  <2>5. CASE Report
    BY <2>5, AnalysisMoves DEF Report, AnalyzeStep, AnalysisOver, AnalysisBegins, ScriptEnds, Typed
  <2>6. CASE Interrupt
    BY <2>6 DEF Interrupt, ScriptEnds
  <2>7. CASE \E b \in Name : Emulator(b)
    BY <2>7, EmulatorFrame DEF files
  <2>8. CASE UNCHANGED vars
    BY <2>8 DEF vars, files
  <2> QED
    BY <2>1, <2>2, <2>3, <2>4, <2>5, <2>6, <2>7, <2>8, Kinds
<1> QED
  BY <1>1, <1>2, <1>3, <1>4, <1>5

(* When build_all.sh has gone through its list, an ELF that is not of the  *)
(* present sources is of a benchmark that its summary lists as FAIL.       *)
THEOREM SummaryComplete == CampaignSpec => []SummaryTellsAll
<1>1. CampaignInit => BuiltSoFar
  BY DEF CampaignInit, BuiltSoFar
<1>2. Typed /\ BuiltSoFar => SummaryTellsAll
  BY Ordered DEF BuiltSoFar, SummaryTellsAll, Typed, ControlOK
<1> QED
  BY <1>1, <1>2, BuiltStep, AlwaysTyped, PTL DEF CampaignSpec

-----------------------------------------------------------------------------
(* The age of what run_analysis.sh analyses.                               *)

Measured(b) ==
  results[b].present /\ elf[b] # 0 => stamp[b] = [elf |-> elf[b], plugin |-> plugin_src]

(* From make on, run_analysis.sh has the plugin of the present sources,    *)
(* and what its loop over the benchmarks has passed is measured with it.   *)
Fresh ==
  script = "run_analysis" =>
    /\ at \notin {"clone", "plugin"} => libbitwidth = plugin_src
    /\ at \in {"run", "sleep", "grace"} =>
         \A k \in 1 .. Len(Benches) : k < i \/ (k = i /\ at # "run") => Measured(Benches[k])
    /\ Analyzing \/ at = "ended" => \A b \in Name : Measured(b)

LEMMA FreshStep ==
  ASSUME Typed, NoEmulatorLeftBehind, Fresh, [CampaignNext]_vars
  PROVE  Fresh'
<1>1. CASE Edit
  BY <1>1 DEF Edit, EditBenchmark, EditPlugin, MakeClean, Idle, Fresh
<1>2. CASE Begin
  BY <1>2 DEF Begin, Begins, StartRunAnalysis, StartMake, StartBuildAll, StartRunAll, StartAnalyze,
              Fresh, Analyzing
<1>3. ASSUME RunBegins, UNCHANGED <<script, libbitwidth, plugin_src>>, at \notin {"clone", "plugin"}
      PROVE  Fresh'
  BY <1>3, Listed DEF RunBegins, Fresh, Analyzing
<1>4. CASE Clone \/ Cloned
  BY <1>4 DEF Clone, Cloned, NextOne, GoTo, ScriptEnds, Fresh, Analyzing
<1>5. CASE MakePlugin
  BY <1>5 DEF MakePlugin, GoTo, ScriptEnds, Fresh, Analyzing
<1>6. CASE MakeBenchmarks \/ BuildSummary
  <2>1. /\ at \in {"benchmarks", "build"} /\ UNCHANGED <<libbitwidth, plugin_src>>
        /\ \/ RunBegins /\ UNCHANGED script
           \/ script' = "none"
           \/ at' = "build" /\ UNCHANGED script
    BY <1>6 DEF MakeBenchmarks, BuildSummary, AfterBuild, BuildBegins, ScriptEnds, files
  <2>2. CASE script' = "none"
    BY <2>2 DEF Fresh
  <2>3. CASE at' = "build" /\ UNCHANGED script
    BY <2>1, <2>3 DEF Fresh, Analyzing
  <2> QED
    BY <1>3, <2>1, <2>2, <2>3
<1>7. CASE BuildOne
  BY <1>7 DEF BuildOne, NextOne, Fresh, Analyzing
<1>8. CASE RunSkips
  <2>1. /\ at = "run" /\ i' = i + 1 /\ i \in Nat /\ elf[Benches[i]] = 0
        /\ UNCHANGED <<script, at, plugin_src, libbitwidth, elf, results, stamp>>
    BY <1>8 DEF RunSkips, NextOne, files, run, Typed, ControlOK
  <2>2. \A k \in 1 .. Len(Benches) : k < i' => k < i \/ k = i
    BY <2>1, Listed
  <2> QED
    BY <2>1, <2>2 DEF Fresh, Measured, Analyzing
<1>9. CASE RunStarts
  <2>1. /\ at = "run" /\ at' = "sleep" /\ i \in 1 .. Len(Benches) /\ Benches[i] \in Name
        /\ UNCHANGED <<script, i, plugin_src, libbitwidth, elf>>
    BY <1>9, Listed DEF RunStarts, files, Typed, ControlOK
  <2>2. ~results'[Benches[i]].present
    BY <1>9, <2>1 DEF RunStarts, NoFile, Typed, RunOK
  <2>3. \A k \in 1 .. Len(Benches) : k < i =>
          results'[Benches[k]] = results[Benches[k]] /\ stamp'[Benches[k]] = stamp[Benches[k]]
    BY <1>9, <2>1, Listed DEF RunStarts, Typed, RunOK
  <2> QED
    BY <2>1, <2>2, <2>3 DEF Fresh, Measured, Analyzing
<1>10. CASE RunTerminates
  BY <1>10 DEF RunTerminates, files, Fresh, Measured, Analyzing
<1>11. CASE RunKills
  <2>1. /\ at = "grace" /\ at' = "run" /\ i' = i + 1 /\ i \in Nat
        /\ UNCHANGED <<script, plugin_src, libbitwidth, elf, results, stamp>>
    BY <1>11 DEF RunKills, files, Typed, ControlOK
  <2>2. \A k \in 1 .. Len(Benches) : k < i' => k < i \/ k = i
    BY <2>1, Listed
  <2> QED
    BY <2>1, <2>2 DEF Fresh, Measured, Analyzing
<1>12. CASE RunDone
  <2>1. /\ at = "run" /\ i > Len(Benches) /\ i \in Nat
        /\ UNCHANGED <<plugin_src, libbitwidth, elf, results, stamp>>
        /\ (script' = "run_analysis" => script = "run_analysis" /\ at' = "load")
    BY <1>12 DEF RunDone, AnalysisBegins, ScriptEnds, files, run, Typed, ControlOK
  <2>2. \A b \in Name : \E k \in 1 .. Len(Benches) : k < i /\ b = Benches[k]
    BY <2>1, Listed
  <2> QED
    BY <2>1, <2>2 DEF Fresh, Measured, Analyzing
<1>13. CASE AnalyzeStep
  <2>1. /\ Analyzing /\ at' \in {"load", "overall", "by_class", "by_bench", "each", "ended"}
        /\ UNCHANGED <<script, plugin_src, libbitwidth, elf, results, stamp>>
    BY <1>13, AnalysisMoves DEF AnalyzeStep, files, run, Typed
  <2> QED
    BY <2>1 DEF Fresh, Measured, Analyzing
<1>14. CASE AnalysisOver
  <2>1. /\ at = "ended" /\ UNCHANGED <<plugin_src, libbitwidth, elf, results, stamp>>
        /\ (script' = "run_analysis" => script = "run_analysis" /\ at' = "load")
    BY <1>14 DEF AnalysisOver, AnalysisBegins, ScriptEnds, files, run
  <2> QED
    BY <2>1 DEF Fresh, Measured, Analyzing
<1>15. CASE Interrupt
  BY <1>15 DEF Interrupt, ScriptEnds, Fresh
<1>16. CASE \E b \in Name : Emulator(b)
  <2>1. PICK b \in Name, state \in {"writing", "none"}, file \in CsvFile :
          emulator[b] \in {"stopping", "writing"} /\ Writes(b, state, file)
    BY <1>16, EmulatorMoves
  <2>2. \A x \in Name : x # b => results'[x] = results[x] /\ stamp'[x] = stamp[x]
    BY <2>1 DEF Writes, Typed, RunOK
  <2>3. UNCHANGED <<script, at, i, plugin_src, libbitwidth, elf>>
    BY <2>1 DEF Writes, files
  <2>4. stamp'[b] = [elf |-> elf[b], plugin |-> libbitwidth]
    BY <2>1 DEF Writes, Typed, RunOK
  <2>5. script = "run_analysis" => at \in {"sleep", "grace"}
    BY <2>1 DEF NoEmulatorLeftBehind
  <2> QED
    BY <2>2, <2>3, <2>4, <2>5, Listed DEF Fresh, Measured, Analyzing
<1>17. CASE UNCHANGED vars
  BY <1>17 DEF vars, files, run, Fresh, Measured, Analyzing
<1> QED
  BY <1>1, <1>2, <1>4, <1>5, <1>6, <1>7, <1>8, <1>9, <1>10, <1>11, <1>12, <1>13, <1>14, <1>15, <1>16,
     <1>17, Kinds DEF Build, Run, Report

(* run_analysis.sh analyses no CSV of an older plugin or of another ELF:   *)
(* the results that clean leaves behind never reach its charts.            *)
THEOREM NothingStale == CampaignSpec => []OnlyThisRun
<1>1. CampaignInit => Fresh
  BY DEF CampaignInit, Fresh
<1>2. Fresh => OnlyThisRun
  BY DEF Fresh, Measured, OnlyThisRun
<1> QED
  BY <1>1, <1>2, FreshStep, AlwaysAlone, PTL DEF CampaignSpec

-----------------------------------------------------------------------------
(* The tables of an analysis.                                              *)

Table       == [Classes -> [Width -> Nat]]
TableFor(b) == TableOf(results[b].rows)

LEMMA TableType ==
  ASSUME NEW rows \in Seq(Row)
  PROVE  TableOf(rows) \in Table
<1> DEFINE counts == [k \in DOMAIN rows |-> rows[k].count]
           At(c, w) == {k \in DOMAIN rows : rows[k].cls = c /\ rows[k].bitwidth = w}
<1>1. Len(rows) \in Nat /\ DOMAIN rows = 1 .. Len(rows) /\ IsFiniteSet(1 .. Len(rows))
  BY FS_Interval
<1>2. \A k \in DOMAIN rows : rows[k].count \in Nat
  <2>1. \A k \in 1 .. Len(rows) : rows[k] \in Row
    BY ElementOfSeq
  <2>2. \A row \in Row : row.count \in Nat
    BY DEF Row
  <2> QED
    BY <1>1, <2>1, <2>2
<1>3. ASSUME NEW c \in Classes, NEW w \in Width
      PROVE  SumFunctionOnSet(counts, At(c, w)) \in Nat
  <2>1. At(c, w) \in SUBSET (DOMAIN rows)
    OBVIOUS
  <2>2. NatOn(counts, At(c, w))
    BY <1>2 DEF NatOn
  <2>3. IsFiniteSet(At(c, w))
    BY <1>1, <2>1, FS_Subset
  <2> HIDE DEF counts, At
  <2> QED
    BY <2>2, <2>3, SumNat
<1>4. TableOf(rows) = [c \in Classes |-> [w \in Width |-> SumFunctionOnSet(counts, At(c, w))]]
  BY DEF TableOf
<1> HIDE DEF counts, At
<1> QED
  BY <1>3, <1>4 DEF Table

LEMMA TableForType ==
  ASSUME RunOK, NEW b \in Name, results[b].present
  PROVE  TableFor(b) \in Table
<1>1. results[b] \in {NoFile} \cup CsvFile
  BY DEF RunOK
<1>2. results[b] # NoFile
  BY DEF NoFile
<1>3. results[b].rows \in Seq(Row)
  BY <1>1, <1>2 DEF CsvFile
<1> QED
  BY <1>3, TableType DEF TableFor

(* The benchmarks that load_results has come by and not left out.          *)
LoadedSoFar ==
  {b \in Name \ exclude :
     results[b].present /\ (at = "load" => \E k \in 1 .. Len(Benches) : k < i /\ b = Benches[k])}

Column(tab, c, w) == [b \in DOMAIN tab |-> tab[b][c][w]]
SummedUp ==
  /\ combined \in Table
  /\ \A c \in Classes, w \in Width : combined[c][w] = SumFunction(Column(per_bench, c, w))
HasTables == Analyzing \/ status = "done"

Loads == HasTables => per_bench = [b \in LoadedSoFar |-> TableFor(b)] /\ SummedUp

(* A new analysis has loaded nothing.                                      *)
LEMMA LoadsBegin ==
  ASSUME NEW opts, AnalysisBegins(opts)
  PROVE  Loads'
<1>1. LoadedSoFar' = {}
  BY Listed DEF AnalysisBegins, LoadedSoFar
<1>2. per_bench' = [b \in {} |-> ZeroTable] /\ combined' = ZeroTable
  BY DEF AnalysisBegins
<1>3. per_bench' = [b \in LoadedSoFar' |-> TableFor(b)']
  BY <1>1, <1>2
<1>4. \A c \in Classes, w \in Width : SumFunction(Column(per_bench', c, w)) = 0
  BY <1>2, SumEmpty DEF Column, SumFunction
<1>5. combined' \in Table /\ \A c \in Classes, w \in Width : combined'[c][w] = 0
  BY <1>2 DEF ZeroTable, Table
<1>6. SummedUp'
  BY <1>4, <1>5 DEF SummedUp
<1> QED
  BY <1>3, <1>6 DEF Loads

LEMMA SameLoaded ==
  ASSUME UNCHANGED <<results, options>>, (at # "load" /\ at' # "load") \/ UNCHANGED <<at, i>>
  PROVE  LoadedSoFar' = LoadedSoFar
BY DEF LoadedSoFar, exclude

LEMMA LoadsKept ==
  ASSUME Loads, HasTables, UNCHANGED <<results, options, per_bench, combined>>, LoadedSoFar' = LoadedSoFar
  PROVE  Loads'
BY DEF Loads, SummedUp, TableFor

(* A file read adds its table to those before.                             *)
LEMMA LoadsRead ==
  ASSUME RunOK, ControlOK, Loads, LoadFile, UNCHANGED results,
         results[Benches[i]].present, Benches[i] \notin exclude, ~results[Benches[i]].torn
  PROVE  Loads'
<1> DEFINE b == Benches[i]
           D == LoadedSoFar
<1>1. /\ at = "load" /\ at' = "load" /\ i \in 1 .. Len(Benches) /\ i' = i + 1 /\ UNCHANGED options
      /\ per_bench' = [x \in DOMAIN per_bench \cup {b} |-> IF x = b THEN TableFor(b) ELSE per_bench[x]]
      /\ combined' = Plus(combined, TableFor(b))
  BY DEF LoadFile, Read, TableFor, ControlOK
<1>2. b \in Name
  BY <1>1, Listed
<1>3. per_bench = [x \in D |-> TableFor(x)] /\ SummedUp
  BY <1>1 DEF Loads, HasTables, Analyzing
<1>4. b \notin D
  BY <1>1, Listed DEF LoadedSoFar
<1>5. LoadedSoFar' = D \cup {b}
  <2>1. exclude' = exclude
    BY <1>1 DEF exclude
  <2>2. \A k \in 1 .. Len(Benches) : k < i' <=> k < i \/ k = i
    BY <1>1, Listed
  <2>3. \A x \in Name : (\E k \in 1 .. Len(Benches) : k < i' /\ x = Benches[k])
                         <=> x = b \/ \E k \in 1 .. Len(Benches) : k < i /\ x = Benches[k]
    BY <1>1, <2>2
  <2> HIDE DEF b
  <2>4. b \notin exclude /\ results[b].present
    BY DEF b
  <2> QED
    BY <1>1, <1>2, <2>1, <2>3, <2>4 DEF LoadedSoFar
<1>6. D \subseteq Name /\ \A x \in D : results[x].present
  BY DEF LoadedSoFar
<1>7. \A x \in D \cup {b} : TableFor(x) \in Table
  BY <1>2, <1>6, TableForType
<1> HIDE DEF b, D
<1>8. per_bench' = [x \in D \cup {b} |-> TableFor(x)]
  BY <1>1, <1>3
<1>9. IsFiniteSet(D)
  BY <1>6, NameFinite, FS_Subset
<1>10. ASSUME NEW c \in Classes, NEW w \in Width
       PROVE  combined'[c][w] = SumFunction(Column(per_bench', c, w))
  <2> DEFINE f == Column(per_bench, c, w)
             g == Column(per_bench', c, w)
             t == TableFor(b)[c][w]
  <2>1. DOMAIN f = D /\ \A x \in D : f[x] = TableFor(x)[c][w]
    BY <1>3 DEF Column
  <2>2. DOMAIN g = D \cup {b} /\ \A x \in D \cup {b} : g[x] = TableFor(x)[c][w]
    BY <1>8 DEF Column
  <2>3. t \in Nat /\ \A x \in D : TableFor(x)[c][w] \in Nat
    BY <1>7 DEF Table
  <2>4. g[b] = t
    BY <2>2
  <2>5. combined'[c][w] = combined[c][w] + t
    BY <1>1 DEF Plus
  <2> HIDE DEF f, g, t
  <2>6. NatOn(f, D) /\ NatOn(g, D) /\ g[b] \in Nat /\ \A x \in D : f[x] = g[x]
    BY <2>1, <2>2, <2>3, <2>4 DEF NatOn
  <2>7. SumFunctionOnSet(g, D \cup {b}) = g[b] + SumFunctionOnSet(g, D)
    BY <1>4, <1>9, <2>6, SumAdd DEF D
  <2>8. SumFunctionOnSet(f, D) = SumFunctionOnSet(g, D)
    BY <1>9, <2>6, SumSame
  <2>9. combined[c][w] = SumFunction(f)
    BY <1>3 DEF SummedUp, f
  <2>10. SumFunctionOnSet(f, D) \in Nat
    BY <1>9, <2>6, SumNat
  <2>11. SumFunction(g) = t + SumFunction(f)
    BY <2>1, <2>2, <2>4, <2>7, <2>8 DEF SumFunction
  <2> QED
    BY <2>1, <2>3, <2>5, <2>9, <2>10, <2>11 DEF g, SumFunction
<1>11. SummedUp'
  <2>1. combined \in Table /\ TableFor(b) \in Table
    BY <1>3, <1>7 DEF SummedUp
  <2>2. combined' \in Table
    BY <1>1, <2>1 DEF Plus, Table
  <2> QED
    BY <1>10, <2>2 DEF SummedUp
<1>12. \A x : TableFor(x)' = TableFor(x)
  BY DEF TableFor
<1> QED
  BY <1>5, <1>8, <1>11, <1>12 DEF Loads

LEMMA LoadsAnalysis ==
  ASSUME Typed, Loads, AnalyzeNext, UNCHANGED results
  PROVE  Loads'
<1>0. Analyzing /\ HasTables
  BY AnalysisMoves DEF Typed, HasTables
<1>1. ASSUME at # "load", at' # "load", UNCHANGED <<options, per_bench, combined>>
      PROVE  Loads'
  BY <1>0, <1>1, SameLoaded, LoadsKept
<1>2. ASSUME Ends("failed") PROVE Loads'
  BY <1>2 DEF Ends, Loads, HasTables, Analyzing
<1>3. ASSUME at # "load", Ends("done") PROVE Loads'
  BY <1>1, <1>3 DEF Ends
<1>4. CASE LoadFile
  <2>1. CASE ~(results[Benches[i]].present /\ Benches[i] \notin exclude)
    <3>1. at = "load" /\ i \in 1 .. Len(Benches) /\ Skip
      BY <1>4, <2>1 DEF LoadFile, Typed, ControlOK
    <3>2. \A k \in 1 .. Len(Benches) : k < i' <=> k < i \/ k = i
      BY <3>1, Listed DEF Skip
    <3>3. exclude' = exclude
      BY <3>1 DEF Skip, exclude
    <3>4. LoadedSoFar' = LoadedSoFar
      BY <2>1, <3>1, <3>2, <3>3 DEF LoadedSoFar, Skip
    <3> QED
      BY <1>0, <3>1, <3>4, LoadsKept DEF Skip
  <2>2. CASE results[Benches[i]].present /\ Benches[i] \notin exclude /\ results[Benches[i]].torn
    BY <1>2, <1>4, <2>2 DEF LoadFile, Read
  <2>3. CASE results[Benches[i]].present /\ Benches[i] \notin exclude /\ ~results[Benches[i]].torn
    BY <1>4, <2>3, LoadsRead DEF Typed
  <2> QED
    BY <2>1, <2>2, <2>3
<1>5. CASE Loaded
  <2>1. CASE GoesTo("overall")
    <3>1. at = "load" /\ i \in Nat /\ i > Len(Benches) /\ at' = "overall"
          /\ UNCHANGED <<options, per_bench, combined>>
      BY <1>5, <2>1 DEF Loaded, GoesTo, Typed, ControlOK
    <3>2. \A b \in Name : \E k \in 1 .. Len(Benches) : k < i /\ b = Benches[k]
      BY <3>1, Listed
    <3>3. exclude' = exclude
      BY <3>1 DEF exclude
    <3>4. LoadedSoFar' = LoadedSoFar
      BY <3>1, <3>2, <3>3 DEF LoadedSoFar
    <3> QED
      BY <1>0, <3>1, <3>4, LoadsKept
  <2> QED
    BY <1>2, <1>5, <2>1 DEF Loaded
<1>6. CASE PlotOverall
  BY <1>1, <1>2, <1>6 DEF PlotOverall, GoesTo
<1>7. CASE PlotByClass
  BY <1>1, <1>2, <1>7 DEF PlotByClass, DrawGrid, GoesTo
<1>8. CASE PlotByBench
  BY <1>1, <1>2, <1>3, <1>8 DEF PlotByBench, DrawGrid, GoesTo
<1>9. CASE PlotEach
  BY <1>1, <1>2, <1>9 DEF PlotEach, DrawGrid, Skip
<1>10. CASE ChartsWritten
  BY <1>3, <1>10 DEF ChartsWritten
<1> QED
  BY <1>4, <1>5, <1>6, <1>7, <1>8, <1>9, <1>10 DEF AnalyzeNext

(* The two analyses of run_analysis.sh: the first takes every benchmark,   *)
(* and what it loaded is what there still is when the second draws.        *)
Present == {b \in Name : results[b].present}

Firsts ==
  /\ script = "none" => first = <<>> /\ options = All /\ status = "none"
  /\ status = "done" => at = "ended"
  /\ Drawing \/ status = "done" => per_bench # <<>>
  /\ script = "run_analysis" /\ first = <<>> => options = All
  /\ first # <<>> =>
       /\ script = "run_analysis" /\ options = Target /\ (Analyzing \/ at = "ended")
       /\ first = [b \in Present |-> TableFor(b)]

(* No file changes under an analysis.                                      *)
LEMMA Untouched ==
  ASSUME Typed, NoEmulatorLeftBehind, [CampaignNext]_vars,
         script # "none", Analyzing \/ at = "ended"
  PROVE  UNCHANGED results
<1>1. at \in {"load", "overall", "by_class", "by_bench", "each", "ended"}
  BY DEF Analyzing
<1>2. \A b \in Name : emulator[b] = "none"
  BY <1>1 DEF NoEmulatorLeftBehind
<1>3. CASE Edit \/ Begin
  BY <1>1, <1>3 DEF Edit, EditBenchmark, EditPlugin, MakeClean, Begin, StartRunAnalysis, StartMake,
                    StartBuildAll, StartRunAll, StartAnalyze, Begins, Idle
<1>4. CASE Build
  BY <1>1, <1>4 DEF Build, Clone, Cloned, MakePlugin, MakeBenchmarks, BuildOne, BuildSummary
<1>5. CASE Run
  BY <1>1, <1>5 DEF Run, RunSkips, RunStarts, RunTerminates, RunKills, RunDone
<1>6. CASE Report \/ Interrupt
  BY <1>1, <1>6 DEF Report, AnalyzeStep, AnalysisOver, Interrupt, run
<1>7. CASE \E b \in Name : Emulator(b)
  BY <1>2, <1>7, EmulatorMoves
<1>8. CASE UNCHANGED vars
  BY <1>1, <1>8 DEF vars, run
<1> QED
  BY <1>3, <1>4, <1>5, <1>6, <1>7, <1>8, Kinds

LEMMA LoadsStep ==
  ASSUME Typed, NoEmulatorLeftBehind, Firsts, Loads, [CampaignNext]_vars
  PROVE  Loads'
<1>1. ASSUME UNCHANGED <<at, i, tables>> PROVE Loads'
  <2>1. HasTables' = HasTables
    BY <1>1 DEF tables, HasTables, Analyzing
  <2>2. CASE ~HasTables
    BY <2>1, <2>2 DEF Loads
  <2>3. CASE HasTables
    <3>1. script # "none" /\ (Analyzing \/ at = "ended")
      BY <2>3 DEF HasTables, Firsts, Analyzing, Typed, Placed
    <3> QED
      BY <1>1, <2>3, <3>1, Untouched, SameLoaded, LoadsKept DEF tables
  <2> QED
    BY <2>2, <2>3
<1>2. ASSUME ~HasTables' PROVE Loads'
  BY <1>2 DEF Loads
<1>3. ASSUME NEW opts, AnalysisBegins(opts) PROVE Loads'
  BY <1>3, LoadsBegin
<1>4. ASSUME ScriptEnds PROVE Loads'
  BY <1>2, <1>4 DEF ScriptEnds, HasTables, Analyzing
<1>5. ASSUME at # "ended", UNCHANGED status,
             at' \in {"clone", "plugin", "benchmarks", "build", "run", "sleep", "grace"}
      PROVE  Loads'
  BY <1>2, <1>5 DEF Firsts, HasTables, Analyzing
<1>6. CASE Edit
  BY <1>1, <1>6 DEF Edit, EditBenchmark, EditPlugin, MakeClean
<1>7. CASE Begin
  <2>1. CASE StartAnalyze
    BY <1>3, <2>1 DEF StartAnalyze
  <2>2. CASE StartRunAnalysis \/ StartMake \/ StartBuildAll \/ StartRunAll
    <3>1. status' = "none" /\ at' \in {"clone", "plugin", "build", "run"}
      BY <2>2 DEF StartRunAnalysis, StartMake, StartBuildAll, StartRunAll, Begins, Idle, BuildBegins,
                  RunBegins, tables, Firsts
    <3> QED
      BY <1>2, <3>1 DEF HasTables, Analyzing
  <2> QED
    BY <1>7, <2>1, <2>2 DEF Begin
<1>8. CASE Build
  <2>1. ScriptEnds \/ /\ at # "ended" /\ UNCHANGED status
                      /\ at' \in {"clone", "plugin", "benchmarks", "build", "run"}
    BY <1>8 DEF Build, Clone, Cloned, MakePlugin, MakeBenchmarks, BuildOne, BuildSummary, AfterBuild,
                BuildBegins, RunBegins, NextOne, GoTo, tables
  <2> QED
    BY <1>4, <1>5, <2>1
<1>9. CASE Run
  <2>1. \/ ScriptEnds \/ AnalysisBegins(All)
        \/ at # "ended" /\ UNCHANGED status /\ at' \in {"run", "sleep", "grace"}
    BY <1>9 DEF Run, RunSkips, RunStarts, RunTerminates, RunKills, RunDone, NextOne, tables
  <2> QED
    BY <1>3, <1>4, <1>5, <2>1
<1>10. CASE AnalyzeStep
  BY <1>10, LoadsAnalysis DEF AnalyzeStep, run
<1>11. CASE AnalysisOver
  BY <1>3, <1>4, <1>11 DEF AnalysisOver
<1>12. CASE Interrupt
  BY <1>4, <1>12 DEF Interrupt
<1>13. CASE \E b \in Name : Emulator(b)
  BY <1>1, <1>13, EmulatorFrame
<1>14. CASE UNCHANGED vars
  BY <1>1, <1>14 DEF vars
<1> QED
  BY <1>6, <1>7, <1>8, <1>9, <1>10, <1>11, <1>12, <1>13, <1>14, Kinds DEF Report

(* Nothing is drawn of no tables.                                          *)
LEMMA AnalysisOfSome ==
  ASSUME AnalyzeNext, Drawing => per_bench # <<>>
  PROVE  /\ status' = "done" => status = "done" \/ at' = "ended"
         /\ Drawing' \/ (status' = "done" /\ status # "done") => per_bench' # <<>>
<1>1. CASE LoadFile
  BY <1>1 DEF LoadFile, Read, Skip, Ends, Drawing, Analyzing
<1>2. CASE Loaded
  BY <1>2 DEF Loaded, Ends, GoesTo, Drawing, Analyzing
<1>3. CASE PlotOverall
  BY <1>3 DEF PlotOverall, Ends, GoesTo, Drawing, Analyzing
<1>4. CASE PlotByClass
  BY <1>4 DEF PlotByClass, DrawGrid, Ends, GoesTo, Drawing, Analyzing
<1>5. CASE PlotByBench
  BY <1>5 DEF PlotByBench, DrawGrid, Ends, GoesTo, Drawing, Analyzing
<1>6. CASE PlotEach
  BY <1>6 DEF PlotEach, DrawGrid, Ends, Skip, Drawing, Analyzing
<1>7. CASE ChartsWritten
  BY <1>7 DEF ChartsWritten, Ends, Drawing, Analyzing
<1> QED
  BY <1>1, <1>2, <1>3, <1>4, <1>5, <1>6, <1>7 DEF AnalyzeNext

LEMMA FirstsStep ==
  ASSUME Typed, NoEmulatorLeftBehind, Firsts, Loads, [CampaignNext]_vars
  PROVE  Firsts'
<1>1. ASSUME UNCHANGED <<script, at, tables>> PROVE Firsts'
  <2>1. first # <<>> => Present' = Present /\ \A b : TableFor(b)' = TableFor(b)
    <3>1. first # <<>> => script # "none" /\ (Analyzing \/ at = "ended")
      BY DEF Firsts
    <3> QED
      BY <3>1, Untouched DEF Present, TableFor
  <2> QED
    BY <1>1, <2>1 DEF tables, Firsts, Drawing, Analyzing
<1>2. ASSUME ScriptEnds PROVE Firsts'
  BY <1>2 DEF ScriptEnds, Firsts, Drawing, Analyzing
<1>3. ASSUME at # "ended", ~Analyzing, UNCHANGED <<script, tables>>,
             at' \in {"clone", "plugin", "benchmarks", "build", "run", "sleep", "grace"}
      PROVE  Firsts'
  BY <1>3 DEF Typed, Placed, tables, Firsts, Drawing, Analyzing
<1>4. CASE Edit
  BY <1>1, <1>4 DEF Edit, EditBenchmark, EditPlugin, MakeClean
<1>5. CASE Begin
  <2>1. script = "none" /\ script' # "none" /\ UNCHANGED first
    BY <1>5 DEF Begin, StartRunAnalysis, StartMake, StartBuildAll, StartRunAll, StartAnalyze, Begins,
                Idle, tables
  <2>2. first = <<>> /\ options = All /\ status = "none"
    BY <2>1 DEF Firsts
  <2>3. CASE StartAnalyze
    <3>1. script' = "analyze" /\ at' = "load" /\ status' = "running"
      BY <2>3 DEF StartAnalyze, Begins, AnalysisBegins
    <3> QED
      BY <2>1, <2>2, <3>1 DEF Firsts, Drawing, Analyzing
  <2>4. CASE StartRunAnalysis \/ StartMake \/ StartBuildAll \/ StartRunAll
    <3>1. at' \in {"clone", "plugin", "build", "run"} /\ UNCHANGED <<options, status>>
      BY <2>4 DEF StartRunAnalysis, StartMake, StartBuildAll, StartRunAll, BuildBegins, RunBegins, tables
    <3> QED
      BY <2>1, <2>2, <3>1 DEF Firsts, Drawing, Analyzing
  <2> QED
    BY <1>5, <2>3, <2>4 DEF Begin
<1>6. CASE Build
  <2>1. ScriptEnds \/ /\ at \in {"clone", "plugin", "benchmarks", "build"} /\ UNCHANGED <<script, tables>>
                      /\ at' \in {"clone", "plugin", "benchmarks", "build", "run"}
    BY <1>6 DEF Build, Clone, Cloned, MakePlugin, MakeBenchmarks, BuildOne, BuildSummary, AfterBuild,
                BuildBegins, RunBegins, NextOne, GoTo
  <2> QED
    BY <1>2, <1>3, <2>1 DEF Analyzing
<1>7. CASE RunDone
  <2>1. CASE ScriptEnds
    BY <1>2, <2>1
  <2>2. CASE AnalysisBegins(All) /\ UNCHANGED <<script, first>>
    <3>1. first = <<>> /\ script # "none" /\ options' = All /\ at' = "load" /\ status' = "running"
      BY <1>7, <2>2 DEF RunDone, AnalysisBegins, Firsts, Analyzing, Typed, Placed
    <3> QED
      BY <2>2, <3>1 DEF Firsts, Drawing, Analyzing
  <2> QED
    BY <1>7, <2>1, <2>2 DEF RunDone
<1>8. CASE RunSkips \/ RunStarts \/ RunTerminates \/ RunKills
  <2>1. /\ at \in {"run", "sleep", "grace"} /\ UNCHANGED <<script, tables>>
        /\ at' \in {"run", "sleep", "grace"}
    BY <1>8 DEF RunSkips, RunStarts, RunTerminates, RunKills, NextOne
  <2> QED
    BY <1>3, <2>1 DEF Analyzing
<1>9. CASE AnalyzeStep
  <2>1. AnalyzeNext /\ UNCHANGED <<script, first, results>>
    BY <1>9 DEF AnalyzeStep, run
  <2>2. /\ Analyzing /\ UNCHANGED options
        /\ at' \in {"load", "overall", "by_class", "by_bench", "each", "ended"}
    BY <2>1, AnalysisMoves DEF Typed
  <2>3. status # "done" /\ script # "none"
    BY <2>2 DEF Firsts, Analyzing, Typed, Placed
  <2>4. status' = "done" => at' = "ended"
    BY <2>1, <2>3, AnalysisOfSome DEF Firsts
  <2>5. Drawing' \/ status' = "done" => per_bench' # <<>>
    BY <2>1, <2>3, AnalysisOfSome DEF Firsts
  <2>6. Present' = Present /\ \A b : TableFor(b)' = TableFor(b)
    BY <2>1 DEF Present, TableFor
  <2>7. Analyzing' \/ at' = "ended"
    BY <2>2 DEF Analyzing
  <2> QED
    BY <2>1, <2>2, <2>3, <2>4, <2>5, <2>6, <2>7 DEF Firsts
<1>10. CASE AnalysisOver
  <2>1. CASE ScriptEnds
    BY <1>2, <2>1
  <2>2. CASE /\ script = "run_analysis" /\ status = "done" /\ first = <<>>
             /\ first' = per_bench /\ AnalysisBegins(Target) /\ UNCHANGED script
    <3>1. options = All /\ per_bench # <<>> /\ at = "ended"
      BY <2>2 DEF Firsts
    <3>2. exclude = {}
      BY <3>1 DEF exclude, All
    <3>3. LoadedSoFar = Present
      BY <3>1, <3>2 DEF LoadedSoFar, Present
    <3>4. per_bench = [b \in Present |-> TableFor(b)]
      BY <2>2, <3>3 DEF Loads, HasTables
    <3>5. UNCHANGED results
      BY <1>10 DEF AnalysisOver, run
    <3>6. Present' = Present /\ \A b : TableFor(b)' = TableFor(b)
      BY <3>5 DEF Present, TableFor
    <3>7. options' = Target /\ at' = "load" /\ status' = "running"
      BY <2>2 DEF AnalysisBegins
    <3> QED
      BY <2>2, <3>1, <3>4, <3>6, <3>7 DEF Firsts, Drawing, Analyzing
  <2> QED
    BY <1>10, <2>1, <2>2 DEF AnalysisOver
<1>11. CASE Interrupt
  BY <1>2, <1>11 DEF Interrupt
<1>12. CASE \E b \in Name : Emulator(b)
  BY <1>1, <1>12, EmulatorFrame
<1>13. CASE UNCHANGED vars
  BY <1>1, <1>13 DEF vars
<1> QED
  BY <1>4, <1>5, <1>6, <1>7, <1>8, <1>9, <1>10, <1>11, <1>12, <1>13, Kinds DEF Run, Report

LEMMA AlwaysLoads == CampaignSpec => [](Typed /\ Firsts /\ Loads)
<1>1. CampaignInit => Firsts /\ Loads
  BY DEF CampaignInit, Firsts, Loads, HasTables, Drawing, Analyzing
<1> QED
  BY <1>1, LoadsStep, FirstsStep, AlwaysAlone, PTL DEF CampaignSpec

(* The charts of the target domain are of the first analysis' tables, less *)
(* the excluded benchmarks: no measurement changes between the two.        *)
THEOREM SameMeasurements == CampaignSpec => []TargetWithinAll
<1>1. Firsts /\ Loads => TargetWithinAll
  <2> SUFFICES ASSUME Firsts, Loads, first # <<>>, Drawing
               PROVE  per_bench = Restrict(first, DOMAIN first \ CRYPTO_EXCLUDE)
    BY DEF TargetWithinAll
  <2>1. options = Target /\ first = [b \in Present |-> TableFor(b)] /\ at # "load"
    BY DEF Firsts, Drawing
  <2>2. exclude = CRYPTO_EXCLUDE
    BY <2>1 DEF exclude, Target
  <2>3. LoadedSoFar = Present \ CRYPTO_EXCLUDE
    BY <2>1, <2>2 DEF LoadedSoFar, Present
  <2>4. per_bench = [b \in Present \ CRYPTO_EXCLUDE |-> TableFor(b)]
    BY <2>3 DEF Loads, HasTables, Drawing
  <2> QED
    BY <2>1, <2>4 DEF Restrict
<1> QED
  BY <1>1, AlwaysLoads, PTL

(* What is drawn is the sum over the files that there are, less the        *)
(* excluded ones: none is left out or counted twice (load_results, 64-71). *)
THEOREM ChartsOfTheSum == CampaignSpec => []CombinedIsSum
<1>1. Loads => CombinedIsSum
  <2> SUFFICES ASSUME Loads, Drawing
               PROVE  /\ DOMAIN per_bench = {b \in Name \ exclude : results[b].present}
                      /\ \A c \in Classes, w \in Width :
                           combined[c][w] = SumFunction([b \in DOMAIN per_bench |-> per_bench[b][c][w]])
    BY DEF CombinedIsSum
  <2>1. per_bench = [b \in LoadedSoFar |-> TableFor(b)] /\ SummedUp /\ at # "load"
    BY DEF Loads, HasTables, Drawing
  <2>2. LoadedSoFar = {b \in Name \ exclude : results[b].present}
    BY <2>1 DEF LoadedSoFar
  <2> QED
    BY <2>1, <2>2 DEF SummedUp, Column
<1> QED
  BY <1>1, AlwaysLoads, PTL

-----------------------------------------------------------------------------
(* The percentiles.                                                        *)

(* The samples of at most w bits.                                          *)
UpTo(bw_counts, w) == SumFunctionOnSet(bw_counts, 0 .. w)

LEMMA UpToStep ==
  ASSUME NEW f \in [Width -> Nat], NEW w \in Width
  PROVE  /\ UpTo(f, w) \in Nat
         /\ UpTo(f, w) = f[w] + IF w = 0 THEN 0 ELSE UpTo(f, w - 1)
         /\ w > 0 => w - 1 \in Width
<1>1. MAX_BITS \in Nat /\ Width = 0 .. MAX_BITS /\ w \in Nat /\ w <= MAX_BITS
  BY AnalyzeAssumption DEF Width
<1>2. /\ 0 .. w = (0 .. w - 1) \cup {w} /\ w \notin 0 .. w - 1
      /\ \A x \in 0 .. w : x \in Width
      /\ \A x \in 0 .. w - 1 : x \in Width
  BY <1>1
<1>3. IsFiniteSet(0 .. w) /\ IsFiniteSet(0 .. w - 1)
  <2>1. w \in Int /\ w - 1 \in Int
    BY <1>1
  <2> QED
    BY <2>1, FS_Interval
<1>4. NatOn(f, 0 .. w) /\ NatOn(f, 0 .. w - 1) /\ f[w] \in Nat
  BY <1>2 DEF NatOn
<1>5. UpTo(f, w) \in Nat
  BY <1>3, <1>4, SumNat DEF UpTo
<1>6. SumFunctionOnSet(f, (0 .. w - 1) \cup {w}) = f[w] + SumFunctionOnSet(f, 0 .. w - 1)
  BY <1>2, <1>3, <1>4, SumAdd
<1>7. w = 0 => SumFunctionOnSet(f, 0 .. w - 1) = 0
  <2>1. w = 0 => 0 .. w - 1 = {}
    BY <1>1
  <2> QED
    BY <2>1, SumEmpty
<1>8. UpTo(f, w) = f[w] + SumFunctionOnSet(f, 0 .. w - 1)
  BY <1>2, <1>6 DEF UpTo
<1>9. w > 0 => w - 1 \in Width
  BY <1>1
<1> QED
  BY <1>5, <1>7, <1>8, <1>9 DEF UpTo

(* The running sum of the loop is the sum of the counts so far: both       *)
(* satisfy the recursion of acc, which has one solution.                   *)
SumStepOf(f, g, w) == f[w] + IF w = 0 THEN 0 ELSE g[w - 1]

LEMMA RunningSums ==
  ASSUME NEW f \in [Width -> Nat]
  PROVE  \A w \in Width : RunningSum(f)[w] = UpTo(f, w)
<1> DEFINE acc == CHOOSE g : g = [w \in Width |-> SumStepOf(f, g, w)]
<1>1. acc = [w \in Width |-> SumStepOf(f, acc, w)]
  <2> DEFINE h == [w \in Width |-> UpTo(f, w)]
  <2>1. \A w \in Width : UpTo(f, w) = SumStepOf(f, h, w)
    <3> SUFFICES ASSUME NEW w \in Width PROVE UpTo(f, w) = SumStepOf(f, h, w)
      OBVIOUS
    <3>1. w \in Nat
      BY AnalyzeAssumption DEF Width
    <3>2. w # 0 => h[w - 1] = UpTo(f, w - 1)
      BY <3>1, UpToStep
    <3> QED
      BY <3>2, UpToStep DEF SumStepOf
  <2>2. h = [w \in Width |-> SumStepOf(f, h, w)]
    BY <2>1
  <2> HIDE DEF h
  <2> QED
    BY <2>2
<1>2. RunningSum(f) = acc
  BY DEF RunningSum, SumStepOf
<1> HIDE DEF acc
<1> DEFINE T == {n \in Nat : n \in Width => acc[n] = UpTo(f, n)}
<1>3. MAX_BITS \in Nat /\ Width = 0 .. MAX_BITS
  BY AnalyzeAssumption DEF Width
<1>4. 0 \in T
  BY <1>1, UpToStep DEF SumStepOf
<1>5. \A n \in Nat : n \in T => n + 1 \in T
  <2> SUFFICES ASSUME NEW n \in Nat, n \in T, n + 1 \in Width
               PROVE  acc[n + 1] = UpTo(f, n + 1)
    OBVIOUS
  <2>1. n \in Width /\ n + 1 # 0 /\ (n + 1) - 1 = n
    BY <1>3
  <2>2. acc[n + 1] = f[n + 1] + acc[n]
    BY <1>1, <2>1 DEF SumStepOf
  <2>3. UpTo(f, n + 1) = f[n + 1] + UpTo(f, n)
    BY <2>1, UpToStep
  <2> QED
    BY <2>1, <2>2, <2>3
<1>6. Nat \subseteq T
  <2> HIDE DEF T
  <2> QED
    BY <1>4, <1>5, SetInduction
<1> QED
  BY <1>2, <1>3, <1>6

(* The search of the loop: from any width on it returns the first one that *)
(* is in R, and MAX_BITS when there is none.                               *)
FirstIn(R, g, w) == IF w \in R THEN w ELSE IF w < MAX_BITS THEN g[w + 1] ELSE MAX_BITS

LEMMA FirstFound ==
  ASSUME NEW R \in SUBSET Width, MAX_BITS \in R, NEW from,
         from = CHOOSE g : g = [w \in Width |-> FirstIn(R, g, w)]
  PROVE  from[0] \in R /\ \A n \in R : from[0] <= n
<1>1. MAX_BITS \in Nat /\ Width = 0 .. MAX_BITS /\ \A x \in Width : x \in Nat
  BY AnalyzeAssumption DEF Width
<1> DEFINE After(w) == {n \in R : w <= n}
           Least(w, m) == m \in After(w) /\ \A n \in After(w) : m <= n
           h == [w \in Width |-> CHOOSE m : Least(w, m)]
<1>2. \A w \in Width : Least(w, h[w])
  <2> SUFFICES ASSUME NEW w \in Width PROVE Least(w, h[w])
    OBVIOUS
  <2>1. After(w) \in SUBSET Nat /\ After(w) # {}
    <3>1. w <= MAX_BITS
      BY <1>1
    <3>2. MAX_BITS \in After(w)
      BY <3>1
    <3>3. After(w) \in SUBSET Nat
      BY <1>1
    <3> QED
      BY <3>2, <3>3
  <2>2. \E m \in After(w) : \A n \in After(w) : m <= n
    <3> HIDE DEF After
    <3> QED
      BY <2>1, LeastElement
  <2>3. \E m : Least(w, m)
    BY <2>2
  <2>4. h[w] = CHOOSE m : Least(w, m)
    OBVIOUS
  <2> HIDE DEF h, Least
  <2> QED
    BY <2>3, <2>4
<1>3. \A w \in Width : h[w] = FirstIn(R, h, w)
  <2> SUFFICES ASSUME NEW w \in Width PROVE h[w] = FirstIn(R, h, w)
    OBVIOUS
  <2>0. Least(w, h[w])
    BY <1>2
  <2>1. CASE w \in R
    <3> HIDE DEF h
    <3>1. h[w] <= w /\ w <= h[w] /\ h[w] \in Nat /\ w \in Nat
      <4>1. w \in After(w)
        BY <1>1, <2>1
      <4> QED
        BY <1>1, <2>0, <4>1
    <3>2. h[w] = w
      BY <3>1
    <3> QED
      BY <2>1, <3>2 DEF FirstIn
  <2>2. CASE w \notin R
    <3>1. w < MAX_BITS /\ w + 1 \in Width
      BY <1>1, <2>2
    <3>2. Least(w + 1, h[w + 1])
      BY <1>2, <3>1
    <3> HIDE DEF h
    <3>3. \A n \in R : w <= n <=> w + 1 <= n
      BY <1>1, <2>2
    <3>4. h[w] <= h[w + 1] /\ h[w + 1] <= h[w] /\ h[w] \in Nat /\ h[w + 1] \in Nat
      BY <1>1, <2>0, <3>2, <3>3
    <3>5. h[w] = h[w + 1]
      BY <3>4
    <3> QED
      BY <2>2, <3>1, <3>5 DEF FirstIn
  <2> QED
    BY <2>1, <2>2
<1>4. from = [w \in Width |-> FirstIn(R, from, w)]
  <2>1. h = [w \in Width |-> FirstIn(R, h, w)]
    BY <1>3
  <2> HIDE DEF h
  <2> QED
    BY <2>1
<1> DEFINE T == {k \in Nat : MAX_BITS - k \in Width => Least(MAX_BITS - k, from[MAX_BITS - k])}
<1>5. 0 \in T
  <2>1. MAX_BITS - 0 = MAX_BITS /\ MAX_BITS \in Width
    BY <1>1
  <2>2. from[MAX_BITS] = MAX_BITS
    BY <1>4, <2>1 DEF FirstIn
  <2>3. Least(MAX_BITS, MAX_BITS)
    BY <1>1
  <2> HIDE DEF Least
  <2> QED
    BY <2>1, <2>2, <2>3
<1>6. \A k \in Nat : k \in T => k + 1 \in T
  <2> SUFFICES ASSUME NEW k \in Nat, k \in T, MAX_BITS - (k + 1) \in Width
               PROVE  Least(MAX_BITS - (k + 1), from[MAX_BITS - (k + 1)])
    OBVIOUS
  <2> DEFINE w == MAX_BITS - (k + 1)
  <2>1. w \in Nat /\ w + 1 = MAX_BITS - k /\ w + 1 \in Width /\ w < MAX_BITS /\ w \in Width
    BY <1>1
  <2>2. Least(w + 1, from[w + 1])
    <3>1. Least(MAX_BITS - k, from[MAX_BITS - k])
      BY <2>1
    <3> HIDE DEF Least, w
    <3> QED
      BY <2>1, <3>1
  <2>3. from[w] = FirstIn(R, from, w)
    BY <1>4, <2>1
  <2> HIDE DEF w, T
  <2>4. CASE w \in R
    <3>1. from[w] = w
      BY <2>3, <2>4 DEF FirstIn
    <3>2. Least(w, w)
      BY <1>1, <2>1, <2>4
    <3> QED
      BY <3>1, <3>2 DEF w
  <2>5. CASE w \notin R
    <3>1. from[w] = from[w + 1]
      BY <2>1, <2>3, <2>5 DEF FirstIn
    <3>2. \A n \in R : w <= n <=> w + 1 <= n
      BY <1>1, <2>1, <2>5
    <3>3. Least(w, from[w + 1])
      BY <2>2, <3>2
    <3> QED
      BY <3>1, <3>3 DEF w
  <2> QED
    BY <2>4, <2>5
<1>7. Nat \subseteq T
  <2> HIDE DEF T
  <2> QED
    BY <1>5, <1>6, SetInduction
<1>8. Least(0, from[0])
  <2>1. MAX_BITS \in T /\ MAX_BITS - MAX_BITS = 0 /\ 0 \in Width
    BY <1>1, <1>7
  <2>2. Least(MAX_BITS - MAX_BITS, from[MAX_BITS - MAX_BITS])
    BY <2>1
  <2> HIDE DEF Least
  <2> QED
    BY <2>1, <2>2
<1>9. \A n \in R : 0 <= n
  BY <1>1
<1> QED
  BY <1>8, <1>9

LEMMA Percentile ==
  ASSUME NEW f \in [Width -> Nat], NEW pct \in 0 .. 100, Total(f) # 0
  PROVE  LET W == percentile_bits(f, pct) IN
           /\ W \in Width
           /\ 100 * UpTo(f, W) >= pct * Total(f)
           /\ W > 0 => W - 1 \in Width /\ 100 * UpTo(f, W - 1) < pct * Total(f)
<1> DEFINE reached == {w \in Width : UpTo(f, w) * 100 >= Total(f) * pct}
           W == percentile_bits(f, pct)
<1>1. MAX_BITS \in Nat /\ Width = 0 .. MAX_BITS /\ IsFiniteSet(Width)
  BY AnalyzeAssumption, FS_Interval DEF Width
<1>2. Total(f) \in Nat /\ UpTo(f, MAX_BITS) = Total(f)
  BY <1>1, SumFunctionNat DEF Total, UpTo, SumFunction
<1>3. \A w \in Width : UpTo(f, w) \in Nat
  BY UpToStep
<1>4. \A t \in Nat : t * 100 >= t * pct
  OBVIOUS
<1>5. MAX_BITS \in reached
  BY <1>1, <1>2, <1>4
<1>7. reached \in SUBSET Nat /\ reached \in SUBSET Width
  BY <1>1
<1>6. PICK from : /\ from = CHOOSE g : g = [w \in Width |-> FirstIn(reached, g, w)]
                  /\ W = from[0]
  <2> DEFINE acc == RunningSum(f)
             Step(g, w) == IF acc[w] * 100 >= Total(f) * pct THEN w
                           ELSE IF w < MAX_BITS THEN g[w + 1] ELSE MAX_BITS
             loop == CHOOSE g : g = [w \in Width |-> Step(g, w)]
  <2>1. W = loop[0]
    BY DEF percentile_bits
  <2>2. \A w \in Width : acc[w] = UpTo(f, w)
    BY RunningSums
  <2> HIDE DEF acc
  <2>3. \A g : \A w \in Width : Step(g, w) = FirstIn(reached, g, w)
    BY <2>2 DEF FirstIn
  <2>4. \A g : [w \in Width |-> Step(g, w)] = [w \in Width |-> FirstIn(reached, g, w)]
    BY <2>3
  <2> HIDE DEF Step, reached
  <2>5. loop = CHOOSE g : g = [w \in Width |-> FirstIn(reached, g, w)]
    BY <2>4
  <2> HIDE DEF loop, W
  <2> QED
    BY <2>1, <2>5
<1> HIDE DEF W, reached
<1>9. W \in reached /\ \A n \in reached : W <= n
  BY <1>5, <1>6, <1>7, FirstFound
<1>10. W \in Width /\ UpTo(f, W) * 100 >= Total(f) * pct
  BY <1>9 DEF reached
<1>11. ASSUME W > 0
       PROVE  W - 1 \in Width /\ UpTo(f, W - 1) * 100 < Total(f) * pct
  <2>1. W - 1 \in Width /\ W - 1 \notin reached
    BY <1>1, <1>7, <1>9, <1>10, <1>11
  <2>2. UpTo(f, W - 1) \in Nat
    BY <1>3, <2>1
  <2> DEFINE a == UpTo(f, W - 1) * 100
             b == Total(f) * pct
  <2>3. a \in Int /\ b \in Int
    BY <1>2, <2>2
  <2>4. ~(a >= b)
    BY <2>1 DEF reached
  <2> HIDE DEF a, b
  <2>5. a < b
    BY <2>3, <2>4
  <2> QED
    BY <2>1, <2>5 DEF a, b
<1>12. \A x, y \in Nat : x * y = y * x
  OBVIOUS
<1>13. Total(f) * pct = pct * Total(f)
  BY <1>2, <1>12
<1>14. \A w \in Width : UpTo(f, w) * 100 = 100 * UpTo(f, w)
  BY <1>3
<1> QED
  BY <1>10, <1>11, <1>13, <1>14 DEF W

(* Widths without a sample add nothing to a share.                         *)
LEMMA ShareUpTo ==
  ASSUME NEW f \in [Width -> Nat], NEW w \in Width
  PROVE  SumFunctionOnSet(f, {b \in {x \in Width : f[x] > 0} : b <= w}) = UpTo(f, w)
<1> DEFINE Z == {b \in 0 .. w : f[b] = 0}
<1>1. Width = 0 .. MAX_BITS /\ w \in Nat /\ MAX_BITS \in Nat /\ w <= MAX_BITS
  BY AnalyzeAssumption DEF Width
<1>2. IsFiniteSet(0 .. w) /\ NatOn(f, 0 .. w)
  <2>1. w \in Int /\ \A x \in 0 .. w : x \in Width
    BY <1>1
  <2>2. IsFiniteSet(0 .. w)
    BY <2>1, FS_Interval
  <2> QED
    BY <2>1, <2>2 DEF NatOn
<1>3. SumFunctionOnSet(f, (0 .. w) \ Z) = SumFunctionOnSet(f, 0 .. w)
  BY <1>2, SumNonzero
<1>4. {b \in {x \in Width : f[x] > 0} : b <= w} = (0 .. w) \ Z
  BY <1>1
<1> QED
  BY <1>3, <1>4 DEF UpTo

(* The percentiles of the summary are the smallest widths that the share   *)
(* of the samples fits in, for every set of measurements.                  *)
THEOREM Percentiles == CampaignSpec => []PercentilesAsDocumented
<1>1. Loads => PercentilesAsDocumented
  <2> SUFFICES ASSUME Loads, Drawing
               PROVE  \A c \in Classes, pct \in {50, 90, 99} :
                        LET W == percentile_bits(combined[c], pct)
                            samples == {b \in Width : combined[c][b] > 0}
                            Share(w) == 100 * SumFunctionOnSet(combined[c], {b \in samples : b <= w})
                        IN samples # {} =>
                             /\ Share(W) >= pct * Total(combined[c])
                             /\ W > 0 => Share(W - 1) < pct * Total(combined[c])
    BY Zenon DEF PercentilesAsDocumented
  <2> TAKE c \in Classes, pct \in {50, 90, 99}
  <2> DEFINE f == combined[c]
             W == percentile_bits(f, pct)
             below(w) == {b \in {x \in Width : f[x] > 0} : b <= w}
  <2>1. f \in [Width -> Nat]
    BY DEF Loads, HasTables, Drawing, SummedUp, Table
  <2>2. pct \in 0 .. 100
    OBVIOUS
  <2>3. SUFFICES ASSUME {b \in Width : f[b] > 0} # {}
                 PROVE  /\ 100 * SumFunctionOnSet(f, below(W)) >= pct * Total(f)
                        /\ W > 0 => 100 * SumFunctionOnSet(f, below(W - 1)) < pct * Total(f)
    OBVIOUS
  <2> HIDE DEF f
  <2>4. IsFiniteSet(Width) /\ \E x \in Width : f[x] > 0
    <3>1. IsFiniteSet(Width)
      BY AnalyzeAssumption, FS_Interval DEF Width
    <3> QED
      BY <2>3, <3>1
  <2>5. Total(f) # 0
    BY <2>1, <2>4, SumPositive DEF Total
  <2>6. /\ W \in Width
        /\ 100 * UpTo(f, W) >= pct * Total(f)
        /\ W > 0 => W - 1 \in Width /\ 100 * UpTo(f, W - 1) < pct * Total(f)
    BY <2>1, <2>2, <2>5, Percentile
  <2> HIDE DEF W
  <2>7. SumFunctionOnSet(f, below(W)) = UpTo(f, W)
    BY <2>1, <2>6, ShareUpTo
  <2>8. W > 0 => SumFunctionOnSet(f, below(W - 1)) = UpTo(f, W - 1)
    BY <2>1, <2>6, ShareUpTo
  <2> QED
    BY <2>6, <2>7, <2>8
<1> QED
  BY <1>1, AlwaysLoads, PTL

-----------------------------------------------------------------------------
(* Why an analysis fails.                                                  *)

LEMMA Sizes ==
  /\ IsFiniteSet(Classes) /\ IsFiniteSet(Width) /\ IsFiniteSet(Name)
BY AnalyzeAssumption, FS_Interval, NameFinite DEF Width

SomeIn(t, c) == \E w \in Width : t[c][w] > 0

LEMMA TotalOfClass ==
  ASSUME NEW t \in Table, NEW c \in Classes
  PROVE  Total(t[c]) > 0 <=> SomeIn(t, c)
<1>1. t[c] \in [Width -> Nat]
  BY DEF Table
<1> QED
  BY <1>1, Sizes, SumPositive DEF Total, SomeIn

LEMMA TotalOfAll ==
  ASSUME NEW t \in Table
  PROVE  Total(AllClasses(t)) > 0 <=> \E c \in Classes : SomeIn(t, c)
<1>1. \A w \in Width : [c \in Classes |-> t[c][w]] \in [Classes -> Nat]
  BY DEF Table
<1>2. \A w \in Width : /\ AllClasses(t)[w] \in Nat
                       /\ AllClasses(t)[w] > 0 <=> \E c \in Classes : t[c][w] > 0
  <2> SUFFICES ASSUME NEW w \in Width
               PROVE  /\ AllClasses(t)[w] \in Nat
                      /\ AllClasses(t)[w] > 0 <=> \E c \in Classes : t[c][w] > 0
    OBVIOUS
  <2> DEFINE f == [c \in Classes |-> t[c][w]]
  <2>1. AllClasses(t)[w] = SumFunction(f)
    BY DEF AllClasses
  <2>2. f \in [Classes -> Nat] /\ \A c \in Classes : f[c] = t[c][w]
    BY <1>1
  <2> HIDE DEF f
  <2> QED
    BY <2>1, <2>2, Sizes, SumPositive
<1>3. AllClasses(t) \in [Width -> Nat]
  <2> DEFINE f == AllClasses(t)
  <2>1. f = [w \in Width |-> f[w]]
    BY DEF AllClasses
  <2>2. \A w \in Width : f[w] \in Nat
    BY <1>2
  <2> HIDE DEF f
  <2>3. f \in [Width -> Nat]
    BY <2>1, <2>2
  <2> QED
    BY <2>3 DEF f
<1>4. Total(AllClasses(t)) > 0 <=> \E w \in Width : AllClasses(t)[w] > 0
  BY <1>3, Sizes, SumPositive DEF Total
<1>5. \A w \in Width : AllClasses(t)[w] > 0 <=> \E c \in Classes : t[c][w] > 0
  BY <1>2
<1> QED
  BY <1>4, <1>5, Zenon DEF SomeIn

(* What one benchmark has a sample of, the sum has.                        *)
LEMMA SumHasAll ==
  ASSUME RunOK, Loads, HasTables, NEW b \in DOMAIN per_bench
  PROVE  /\ b \in Name /\ per_bench[b] \in Table /\ combined \in Table
         /\ \A c \in Classes : SomeIn(per_bench[b], c) => SomeIn(combined, c)
<1>1. per_bench = [x \in LoadedSoFar |-> TableFor(x)] /\ SummedUp
  BY DEF Loads
<1>2. LoadedSoFar \subseteq Name /\ \A x \in LoadedSoFar : results[x].present
  BY DEF LoadedSoFar
<1>3. DOMAIN per_bench = LoadedSoFar /\ \A x \in LoadedSoFar : per_bench[x] \in Table
  BY <1>1, <1>2, TableForType
<1>4. ASSUME NEW c \in Classes, NEW w \in Width, per_bench[b][c][w] > 0
      PROVE  combined[c][w] > 0
  <2> DEFINE f == Column(per_bench, c, w)
  <2>1. f \in [LoadedSoFar -> Nat] /\ f[b] > 0
    BY <1>3, <1>4 DEF Column, Table
  <2>2. IsFiniteSet(LoadedSoFar)
    BY <1>2, Sizes, FS_Subset
  <2>3. combined[c][w] = SumFunction(f)
    BY <1>1 DEF SummedUp
  <2> HIDE DEF f
  <2>4. b \in LoadedSoFar
    BY <1>3
  <2> QED
    BY <2>1, <2>2, <2>3, <2>4, SumPositive
<1> QED
  BY <1>1, <1>2, <1>3, <1>4 DEF SummedUp, SomeIn

LEMMA TwoOfMore ==
  ASSUME NEW S, IsFiniteSet(S), NEW T \in SUBSET S, ~(Cardinality(T) < 2)
  PROVE  Cardinality(S) # 1 /\ T # {}
<1>1. Cardinality(T) <= Cardinality(S) /\ Cardinality(S) \in Nat /\ Cardinality(T) \in Nat
  BY FS_Subset, FS_CardinalityType
<1>2. Cardinality({}) = 0
  BY FS_EmptySet
<1> QED
  BY <1>1, <1>2

Excused ==
  \/ Cardinality(DOMAIN per_bench) < 2
  \/ \E b \in DOMAIN per_bench :
       Cardinality({c \in Classes : class_totals(per_bench[b])[c] > 0}) < 2
  \/ \E b \in Name : results[b].present /\ results[b].torn

LEMMA FailsExcused ==
  ASSUME Typed, Loads, Drawing \/ at = "load", AnalyzeNext, status # "failed", status' = "failed"
  PROVE  Excused /\ at' = "ended" /\ UNCHANGED per_bench
<1> DEFINE Two(b) == {c \in Classes : SomeIn(per_bench[b], c)}
<1>0. HasTables
  BY DEF HasTables, Drawing, Analyzing
<1>1. \A b \in DOMAIN per_bench : b \in Name /\ per_bench[b] \in Table /\ combined \in Table
  BY <1>0, SumHasAll DEF Typed
<1>2. \A b \in DOMAIN per_bench :
        {c \in Classes : class_totals(per_bench[b])[c] > 0} = Two(b)
  BY <1>1, TotalOfClass DEF class_totals
<1>3. at' = "ended" /\ UNCHANGED per_bench
  <2>1. CASE LoadFile
    BY <2>1 DEF LoadFile, Read, Skip, Ends
  <2>2. CASE Loaded \/ PlotOverall \/ ChartsWritten
    BY <2>2 DEF Loaded, PlotOverall, ChartsWritten, Ends, GoesTo
  <2>3. CASE PlotByClass \/ PlotByBench \/ PlotEach
    BY <2>3 DEF PlotByClass, PlotByBench, PlotEach, DrawGrid, Skip, Ends, GoesTo
  <2> QED
    BY <2>1, <2>2, <2>3 DEF AnalyzeNext
<1>4. SUFFICES ASSUME ~(Cardinality(DOMAIN per_bench) < 2),
                      \A b \in DOMAIN per_bench : ~(Cardinality(Two(b)) < 2),
                      \A b \in Name : ~(results[b].present /\ results[b].torn)
               PROVE  FALSE
  BY <1>2, <1>3 DEF Excused
<1>5. IsFiniteSet(DOMAIN per_bench)
  <2>1. DOMAIN per_bench \subseteq Name
    BY <1>1
  <2> QED
    BY <2>1, Sizes, FS_Subset
<1>6. DOMAIN per_bench # {} /\ Cardinality(DOMAIN per_bench) # 1
  BY <1>4, <1>5, TwoOfMore
<1>7. \A b \in DOMAIN per_bench : IsFiniteSet(Two(b)) /\ Two(b) \subseteq Classes
  BY Sizes, FS_Subset
<1>8. \A b \in DOMAIN per_bench : Two(b) # {} /\ Cardinality(Two(b)) # 1
  BY <1>4, <1>7, TwoOfMore
<1>9. PICK b \in DOMAIN per_bench : TRUE
  BY <1>6
<1>10. \A c \in Two(b) : SomeIn(combined, c)
  BY <1>0, <1>9, SumHasAll DEF Typed
<1>11. CASE LoadFile
  <2>1. Benches[i] \in Name
    BY <1>11, Listed DEF LoadFile, Typed, ControlOK
  <2>2. status' = status
    BY <1>4, <1>11, <2>1 DEF LoadFile, Read, Skip
  <2> QED
    BY <2>2
<1>12. CASE Loaded
  <2>1. per_bench # <<>>
    BY <1>6
  <2> QED
    BY <1>12, <2>1 DEF Loaded, GoesTo
<1>13. CASE PlotOverall
  <2>1. Total(AllClasses(combined)) > 0
    BY <1>1, <1>8, <1>9, <1>10, TotalOfAll
  <2> QED
    BY <1>13, <2>1 DEF PlotOverall, GoesTo
<1>14. CASE PlotByClass
  <2> DEFINE P == {c \in DOMAIN combined : Total(combined[c]) > 0}
  <2>1. DOMAIN combined = Classes
    BY <1>1, <1>9 DEF Table
  <2>2. P \subseteq Classes /\ Two(b) \subseteq P
    BY <1>1, <1>9, <1>10, <2>1, TotalOfClass
  <2>3. IsFiniteSet(P)
    BY <2>2, Sizes, FS_Subset
  <2>4. Cardinality(P) # 1
    BY <1>4, <1>9, <2>2, <2>3, TwoOfMore
  <2>5. Panels(combined) # 1
    BY <2>4 DEF Panels
  <2> QED
    BY <1>14, <2>5 DEF PlotByClass, DrawGrid, GoesTo
<1>15. CASE PlotByBench
  <2> DEFINE A == aggregate_by_benchmark
  <2>1. DOMAIN A = DOMAIN per_bench /\ \A x \in DOMAIN per_bench : A[x] = AllClasses(per_bench[x])
    BY DEF aggregate_by_benchmark
  <2>2. \A x \in DOMAIN per_bench : Total(AllClasses(per_bench[x])) > 0
    BY <1>1, <1>8, TotalOfAll
  <2>3. {x \in DOMAIN A : Total(A[x]) > 0} = DOMAIN per_bench
    BY <2>1, <2>2
  <2>4. Panels(A) # 1
    BY <1>6, <2>3 DEF Panels
  <2> HIDE DEF A
  <2>5. GoesTo("each") \/ Ends("done")
    BY <1>15, <2>4 DEF PlotByBench, DrawGrid, A
  <2> QED
    BY <2>5 DEF GoesTo, Ends
<1>16. CASE PlotEach
  <2>1. \A x \in DOMAIN per_bench : Panels(per_bench[x]) # 1
    <3> SUFFICES ASSUME NEW x \in DOMAIN per_bench
                 PROVE  Panels(per_bench[x]) # 1
      OBVIOUS
    <3>1. DOMAIN per_bench[x] = Classes
      BY <1>1 DEF Table
    <3>2. {c \in DOMAIN per_bench[x] : Total(per_bench[x][c]) > 0} = Two(x)
      BY <1>1, <3>1, TotalOfClass
    <3> QED
      BY <1>8, <3>2 DEF Panels
  <2>2. Skip
    BY <1>16, <2>1 DEF PlotEach, DrawGrid
  <2> QED
    BY <2>2 DEF Skip
<1>17. CASE ChartsWritten
  BY <1>17 DEF ChartsWritten, Ends
<1> QED
  BY <1>11, <1>12, <1>13, <1>14, <1>15, <1>16, <1>17 DEF AnalyzeNext

Failed == status = "failed" => at = "ended" /\ Excused

LEMMA FailedStep ==
  ASSUME Typed, NoEmulatorLeftBehind, Firsts, Loads, Failed, [CampaignNext]_vars
  PROVE  Failed'
<1>1. ASSUME UNCHANGED <<script, at, status, per_bench>> PROVE Failed'
  <2>1. CASE status = "failed"
    <3>1. script # "none" /\ at = "ended"
      BY <2>1 DEF Failed, Firsts
    <3>2. UNCHANGED results
      BY <3>1, Untouched
    <3> QED
      BY <1>1, <3>2 DEF Failed, Excused
  <2> QED
    BY <1>1, <2>1 DEF Failed
<1>2. ASSUME status' # "failed" PROVE Failed'
  BY <1>2 DEF Failed
<1>3. CASE Edit
  BY <1>1, <1>3 DEF Edit, EditBenchmark, EditPlugin, MakeClean, tables
<1>4. CASE Begin
  <2>1. status = "none" /\ status' \in {status, "running"}
    BY <1>4 DEF Begin, StartRunAnalysis, StartMake, StartBuildAll, StartRunAll, StartAnalyze, Begins,
                Idle, AnalysisBegins, tables, Firsts
  <2> QED
    BY <1>2, <2>1
<1>5. CASE Build
  <2>1. at # "ended" /\ status' \in {status, "none"}
    BY <1>5 DEF Build, Clone, Cloned, MakePlugin, MakeBenchmarks, BuildOne, BuildSummary, AfterBuild,
                ScriptEnds, tables
  <2> QED
    BY <1>2, <2>1 DEF Failed
<1>6. CASE Run
  <2>1. at # "ended" /\ status' \in {status, "none", "running"}
    BY <1>6 DEF Run, RunSkips, RunStarts, RunTerminates, RunKills, RunDone, AnalysisBegins,
                ScriptEnds, tables
  <2> QED
    BY <1>2, <2>1 DEF Failed
<1>7. CASE AnalyzeStep
  <2>1. AnalyzeNext /\ UNCHANGED results
    BY <1>7 DEF AnalyzeStep, run
  <2>2. Drawing \/ at = "load"
    BY <2>1, AnalysisMoves DEF Typed, Drawing
  <2>3. status # "failed"
    BY <2>2 DEF Failed, Drawing, Analyzing
  <2>4. status' = "failed" => Excused /\ at' = "ended" /\ UNCHANGED per_bench
    BY <2>1, <2>2, <2>3, FailsExcused
  <2> QED
    BY <2>1, <2>4 DEF Failed, Excused
<1>8. CASE AnalysisOver \/ Interrupt
  BY <1>2, <1>8 DEF AnalysisOver, Interrupt, AnalysisBegins, ScriptEnds
<1>9. CASE \E b \in Name : Emulator(b)
  BY <1>1, <1>9, EmulatorFrame DEF tables
<1>10. CASE UNCHANGED vars
  BY <1>1, <1>10 DEF vars, tables
<1> QED
  BY <1>3, <1>4, <1>5, <1>6, <1>7, <1>8, <1>9, <1>10, Kinds DEF Report

(* An analysis of two or more benchmarks that all have samples of two or   *)
(* more classes fails on a torn file only: no chart of the script raises.  *)
THEOREM ChartsDelivered == CampaignSpec => []DeliversForSeveral
<1>1. CampaignInit => Failed
  BY DEF CampaignInit, Failed
<1>2. Failed => DeliversForSeveral
  BY DEF Failed, Excused, DeliversForSeveral
<1> QED
  BY <1>1, <1>2, FailedStep, AlwaysLoads, AlwaysAlone, PTL DEF CampaignSpec

-----------------------------------------------------------------------------
(* How many steps a script still takes at most: of the analyses it has     *)
(* ahead, and from the place it is at to the end of its builds, its        *)
(* measurements or the analysis it is in.                                  *)
OneAnalysis == 2 * Len(Benches) + 6
Analyses ==
  IF script # "run_analysis" THEN 0
  ELSE IF Analyzing \/ at = "ended" THEN IF first = <<>> THEN OneAnalysis ELSE 0
  ELSE 2 * OneAnalysis
Measuring == IF script = "run_analysis" THEN 3 * Len(Benches) + 1 ELSE 0
Building  == Len(BuildOrder) + 1 + Measuring
Place ==
  CASE at = "clone"      -> Len(Repositories) + 4 - i + Building
    [] at = "plugin"     -> 2 + Building
    [] at = "benchmarks" -> 1 + Building
    [] at = "build"      -> 1 - i + Building
    [] at = "run"        -> 3 * (Len(Benches) + 1 - i) + 1
    [] at = "sleep"      -> 3 * (Len(Benches) + 1 - i)
    [] at = "grace"      -> 3 * (Len(Benches) + 1 - i) - 1
    [] at = "load"       -> 2 * Len(Benches) + 7 - i
    [] at = "overall"    -> Len(Benches) + 5
    [] at = "by_class"   -> Len(Benches) + 4
    [] at = "by_bench"   -> Len(Benches) + 3
    [] at = "each"       -> Len(Benches) + 3 - i
    [] at = "ended"      -> 1
StepsLeft == IF script = "none" THEN 0 ELSE Place + Analyses

(* The longest script is a run_analysis.sh that nothing stops.             *)
Longest == Len(Repositories) + Len(BuildOrder) + 7 * Len(Benches) + 17

(* The counters of the loops.                                              *)
Counting ==
  /\ at = "clone" => i <= Len(Repositories) + 1
  /\ at = "build" => i <= Len(BuildOrder) + 1
  /\ at \in {"run", "load", "each"} => i <= Len(Benches) + 1

LEMMA Lengths == Len(Benches) \in Nat /\ Len(BuildOrder) \in Nat /\ Len(Repositories) \in Nat
BY AnalyzeAssumption, CampaignAssumption

LEMMA CountingAnalysis ==
  ASSUME ControlOK, Counting, AnalyzeNext
  PROVE  Counting'
<1>1. CASE LoadFile
  BY <1>1, Lengths DEF LoadFile, Read, Skip, Ends, ControlOK, Counting
<1>2. CASE Loaded \/ PlotOverall \/ PlotByClass
  BY <1>2, Lengths DEF Loaded, PlotOverall, PlotByClass, DrawGrid, Ends, GoesTo, ControlOK, Counting
<1>3. CASE PlotByBench
  BY <1>3, Lengths DEF PlotByBench, DrawGrid, Ends, GoesTo, ControlOK, Counting
<1>4. CASE PlotEach
  BY <1>4, Lengths DEF PlotEach, DrawGrid, Ends, Skip, ControlOK, Counting
<1>5. CASE ChartsWritten
  BY <1>5 DEF ChartsWritten, Ends, Counting
<1> QED
  BY <1>1, <1>2, <1>3, <1>4, <1>5 DEF AnalyzeNext

LEMMA CountingStep ==
  ASSUME Typed, Counting, [CampaignNext]_vars
  PROVE  Counting'
<1>1. CASE Edit
  BY <1>1 DEF Edit, EditBenchmark, EditPlugin, MakeClean, Counting
<1>2. CASE Begin
  BY <1>2, Lengths DEF Begin, StartRunAnalysis, StartMake, StartBuildAll, StartRunAll, StartAnalyze,
                       BuildBegins, RunBegins, AnalysisBegins, Counting
<1>3. CASE Build
  BY <1>3, Lengths DEF Build, Clone, Cloned, MakePlugin, MakeBenchmarks, BuildOne, BuildSummary,
                       AfterBuild, BuildBegins, RunBegins, ScriptEnds, NextOne, GoTo,
                       Typed, ControlOK, Counting
<1>4. CASE Run
  BY <1>4, Lengths DEF Run, RunSkips, RunStarts, RunTerminates, RunKills, RunDone, AnalysisBegins,
                       ScriptEnds, NextOne, Typed, ControlOK, Placed, Counting
<1>5. CASE AnalyzeStep
  BY <1>5, CountingAnalysis DEF AnalyzeStep, Typed
<1>6. CASE AnalysisOver
  BY <1>6, Lengths DEF AnalysisOver, AnalysisBegins, ScriptEnds, Counting
<1>7. CASE Interrupt
  BY <1>7 DEF Interrupt, ScriptEnds, Counting
<1>8. CASE \E b \in Name : Emulator(b)
  BY <1>8, EmulatorFrame DEF Counting
<1>9. CASE UNCHANGED vars
  BY <1>9 DEF vars, Counting
<1> QED
  BY <1>1, <1>2, <1>3, <1>4, <1>5, <1>6, <1>7, <1>8, <1>9, Kinds DEF Report

(* The two definitions case by case, for the state before a step and the   *)
(* one after it.                                                           *)
PlaceAt ==
  /\ at = "clone"      => Place = Len(Repositories) + 4 - i + Building
  /\ at = "plugin"     => Place = 2 + Building
  /\ at = "benchmarks" => Place = 1 + Building
  /\ at = "build"      => Place = 1 - i + Building
  /\ at = "run"        => Place = 3 * (Len(Benches) + 1 - i) + 1
  /\ at = "sleep"      => Place = 3 * (Len(Benches) + 1 - i)
  /\ at = "grace"      => Place = 3 * (Len(Benches) + 1 - i) - 1
  /\ at = "load"       => Place = 2 * Len(Benches) + 7 - i
  /\ at = "overall"    => Place = Len(Benches) + 5
  /\ at = "by_class"   => Place = Len(Benches) + 4
  /\ at = "by_bench"   => Place = Len(Benches) + 3
  /\ at = "each"       => Place = Len(Benches) + 3 - i
  /\ at = "ended"      => Place = 1

LEMMA Places == PlaceAt /\ PlaceAt'
BY DEF PlaceAt, Place

StepsAt ==
  /\ script = "none" => StepsLeft = 0
  /\ script # "none" => StepsLeft = Place + Analyses

LEMMA Steps == StepsAt /\ StepsAt'
BY DEF StepsAt, StepsLeft

BuildingAt ==
  /\ script = "run_analysis" => Building = Len(BuildOrder) + 3 * Len(Benches) + 2
  /\ script # "run_analysis" => Building = Len(BuildOrder) + 1

LEMMA Buildings == BuildingAt /\ BuildingAt'
<1>1. /\ script = "run_analysis" => Measuring = 3 * Len(Benches) + 1
      /\ script # "run_analysis" => Measuring = 0
  BY DEF Measuring
<1>2. /\ script' = "run_analysis" => Measuring' = 3 * Len(Benches) + 1
      /\ script' # "run_analysis" => Measuring' = 0
  BY DEF Measuring
<1>3. Building = Len(BuildOrder) + 1 + Measuring /\ Building' = Len(BuildOrder) + 1 + Measuring'
  BY DEF Building
<1> QED
  BY <1>1, <1>2, <1>3, Lengths DEF BuildingAt

LEMMA Smaller ==
  \A p, q \in Int, a, b \in Nat : p < q /\ b = a => p + b < q + a
OBVIOUS

(* A script has a step left, the one that ends it.                         *)
LEMMA AStepLeft ==
  ASSUME Typed, Counting, script # "none"
  PROVE  StepsLeft \in 1 .. Longest
<1>1. /\ script = "run_analysis" => Analyses \in 0 .. 2 * OneAnalysis /\ Measuring = 3 * Len(Benches) + 1
      /\ script # "run_analysis" => Analyses = 0 /\ Measuring = 0
      /\ Analyzing \/ at = "ended" => Analyses \in 0 .. OneAnalysis
  BY Lengths DEF Analyses, Measuring, OneAnalysis
<1>2. CASE at \in {"clone", "plugin", "benchmarks", "build"}
  <2>1. Building \in Nat /\ Building >= Len(BuildOrder) + 1
    BY <1>1, Lengths DEF Building
  <2>2. Place \in 1 .. Len(Repositories) + 3 + Building
    BY <1>2, <2>1, Lengths, Places DEF PlaceAt, Typed, ControlOK, Counting
  <2> QED
    BY <1>1, <2>2, Lengths DEF StepsLeft, Building, Longest, OneAnalysis
<1>3. CASE at \in {"run", "sleep", "grace"}
  <2>1. Place \in 1 .. 3 * Len(Benches) + 1
    BY <1>3, Lengths, Places DEF PlaceAt, Typed, ControlOK, Placed, Counting
  <2> QED
    BY <1>1, <2>1, Lengths DEF StepsLeft, Longest, OneAnalysis
<1>4. CASE Analyzing \/ at = "ended"
  <2>1. Place \in 1 .. OneAnalysis
    BY <1>4, Lengths, Places DEF PlaceAt, OneAnalysis, Analyzing, Typed, ControlOK, Counting
  <2> QED
    BY <1>1, <1>4, <2>1, Lengths DEF StepsLeft, Longest, OneAnalysis
<1> QED
  BY <1>2, <1>3, <1>4 DEF Typed, ControlOK, Analyzing

LEMMA EndLeavesNone ==
  ASSUME Typed, Counting, script # "none", ScriptEnds
  PROVE  StepsLeft' < StepsLeft
<1>1. StepsLeft' = 0
  BY DEF ScriptEnds, StepsLeft
<1> QED
  BY <1>1, AStepLeft, Lengths DEF Longest

LEMMA AnalysisShrinks ==
  ASSUME Typed, Counting, AnalyzeNext, script # "none", UNCHANGED <<script, first>>
  PROVE  StepsLeft' < StepsLeft
<1>1. Analyzing /\ (Analyzing' \/ at' = "ended")
  BY AnalysisMoves DEF Analyzing, Typed
<1>2. Analyses' = Analyses /\ Analyses \in Nat
  BY <1>1, Lengths DEF Analyses, OneAnalysis
<1>3. CASE LoadFile
  <2>1. at = "load" /\ i \in Nat /\ i <= Len(Benches) /\ i' \in {i + 1, 0} /\ at' \in {"load", "ended"}
        /\ (at' = "load" => i' = i + 1)
    BY <1>3 DEF LoadFile, Read, Skip, Ends, Typed, ControlOK
  <2>2. Place' < Place /\ Place \in Int /\ Place' \in Int
    BY <2>1, Lengths, Places DEF PlaceAt
  <2> QED
    BY <1>2, <2>2, Smaller, Steps DEF StepsAt
<1>4. CASE Loaded \/ PlotOverall \/ PlotByClass
  <2>1. at \in {"load", "overall", "by_class"} /\ i \in Nat
        /\ (at = "load" => i <= Len(Benches) + 1 /\ at' \in {"overall", "ended"})
        /\ (at = "overall" => at' \in {"by_class", "ended"})
        /\ (at = "by_class" => at' \in {"by_bench", "ended"})
    BY <1>4 DEF Loaded, PlotOverall, PlotByClass, DrawGrid, Ends, GoesTo, Typed, ControlOK, Counting
  <2>2. Place' < Place /\ Place \in Int /\ Place' \in Int
    BY <2>1, Lengths, Places DEF PlaceAt
  <2> QED
    BY <1>2, <2>2, Smaller, Steps DEF StepsAt
<1>5. CASE PlotByBench
  <2>1. at = "by_bench" /\ at' \in {"each", "ended"} /\ (at' = "each" => i' = 1)
    BY <1>5 DEF PlotByBench, DrawGrid, Ends, GoesTo
  <2>2. Place' < Place /\ Place \in Int /\ Place' \in Int
    BY <2>1, Lengths, Places DEF PlaceAt
  <2> QED
    BY <1>2, <2>2, Smaller, Steps DEF StepsAt
<1>6. CASE PlotEach \/ ChartsWritten
  <2>1. at = "each" /\ i \in Nat /\ i <= Len(Benches) + 1 /\ at' \in {"each", "ended"}
        /\ (at' = "each" => i' = i + 1)
    BY <1>6 DEF PlotEach, ChartsWritten, DrawGrid, Ends, Skip, Typed, ControlOK, Counting
  <2>2. Place' < Place /\ Place \in Int /\ Place' \in Int
    BY <2>1, Lengths, Places DEF PlaceAt
  <2> QED
    BY <1>2, <2>2, Smaller, Steps DEF StepsAt
<1> QED
  BY <1>3, <1>4, <1>5, <1>6 DEF AnalyzeNext

(* Every step of a script brings it nearer to its end.                     *)
LEMMA ScriptShrinks ==
  ASSUME Typed, Counting, Firsts, Script
  PROVE  StepsLeft' < StepsLeft
<1>0. script # "none"
  <2>1. script # "none" \/ at # "ended"
    BY AnalysisMoves DEF Script, Clone, Cloned, MakePlugin, MakeBenchmarks, BuildOne, BuildSummary,
       RunSkips, RunStarts, RunTerminates, RunKills, RunDone, AnalyzeStep, AnalysisOver, Analyzing, Typed
  <2> QED
    BY <2>1 DEF Typed, Placed
<1>1. ASSUME ScriptEnds PROVE StepsLeft' < StepsLeft
  BY <1>0, <1>1, EndLeavesNone
<1>2. ASSUME UNCHANGED script, Place' < Place, Place \in Int, Place' \in Int,
             at \in {"clone", "plugin", "benchmarks", "build", "run", "sleep", "grace"},
             at' \in {"clone", "plugin", "benchmarks", "build", "run", "sleep", "grace"}
      PROVE  StepsLeft' < StepsLeft
  <2>1. Analyses' = Analyses /\ Analyses \in Nat
    BY <1>2, Lengths DEF Analyses, OneAnalysis, Analyzing
  <2> QED
    BY <1>0, <1>2, <2>1, Smaller, Steps DEF StepsAt
<1>3. Building \in Nat /\ Building >= Len(BuildOrder) + 1 /\ (UNCHANGED script => Building' = Building)
  BY Lengths, Buildings DEF BuildingAt
<1>4. CASE Clone \/ Cloned \/ MakePlugin
  <2>1. ScriptEnds \/ /\ UNCHANGED script /\ i \in Nat
                      /\ at \in {"clone", "plugin"} /\ at' \in {"clone", "plugin", "benchmarks"}
                      /\ (at = "clone" => i <= Len(Repositories) + 1 /\ at' \in {"clone", "plugin"})
                      /\ (at = "clone" /\ at' = "clone" => i' = i + 1)
                      /\ (at = "plugin" => at' = "benchmarks")
    BY <1>4 DEF Clone, Cloned, MakePlugin, NextOne, GoTo, Typed, ControlOK, Counting
  <2>2. CASE ~ScriptEnds
    <3>1. Place' < Place /\ Place \in Int /\ Place' \in Int
      BY <1>3, <2>1, <2>2, Lengths, Places DEF PlaceAt
    <3> QED
      BY <1>2, <2>1, <2>2, <3>1
  <2> QED
    BY <1>1, <2>2
<1>5. CASE MakeBenchmarks \/ BuildOne \/ BuildSummary
  <2>1. ScriptEnds \/ /\ UNCHANGED script /\ i \in Nat
                      /\ at \in {"benchmarks", "build"} /\ at' \in {"build", "run"}
                      /\ (at = "build" => i <= Len(BuildOrder) + 1)
                      /\ (at' = "build" => i' = IF at = "build" THEN i + 1 ELSE 1)
                      /\ (at' = "run" => i' = 1 /\ script = "run_analysis")
    BY <1>5 DEF MakeBenchmarks, BuildOne, BuildSummary, AfterBuild, BuildBegins, RunBegins, NextOne,
                Typed, ControlOK, Counting
  <2>2. CASE ~ScriptEnds
    <3>1. at' = "run" => Building = Len(BuildOrder) + 1 + 3 * Len(Benches) + 1
      BY <2>1, <2>2, Lengths, Buildings DEF BuildingAt
    <3>2. Place' < Place /\ Place \in Int /\ Place' \in Int
      BY <1>3, <2>1, <2>2, <3>1, Lengths, Places DEF PlaceAt
    <3> QED
      BY <1>2, <2>1, <2>2, <3>2
  <2> QED
    BY <1>1, <2>2
<1>6. CASE RunSkips \/ RunStarts \/ RunTerminates \/ RunKills
  <2>1. /\ UNCHANGED script /\ i \in Nat
        /\ \/ at = "run" /\ at' = "run" /\ i' = i + 1
           \/ at = "run" /\ at' = "sleep" /\ i' = i
           \/ at = "sleep" /\ at' = "grace" /\ i' = i
           \/ at = "grace" /\ at' = "run" /\ i' = i + 1
    BY <1>6 DEF RunSkips, RunStarts, RunTerminates, RunKills, NextOne, Typed, ControlOK
  <2>2. Place' < Place /\ Place \in Int /\ Place' \in Int
    BY <2>1, Lengths, Places DEF PlaceAt
  <2> QED
    BY <1>2, <2>1, <2>2
<1>7. CASE RunDone
  <2>1. CASE script = "run_analysis"
    <3>1. at = "run" /\ i = Len(Benches) + 1 /\ at' = "load" /\ i' = 1 /\ UNCHANGED script
      BY <1>7, <2>1, Lengths DEF RunDone, AnalysisBegins, Typed, ControlOK, Counting
    <3>2. Place = 1 /\ Place' = OneAnalysis
      BY <3>1, Lengths, Places DEF PlaceAt, OneAnalysis
    <3>3. Analyses = 2 * OneAnalysis /\ Analyses' \in {0, OneAnalysis}
      BY <2>1, <3>1 DEF Analyses, Analyzing
    <3> QED
      BY <1>0, <3>1, <3>2, <3>3, Lengths DEF StepsLeft, OneAnalysis
  <2> QED
    BY <1>1, <1>7, <2>1 DEF RunDone
<1>8. CASE AnalyzeStep
  BY <1>0, <1>8, AnalysisShrinks DEF AnalyzeStep
<1>9. CASE AnalysisOver
  <2>1. CASE script = "run_analysis" /\ status = "done" /\ first = <<>>
    <3>1. at = "ended" /\ at' = "load" /\ i' = 1 /\ UNCHANGED script
      BY <1>9, <2>1 DEF AnalysisOver, AnalysisBegins
    <3>2. first' # <<>>
      BY <1>9, <2>1 DEF AnalysisOver, Firsts
    <3>3. Place = 1 /\ Place' = OneAnalysis
      BY <3>1, Lengths, Places DEF PlaceAt, OneAnalysis
    <3>4. Analyses = OneAnalysis /\ Analyses' = 0
      BY <2>1, <3>1, <3>2 DEF Analyses, Analyzing
    <3> QED
      BY <1>0, <3>1, <3>3, <3>4, Lengths DEF StepsLeft, OneAnalysis
  <2> QED
    BY <1>1, <1>9, <2>1 DEF AnalysisOver
<1> QED
  BY <1>4, <1>5, <1>6, <1>7, <1>8, <1>9 DEF Script

LEMMA AlwaysCounting == CampaignSpec => [](Typed /\ Firsts /\ Counting)
<1>1. CampaignInit => Counting
  BY DEF CampaignInit, Counting
<1> QED
  BY <1>1, CountingStep, AlwaysLoads, PTL DEF CampaignSpec

(* No script is longer than its benchmarks and repositories make it: each  *)
(* of its steps leaves it fewer, and nobody else's adds any, neither the   *)
(* emulators it starts and kills (run_all.sh:19-29) nor an interrupt,      *)
(* which ends it.                                                          *)
THEOREM ScriptsAreFinite ==
  CampaignSpec =>
    /\ [](StepsLeft \in 0 .. Longest /\ (StepsLeft = 0 <=> script = "none"))
    /\ [][ /\ Script => StepsLeft' < StepsLeft
           /\ ~Script /\ script # "none" => StepsLeft' \in {0, StepsLeft} ]_vars
<1>1. Typed /\ Counting => StepsLeft \in 0 .. Longest /\ (StepsLeft = 0 <=> script = "none")
  BY AStepLeft, Lengths DEF StepsLeft, Longest
<1>2. ASSUME [CampaignNext]_vars, script # "none", ~Script
      PROVE  StepsLeft' \in {0, StepsLeft}
  <2>1. ~User
    BY <1>2 DEF User, EditBenchmark, EditPlugin, MakeClean, StartRunAnalysis, StartMake, StartBuildAll,
                StartRunAll, StartAnalyze, Begins, Idle
  <2>2. ASSUME UNCHANGED <<script, at, i, first>> PROVE StepsLeft' = StepsLeft
    <3>1. Analyses' = Analyses
      BY <2>2 DEF Analyses, Analyzing
    <3>2. Building' = Building
      BY <2>2 DEF Building, Measuring
    <3>3. Place' = Place
      BY <2>2, <3>2, Zenon DEF Place
    <3> QED
      BY <2>2, <3>1, <3>3 DEF StepsLeft
  <2>3. CASE Interrupt
    BY <2>3 DEF Interrupt, ScriptEnds, StepsLeft
  <2>4. CASE \E b \in Name : Emulator(b)
    BY <2>2, <2>4, EmulatorFrame DEF tables
  <2>5. CASE UNCHANGED vars
    BY <2>2, <2>5 DEF vars, tables
  <2> QED
    BY <1>2, <2>1, <2>3, <2>4, <2>5 DEF CampaignNext
<1>3. Typed /\ Firsts /\ Counting /\ [CampaignNext]_vars =>
        [ /\ Script => StepsLeft' < StepsLeft
          /\ ~Script /\ script # "none" => StepsLeft' \in {0, StepsLeft} ]_vars
  BY <1>2, ScriptShrinks
<1> QED
  BY <1>1, <1>3, AlwaysCounting, PTL DEF CampaignSpec
=============================================================================
