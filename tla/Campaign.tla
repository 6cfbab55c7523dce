------------------------------ MODULE Campaign ------------------------------
(***************************************************************************)
(* A measurement campaign: run_analysis.sh, the makefiles, build_all.sh    *)
(* and run_all.sh, which leave ELF and CSV files for the next step, and    *)
(* analyze.py (module Analyze), which reads what it finds.                 *)
(*                                                                         *)
(* The user edits sources, cleans, and starts one script after the other;  *)
(* any script can fail or be interrupted.  The emulator is a process of    *)
(* its own, which run_all.sh starts, asks to stop and kills; the plugin    *)
(* writes the CSV on the emulator's way out.  Files carry the versions     *)
(* they were made from.                                                    *)
(***************************************************************************)
EXTENDS Analyze

CONSTANTS
  Repositories,  \* the benchmarks that come with each repository to clone
  BuildOrder,    \* the benchmarks in the order build_all.sh builds them
  ByHand,        \* command lines the user gives to analyze.py
  MaxStarts,     \* bound: scripts started
  MaxEdits,      \* bound: edits of sources
  MaxFailures,   \* bound: compilations and downloads that fail
  MaxInterrupts  \* bound: scripts interrupted

Options == [crypto : BOOLEAN, name : Name \cup {NoName}, no_by_benchmark : BOOLEAN]

ASSUME CampaignAssumption ==
  /\ Repositories \in Seq(SUBSET Name)
  /\ BuildOrder \in Seq(Name) /\ IsInjective(BuildOrder) /\ Range(BuildOrder) = Name
  /\ ByHand \subseteq Options
  /\ {MaxStarts, MaxEdits, MaxFailures, MaxInterrupts} \subseteq Nat

VARIABLES
  script,      \* the script the user started, or "none"
  sources,     \* version of each benchmark's sources, 0 if not there
  plugin_src,  \* version of the plugin's sources
  libbitwidth, \* version of the plugin built, 0 if none
  build_dir,   \* whether benchmarks/build exists
  elf,         \* version each ELF was built from, 0 if there is none
  failed,      \* the benchmarks that the last build lists as FAIL
  emulator,    \* of each benchmark: none, running, stopping or writing
  stamp,       \* history: the versions each CSV was measured with
  reports,     \* what the last run_all.sh printed: none, OK or EMPTY
  first,       \* history: what the first of two analyses loaded
  starts, edits, failures, interrupts

files  == <<sources, plugin_src, libbitwidth, build_dir, elf, failed>>
run    == <<emulator, results, stamp, reports>>
tables == <<options, per_bench, combined, status, first>>
bounds == <<starts, edits, failures, interrupts>>
vars == <<script, at, i, files, run, tables, bounds>>

NoStamp == [elf |-> 0, plugin |-> 0]
Target  == [crypto |-> TRUE, name |-> NoName, no_by_benchmark |-> FALSE]
All     == [crypto |-> FALSE, name |-> NoName, no_by_benchmark |-> FALSE]
Each(value) == [b \in Name |-> value]

CampaignInit ==
  /\ script = "none" /\ at = "ended" /\ i = 0
  /\ sources = [b \in Name |-> IF b \in UNION Range(Repositories) THEN 0 ELSE 1]
  /\ plugin_src = 1 /\ libbitwidth = 0
  /\ build_dir = FALSE /\ elf = Each(0) /\ failed = {}
  /\ emulator = Each("none") /\ results = Each(NoFile) /\ stamp = Each(NoStamp)
  /\ reports = Each("none")
  /\ options = All /\ per_bench = <<>> /\ combined = ZeroTable /\ status = "none"
  /\ first = <<>>
  /\ starts = 0 /\ edits = 0 /\ failures = 0 /\ interrupts = 0

GoTo(place) == at' = place /\ i' = 1 /\ UNCHANGED script
NextOne     == i' = i + 1 /\ UNCHANGED <<script, at>>

(* The tables are memory of the analysis, and gone with it.                *)
ScriptEnds ==
  /\ script' = "none" /\ at' = "ended" /\ i' = 0
  /\ options' = All /\ per_bench' = <<>> /\ combined' = ZeroTable /\ status' = "none"
  /\ first' = <<>>

(* A command that fails.                                                   *)
Fails == failures < MaxFailures /\ failures' = failures + 1 /\ UNCHANGED <<starts, edits, interrupts>>

-----------------------------------------------------------------------------
(* The user, who waits for the scripts and emulators started before.       *)
Idle == script = "none" /\ \A b \in Name : emulator[b] = "none"

EditBenchmark(b) ==
  /\ Idle /\ edits < MaxEdits /\ edits' = edits + 1
  /\ sources[b] > 0
  /\ sources' = [sources EXCEPT ![b] = @ + 1]
  /\ UNCHANGED <<script, at, i, plugin_src, libbitwidth, build_dir, elf, failed, run, tables,
                 starts, failures, interrupts>>

EditPlugin ==
  /\ Idle /\ edits < MaxEdits /\ edits' = edits + 1
  /\ plugin_src' = plugin_src + 1
  /\ UNCHANGED <<script, at, i, sources, libbitwidth, build_dir, elf, failed, run, tables,
                 starts, failures, interrupts>>

(* Mutant: the ELF files lie elsewhere than what clean removes.            *)
MakeCleanMissesElf ==
  /\ Idle
  /\ libbitwidth' = 0 /\ build_dir' = FALSE
  /\ UNCHANGED <<script, at, i, sources, plugin_src, elf, failed, run, tables, bounds>>

(* make clean: the results stay.                                           *)
MakeClean ==
  /\ Idle
  /\ libbitwidth' = 0 /\ build_dir' = FALSE /\ elf' = Each(0)
  /\ UNCHANGED <<script, at, i, sources, plugin_src, failed, run, tables, bounds>>

Begins(command) ==
  /\ Idle /\ starts < MaxStarts /\ starts' = starts + 1
  /\ script' = command
  /\ UNCHANGED <<edits, failures, interrupts>>

StartRunAnalysis ==
  /\ Begins("run_analysis")
  /\ at' = "clone" /\ i' = 1
  /\ UNCHANGED <<files, run, tables>>

StartMake ==
  /\ Begins("make")
  /\ at' = "plugin" /\ i' = 1
  /\ UNCHANGED <<files, run, tables>>

BuildBegins ==
  /\ at' = "build" /\ i' = 1
  /\ build_dir' = TRUE /\ failed' = {}
  /\ UNCHANGED <<sources, plugin_src, libbitwidth, elf>>

StartBuildAll ==
  /\ Begins("build_all")
  /\ BuildBegins
  /\ UNCHANGED <<run, tables>>

RunBegins ==
  /\ at' = "run" /\ i' = 1
  /\ reports' = Each("none")
  /\ UNCHANGED <<emulator, results, stamp>>

StartRunAll ==
  /\ Begins("run_all")
  /\ RunBegins
  /\ UNCHANGED <<files, tables>>

StartAnalyze ==
  /\ Begins("analyze")
  /\ \E opts \in ByHand : AnalysisBegins(opts)
  /\ UNCHANGED <<files, run, first>>

User ==
  \/ \E b \in Name : EditBenchmark(b)
  \/ EditPlugin \/ MakeClean
  \/ StartRunAnalysis \/ StartMake \/ StartBuildAll \/ StartRunAll \/ StartAnalyze

-----------------------------------------------------------------------------
(* run_analysis.sh: a directory that is there is not cloned.  set -e ends  *)
(* the script when a download fails.                                       *)
Missing(repository) == \A b \in repository : sources[b] = 0

Clone ==
  /\ at = "clone" /\ i <= Len(Repositories)
  /\ UNCHANGED <<plugin_src, libbitwidth, build_dir, elf, failed, run>>
  /\ \/ /\ ~Missing(Repositories[i])
        /\ NextOne /\ UNCHANGED <<sources, tables, bounds>>
     \/ /\ Missing(Repositories[i])
        /\ sources' = [b \in Name |-> IF b \in Repositories[i] THEN 1 ELSE sources[b]]
        /\ NextOne /\ UNCHANGED <<tables, bounds>>
     \/ /\ Missing(Repositories[i])
        /\ Fails /\ ScriptEnds /\ UNCHANGED sources

Cloned ==
  /\ at = "clone" /\ i > Len(Repositories)
  /\ GoTo("plugin")
  /\ UNCHANGED <<files, run, tables, bounds>>

(* make: the plugin, when its sources are newer.  An error ends make and,  *)
(* by set -e, run_analysis.sh.                                             *)
MakePlugin ==
  /\ at = "plugin"
  /\ UNCHANGED <<sources, plugin_src, build_dir, elf, failed, run>>
  /\ \/ libbitwidth' = plugin_src /\ GoTo("benchmarks") /\ UNCHANGED <<tables, bounds>>
     \/ libbitwidth # plugin_src /\ UNCHANGED libbitwidth /\ Fails /\ ScriptEnds

(* What follows a build.                                                   *)
AfterBuild ==
  IF script = "run_analysis"
  THEN RunBegins /\ UNCHANGED <<script, tables>>
  ELSE ScriptEnds /\ UNCHANGED run

(* The target build is the directory of that name, and no phony one: when  *)
(* the directory is there, nothing is built.                               *)
MakeBenchmarks ==
  /\ at = "benchmarks"
  /\ IF build_dir
     THEN AfterBuild /\ UNCHANGED files
     ELSE BuildBegins /\ UNCHANGED <<script, run, tables>>
  /\ UNCHANGED bounds

(* Mutant: an ELF that is there is not built again.                        *)
BuildOneIfMissing ==
  /\ at = "build" /\ i <= Len(BuildOrder)
  /\ UNCHANGED <<sources, plugin_src, libbitwidth, build_dir, failed, run, tables, bounds>>
  /\ NextOne
  /\ elf' = [elf EXCEPT ![BuildOrder[i]] = IF @ = 0 THEN sources[BuildOrder[i]] ELSE @]

(* build_all.sh, one benchmark.  A compiler that fails leaves the ELF of   *)
(* an earlier build, a linker that fails removes it.                       *)
BuildOne ==
  /\ at = "build" /\ i <= Len(BuildOrder)
  /\ UNCHANGED <<sources, plugin_src, libbitwidth, build_dir, run, tables>>
  /\ NextOne
  /\ LET b == BuildOrder[i] IN
     \/ /\ elf' = IF sources[b] > 0 THEN [elf EXCEPT ![b] = sources[b]] ELSE elf
        /\ UNCHANGED <<failed, bounds>>
     \/ /\ sources[b] > 0 /\ Fails
        /\ \E e \in {elf[b], 0} : elf' = [elf EXCEPT ![b] = e]
        /\ failed' = failed \cup {b}

(* Its summary lists the failures, and it ends in success.                 *)
BuildSummary ==
  /\ at = "build" /\ i > Len(BuildOrder)
  /\ AfterBuild
  /\ UNCHANGED <<files, bounds>>

-----------------------------------------------------------------------------
(* run_all.sh: the next ELF.                                               *)
RunSkips ==
  /\ at = "run" /\ i <= Len(Benches) /\ elf[Benches[i]] = 0
  /\ NextOne
  /\ UNCHANGED <<files, run, tables, bounds>>

(* Mutant: the CSV of an earlier run left where it is.                     *)
RunStartsOverOld ==
  /\ at = "run" /\ i <= Len(Benches) /\ elf[Benches[i]] # 0
  /\ emulator' = [emulator EXCEPT ![Benches[i]] = IF libbitwidth = 0 THEN "none" ELSE "running"]
  /\ at' = "sleep"
  /\ UNCHANGED <<script, i, files, results, stamp, reports, tables, bounds>>

(* rm -f, and an emulator in the background, which cannot start without    *)
(* the plugin.                                                             *)
RunStarts ==
  /\ at = "run" /\ i <= Len(Benches) /\ elf[Benches[i]] # 0
  /\ LET b == Benches[i] IN
     /\ results' = [results EXCEPT ![b] = NoFile]
     /\ stamp' = [stamp EXCEPT ![b] = NoStamp]
     /\ emulator' = [emulator EXCEPT ![b] = IF libbitwidth = 0 THEN "none" ELSE "running"]
  /\ at' = "sleep"
  /\ UNCHANGED <<script, i, files, reports, tables, bounds>>

AskToStop(emulators) ==
  [b \in Name |-> IF emulators[b] = "running" THEN "stopping" ELSE emulators[b]]

(* kill -TERM after the sleep of RUNTIME seconds.                          *)
RunTerminates ==
  /\ at = "sleep"
  /\ emulator' = AskToStop(emulator)
  /\ at' = "grace"
  /\ UNCHANGED <<script, i, files, results, stamp, reports, tables, bounds>>

(* test -s: the file is not empty.  The header comes with the first piece  *)
(* of the rows, and a full run writes a row at least.                      *)
Verdict(b) ==
  IF results[b].present /\ results[b].rows # <<>> THEN "OK" ELSE "EMPTY"

(* Mutant: nothing kills the emulator.                                     *)
RunReports ==
  /\ at = "grace"
  /\ reports' = [reports EXCEPT ![Benches[i]] = Verdict(Benches[i])]
  /\ at' = "run" /\ i' = i + 1
  /\ UNCHANGED <<script, files, results, stamp, emulator, tables, bounds>>

(* Mutant: wait alone.                                                     *)
RunWaits ==
  /\ at = "grace"
  /\ emulator[Benches[i]] = "none"
  /\ reports' = [reports EXCEPT ![Benches[i]] = Verdict(Benches[i])]
  /\ at' = "run" /\ i' = i + 1
  /\ UNCHANGED <<script, files, results, stamp, emulator, tables, bounds>>

(* kill -9, wait, and the report on the file there is.                     *)
RunKills ==
  /\ at = "grace"
  /\ emulator' = [emulator EXCEPT ![Benches[i]] = "none"]
  /\ reports' = [reports EXCEPT ![Benches[i]] = Verdict(Benches[i])]
  /\ at' = "run" /\ i' = i + 1
  /\ UNCHANGED <<script, files, results, stamp, tables, bounds>>

RunDone ==
  /\ at = "run" /\ i > Len(Benches)
  /\ UNCHANGED <<files, run, bounds>>
  /\ IF script = "run_analysis"
     THEN AnalysisBegins(All) /\ UNCHANGED <<script, first>>
     ELSE ScriptEnds

-----------------------------------------------------------------------------
(* analyze.py at work.                                                     *)
AnalyzeStep == AnalyzeNext /\ UNCHANGED <<script, files, run, first, bounds>>

(* run_analysis.sh goes on to the target domain, set -e, when the first    *)
(* analysis has succeeded.                                                 *)
AnalysisOver ==
  /\ script # "none" /\ at = "ended"
  /\ UNCHANGED <<files, run, bounds>>
  /\ IF script = "run_analysis" /\ status = "done" /\ first = <<>>
     THEN first' = per_bench /\ AnalysisBegins(Target) /\ UNCHANGED script
     ELSE ScriptEnds

Script ==
  \/ Clone \/ Cloned \/ MakePlugin \/ MakeBenchmarks \/ BuildOne \/ BuildSummary
  \/ RunSkips \/ RunStarts \/ RunTerminates \/ RunKills \/ RunDone
  \/ AnalyzeStep \/ AnalysisOver

(* The terminal's ^C reaches the script and the emulator.  The directories *)
(* and files made so far stay, less the one in the making.                 *)
Interrupt ==
  /\ script # "none"
  /\ interrupts < MaxInterrupts /\ interrupts' = interrupts + 1
  /\ ScriptEnds
  /\ emulator' = AskToStop(emulator)
  /\ \/ UNCHANGED <<elf, libbitwidth>>
     \/ /\ at = "build" /\ i <= Len(BuildOrder)
        /\ elf' = [elf EXCEPT ![BuildOrder[i]] = 0]
        /\ UNCHANGED libbitwidth
     \/ /\ at = "plugin" /\ libbitwidth # plugin_src
        /\ libbitwidth' = 0
        /\ UNCHANGED elf
  /\ UNCHANGED <<sources, plugin_src, build_dir, failed, results, stamp, reports,
                 starts, edits, failures>>

-----------------------------------------------------------------------------
(* The emulator of b, asked to stop: plugin_exit opens the file, stdio     *)
(* writes it in pieces of its buffer's size, and fclose writes the rest.   *)
Writes(b, state, file) ==
  /\ emulator' = [emulator EXCEPT ![b] = state]
  /\ results' = [results EXCEPT ![b] = file]
  /\ stamp' = [stamp EXCEPT ![b] = [elf |-> elf[b], plugin |-> libbitwidth]]
  /\ UNCHANGED <<script, at, i, files, reports, tables, bounds>>

(* The file cut off within row k: the row unreadable, with fewer digits of *)
(* its count, or whole.  A buffer holds more than the first row.           *)
Shortened(row, n) == [cls |-> row.cls, bitwidth |-> row.bitwidth, count |-> n]
CutAt(rows, k) ==
  {Csv(SubSeq(rows, 1, k - 1), TRUE)} \cup
  {Csv(Append(SubSeq(rows, 1, k - 1), Shortened(rows[k], n)), FALSE) : n \in 1 .. rows[k].count}

EmulatorOpens(b) ==
  emulator[b] = "stopping" /\ Writes(b, "writing", Csv(<<>>, FALSE))

EmulatorFlushes(b) ==
  /\ emulator[b] = "writing" /\ results[b].rows = <<>>
  /\ \E k \in 2 .. Len(Rows[b]) : \E file \in CutAt(Rows[b], k) : Writes(b, "writing", file)

EmulatorCloses(b) ==
  emulator[b] = "writing" /\ Writes(b, "none", Csv(Rows[b], FALSE))

Emulator(b) == EmulatorOpens(b) \/ EmulatorFlushes(b) \/ EmulatorCloses(b)

CampaignNext == User \/ Script \/ Interrupt \/ \E b \in Name : Emulator(b)

(* A script takes its next step, which for Clone, MakePlugin and BuildOne  *)
(* means that git and the compiler return, in success or failure; nothing  *)
(* is promised of the emulator or the user.                                *)
CampaignSpec == CampaignInit /\ [][CampaignNext]_vars /\ WF_vars(Script)

-----------------------------------------------------------------------------
(* The type invariant.  An ELF is never newer than its sources, and lies   *)
(* in the directory build.                                                 *)
CampaignTypeOK ==
  /\ script \in {"none", "run_analysis", "make", "build_all", "run_all", "analyze"}
  /\ at \in {"clone", "plugin", "benchmarks", "build", "run", "sleep", "grace",
            "load", "overall", "by_class", "by_bench", "each", "ended"}
  /\ i \in Nat /\ (at = "ended") = (i = 0)
  /\ sources \in [Name -> Nat] /\ plugin_src \in Nat /\ libbitwidth \in 0 .. plugin_src
  /\ build_dir \in BOOLEAN /\ failed \subseteq Name
  /\ elf \in [Name -> Nat]
  /\ \A b \in Name : elf[b] <= sources[b] /\ (elf[b] # 0 => build_dir)
  /\ emulator \in [Name -> {"none", "running", "stopping", "writing"}]
  /\ results \in [Name -> {NoFile} \cup CsvFile]
  /\ stamp \in [Name -> [elf : Nat, plugin : Nat]]
  /\ reports \in [Name -> {"none", "OK", "EMPTY"}]
  /\ options \in Options
  /\ status \in {"none", "running", "done", "failed"}

(* build_all.sh:89-92: after a build every ELF is of the present sources,  *)
(* or the summary lists its benchmark as FAIL, whose old ELF may go on     *)
(* being measured.                                                         *)
SummaryTellsAll ==
  at = "build" /\ i > Len(BuildOrder) =>
    \A b \in Name : elf[b] # sources[b] => b \in failed

(* What run_all.sh has printed of a CSV stays true until it runs again:    *)
(* nothing writes into a file that was judged (run_all.sh:19-29).          *)
ReportStaysTrue ==
  \A b \in Name : reports[b] # "none" => reports[b] = Verdict(b)

(* The emulators run one at a time, and none is left behind to write while *)
(* the next benchmark is measured or the results are read.                 *)
NoEmulatorLeftBehind ==
  script # "none" =>
    \A b \in Name : emulator[b] # "none" => at \in {"sleep", "grace"} /\ b = Benches[i]

(* build_all.sh:40-43: no CSV that run_analysis.sh analyses is stale       *)
(* against a fix of the plugin, or measured on another ELF, as long as     *)
(* the benchmark still has an ELF.                                         *)
OnlyThisRun ==
  script = "run_analysis" /\ Analyzing =>
    \A b \in Name : results[b].present /\ elf[b] # 0 =>
      stamp[b] = [elf |-> elf[b], plugin |-> plugin_src]

(* The two analyses of run_analysis.sh are of the same measurements: the   *)
(* second is the first without the excluded benchmarks.                    *)
TargetWithinAll ==
  first # <<>> /\ Drawing => per_bench = Restrict(first, DOMAIN first \ CRYPTO_EXCLUDE)

(* Whatever the emulators do, every script comes to its end.               *)
EveryScriptEnds == script # "none" ~> script = "none"

(* run_analysis.sh:2-3: "Fetch benchmark sources if missing, build         *)
(* everything, run the bitwidth plugin over all benchmarks".               *)
BuildsEverything ==
  script = "run_analysis" /\ at = "run" =>
    \A b \in Name : sources[b] # 0 /\ b \notin failed => elf[b] = sources[b]
=============================================================================
