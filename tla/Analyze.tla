------------------------------- MODULE Analyze -------------------------------
(***************************************************************************)
(* The analysis script analysis/analyze.py: it loads the CSV files of a    *)
(* directory, less the excluded ones, adds them up by class and width and  *)
(* draws charts.  A Python exception ends it, so that the charts after     *)
(* that point, and whatever the caller had planned next, are missing.      *)
(*                                                                         *)
(* A loop is a place with the counter i, one action per iteration.  The    *)
(* arithmetic is exact here; the program's percentages are floats.         *)
(***************************************************************************)
EXTENDS Integers, Sequences, FiniteSets, Functions, FiniteSetsExt

CONSTANTS
  Benches,        \* the benchmarks, in the order of their names
  Classes,        \* instruction classes
  MAX_BITS,
  CRYPTO_EXCLUDE, \* names that -c excludes
  LettersOf,      \* the characters of a name, as strings of length one
  Rows            \* the rows of the CSV a benchmark's full run writes, one at least

Name  == Range(Benches)
Width == 0 .. MAX_BITS
Row   == [cls : Classes, bitwidth : Width, count : Nat \ {0}]

ASSUME AnalyzeAssumption ==
  /\ Benches \in Seq(STRING) /\ IsInjective(Benches) /\ Benches # <<>>
  /\ IsFiniteSet(Classes) /\ MAX_BITS \in Nat
  /\ \A b \in Name : LettersOf[b] \cap Name = {}
  /\ \A b \in Name : Rows[b] \in Seq(Row) \ {<<>>}

VARIABLES
  results,    \* the CSV of each benchmark, or NoFile
  options,    \* the command line: -c, -e and -n
  at, i,      \* the place in the script, and the counter of its loop
  per_bench,  \* the table of each benchmark loaded so far
  combined,   \* their sum
  status      \* how the last analysis ended

analyzeVars == <<options, at, i, per_bench, combined, status>>

(* A file: its rows, and whether a line that no longer parses follows.     *)
NoFile == [present |-> FALSE]
Csv(rows, torn) == [present |-> TRUE, rows |-> rows, torn |-> torn]
CsvFile == [present : {TRUE}, rows : Seq(Row), torn : BOOLEAN]

ZeroTable == [c \in Classes |-> [w \in Width |-> 0]]

(* Mutant: a class seen before is replaced, not added to.                  *)
PlusReplacing(t, u) == [c \in Classes |-> IF u[c] = ZeroTable[c] THEN t[c] ELSE u[c]]

Plus(t, u) == [c \in Classes |-> [w \in Width |-> t[c][w] + u[c][w]]]
TableOf(rows) ==
  [c \in Classes |-> [w \in Width |->
     SumFunctionOnSet([k \in DOMAIN rows |-> rows[k].count],
       {k \in DOMAIN rows : rows[k].cls = c /\ rows[k].bitwidth = w})]]

Total(bw_counts)    == SumFunction(bw_counts)
class_totals(table) == [c \in Classes |-> Total(table[c])]
AllClasses(table)   == [w \in Width |-> SumFunction([c \in Classes |-> table[c][w]])]

(* percentile_bits: acc after the count of width w has been added.         *)
RunningSum(bw_counts) ==
  LET acc[w \in Width] == bw_counts[w] + IF w = 0 THEN 0 ELSE acc[w - 1]
  IN acc

NoSample == -1    \* None

(* Mutant: the sum is tested before the count of the width is added.       *)
percentile_tested_first(bw_counts, pct) ==
  LET acc == RunningSum(bw_counts)
      from[w \in Width] ==
        IF (acc[w] - bw_counts[w]) * 100 >= Total(bw_counts) * pct THEN w
        ELSE IF w < MAX_BITS THEN from[w + 1] ELSE MAX_BITS
  IN IF Total(bw_counts) = 0 THEN NoSample ELSE from[0]

(* The loop over the widths: from[w] is what it returns when it gets to w. *)
percentile_bits(bw_counts, pct) ==
  LET acc == RunningSum(bw_counts)
      from[w \in Width] ==
        IF acc[w] * 100 >= Total(bw_counts) * pct THEN w
        ELSE IF w < MAX_BITS THEN from[w + 1] ELSE MAX_BITS
  IN IF Total(bw_counts) = 0 THEN NoSample ELSE from[0]

-----------------------------------------------------------------------------
(* main: the list of exclusions.  -e is a string, and extending a list by  *)
(* a string adds its characters.                                           *)
NoName == "none"
exclude ==
  (IF options.crypto THEN CRYPTO_EXCLUDE ELSE {})
    \cup (IF options.name # NoName THEN LettersOf[options.name] ELSE {})

AnalysisBegins(opts) ==
  /\ options' = opts
  /\ at' = "load" /\ i' = 1
  /\ per_bench' = [b \in {} |-> ZeroTable]
  /\ combined' = ZeroTable
  /\ status' = "running"

Ends(how) ==
  /\ at' = "ended" /\ i' = 0
  /\ status' = how
  /\ UNCHANGED <<options, per_bench, combined>>

GoesTo(place) ==
  /\ at' = place /\ i' = 1
  /\ UNCHANGED <<options, per_bench, combined, status>>

Skip == i' = i + 1 /\ UNCHANGED <<options, at, per_bench, combined, status>>

(* A line without a readable count raises.                                 *)
Read(b) ==
  IF results[b].torn THEN Ends("failed")
  ELSE LET table == TableOf(results[b].rows) IN
       /\ per_bench' = [x \in DOMAIN per_bench \cup {b} |-> IF x = b THEN table ELSE per_bench[x]]
       /\ combined' = Plus(combined, table)
       /\ i' = i + 1
       /\ UNCHANGED <<options, at, status>>

(* Mutant: the list of exclusions is not looked at.                        *)
LoadFileOfAnyone ==
  /\ at = "load" /\ i <= Len(Benches)
  /\ IF results[Benches[i]].present THEN Read(Benches[i]) ELSE Skip

(* load_results, one file.                                                 *)
LoadFile ==
  /\ at = "load" /\ i <= Len(Benches)
  /\ IF results[Benches[i]].present /\ Benches[i] \notin exclude
     THEN Read(Benches[i]) ELSE Skip

(* No CSV file at all is an error of its own.                              *)
Loaded ==
  /\ at = "load" /\ i > Len(Benches)
  /\ IF per_bench = <<>> THEN Ends("failed") ELSE GoesTo("overall")

(* plot_cumulative_overall: without a sample no width reaches 50%, and     *)
(* next() raises.                                                          *)
PlotOverall ==
  /\ at = "overall"
  /\ IF Total(AllClasses(combined)) = 0 THEN Ends("failed") ELSE GoesTo("by_class")

(* plot_class_histograms: a panel for each distribution with a sample.     *)
(* With one panel only, the whole row of axes is taken for one, and ax.bar *)
(* raises; with none no chart is drawn.                                    *)
Panels(distributions) == Cardinality({x \in DOMAIN distributions : Total(distributions[x]) > 0})

(* Mutant: the axes of several rows left unflattened too.                  *)
DrawGridUnflattened(distributions, next) ==
  IF Panels(distributions) \in 1 .. 2 THEN Ends("failed") ELSE next

DrawGrid(distributions, next) ==
  IF Panels(distributions) = 1 THEN Ends("failed") ELSE next

PlotByClass ==
  /\ at = "by_class"
  /\ DrawGrid(combined, GoesTo("by_bench"))

aggregate_by_benchmark == [b \in DOMAIN per_bench |-> AllClasses(per_bench[b])]

PlotByBench ==
  /\ at = "by_bench"
  /\ DrawGrid(aggregate_by_benchmark,
              IF options.no_by_benchmark THEN Ends("done") ELSE GoesTo("each"))

(* One grid for each benchmark.                                            *)
PlotEach ==
  /\ at = "each" /\ i <= Len(Benches)
  /\ IF Benches[i] \in DOMAIN per_bench
     THEN DrawGrid(per_bench[Benches[i]], Skip)
     ELSE Skip

ChartsWritten == at = "each" /\ i > Len(Benches) /\ Ends("done")

AnalyzeNext ==
  \/ LoadFile \/ Loaded
  \/ PlotOverall \/ PlotByClass \/ PlotByBench \/ PlotEach \/ ChartsWritten

Analyzing == at \in {"load", "overall", "by_class", "by_bench", "each"}
Drawing   == Analyzing /\ at # "load"

-----------------------------------------------------------------------------
(* What is drawn is the sum of the loaded benchmarks, and these are the    *)
(* files there are less those in the list of exclusions (load_results,     *)
(* 64-71).  What that list holds is ExcludedLeftOut's business.            *)
CombinedIsSum ==
  Drawing =>
    /\ DOMAIN per_bench = {b \in Name \ exclude : results[b].present}
    /\ \A c \in Classes, w \in Width :
         combined[c][w] = SumFunction([b \in DOMAIN per_bench |-> per_bench[b][c][w]])

(* README.md:109-110: -e gives the name of a benchmark whose results are   *)
(* left out of the summary.  The list main makes of it holds the letters   *)
(* of the name (analyze.py:343), which no file has for a name.             *)
ExcludedLeftOut ==
  Drawing => options.name \notin DOMAIN per_bench

(* analyze.py:95: the percentiles of the summary are the smallest width W  *)
(* that pct% of the samples fit in.                                        *)
PercentilesAsDocumented ==
  Drawing =>
    \A c \in Classes, pct \in {50, 90, 99} :
      LET W == percentile_bits(combined[c], pct)
          samples == {b \in Width : combined[c][b] > 0}
          Share(w) == 100 * SumFunctionOnSet(combined[c], {b \in samples : b <= w})
      IN samples # {} =>
           /\ Share(W) >= pct * Total(combined[c])
           /\ W > 0 => Share(W - 1) < pct * Total(combined[c])

(* An analysis of two or more benchmarks that all have samples of two or   *)
(* more classes, and of files without a torn line, delivers its charts.    *)
DeliversForSeveral ==
  status = "failed" =>
    \/ Cardinality(DOMAIN per_bench) < 2
    \/ \E b \in DOMAIN per_bench :
         Cardinality({c \in Classes : class_totals(per_bench[b])[c] > 0}) < 2
    \/ \E b \in Name : results[b].present /\ results[b].torn
=============================================================================
