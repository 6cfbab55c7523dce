------------------------------- MODULE Sampler -------------------------------
(***************************************************************************)
(* The measuring part of the bitwidth plugin (plugin/bitwidth.c): which    *)
(* callbacks vcpu_tb_trans registers on a translation block, what they     *)
(* read when the block runs, and the histogram that ends up in the CSV.    *)
(*                                                                         *)
(* The emulator is the environment: it translates a block before it runs   *)
(* it, runs the callbacks of an instruction before the instruction, and    *)
(* then completes, skips or aborts the instruction.  The history variables *)
(* truth and lost record what the processor did, and what of it no plugin  *)
(* of this design could measure: they change with the instructions alone,  *)
(* whatever the callbacks do, so that the histogram can be held against    *)
(* them.                                                                   *)
(***************************************************************************)
EXTENDS Decode, FiniteSetsExt

CONSTANTS
  ByteBits,    \* bits per byte: 8 on the target, smaller in a model
  Reg,         \* the registers of the program
  BoundRegs,   \* the registers vcpu_init found a handle for (reg_valid)
  Insn,        \* encodings <<hw1, hw2, size>> of the program
  Effect,      \* what each encoding does, by the architecture
  Conditional, \* instructions inside an IT block: they may be skipped
  Trapping,    \* instructions that may raise an exception instead
  Blocks,      \* the translation blocks, as sequences of encodings
  Results,     \* the values an instruction may write
  MaxRuns      \* bound: how many blocks are run

W     == 4 * ByteBits
Word  == 0 .. 2^W - 1
Width == 0 .. W

(* Effects: a result (cls is "none" when it is not of a measured class, as *)
(* for loads and moves), a compare (rm = -1 for an immediate operand,      *)
(* shift is the left shift the processor applies to register rm), a store  *)
(* of the low bytes of rt, or anything else.                               *)
Effects ==
  [kind : {"write"}, cls : WritebackClasses \cup {"none"}, dest : Reg]
  \cup [kind : {"compare"}, cls : CompareClasses, rn : Reg, rm : Reg \cup {-1},
        imm : SUBSET (0 .. 31), shift : 0 .. 31]
  \cup [kind : {"store"}, rt : Reg, size : {1, 2, 4}]
  \cup [kind : {"none"}]

ASSUME SamplerAssumption ==
  /\ ByteBits \in Nat \ {0}
  /\ Reg \subseteq 0 .. 15
  /\ BoundRegs \subseteq Reg
  /\ Insn \subseteq Halfword \X Halfword \X {2, 4}
  /\ Effect \in [Insn -> Effects]
  /\ Blocks \subseteq Seq(Insn) \ {<<>>}
  /\ Results \subseteq Word /\ 0 \in Results
  /\ MaxRuns \in Nat

VARIABLES
  plan,     \* the callbacks registered on each translated block
  regs,     \* the guest's registers
  block,    \* the block being run, <<>> between blocks
  at,       \* the instruction of the block that is next
  todo,     \* its callbacks that have not run yet
  hist,     \* histogram[class][bitwidth]
  csv,      \* the rows written at exit
  runs,     \* blocks run so far
  truth,    \* history: results, compares and stores that really happened
  lost      \* history: those of them that are BeyondReach

vars == <<plan, regs, block, at, todo, hist, csv, runs, truth, lost>>

-----------------------------------------------------------------------------
(* Values.                                                                 *)

(* 32 - clz(v), and 0 for 0: the powers of two up to v.                    *)
effective_bits_unsigned(v) == Cardinality({i \in 0 .. W - 1 : 2^i <= v})

(* The same of |v|, v read as a two's complement number.                   *)
effective_bits_signed(v) ==
  effective_bits_unsigned(IF v >= 2^(W-1) THEN 2^W - v ELSE v)

Bit(v, i) == Field(v, i, i) = 1
WordOf(bits) == SumSet({2^i : i \in bits \cap (0 .. W - 1)})

compute_cmp_result(cls, a, b) ==
  CASE cls = "CMP" -> (a - b) % 2^W
    [] cls = "CMN" -> (a + b) % 2^W
    [] cls = "TST" -> WordOf({i \in 0 .. W - 1 : Bit(a, i) /\ Bit(b, i)})
    [] cls = "TEQ" -> WordOf({i \in 0 .. W - 1 : Bit(a, i) # Bit(b, i)})
    [] OTHER       -> 0

-----------------------------------------------------------------------------
(* What the plugin measures for one instruction.                           *)

Decoded(insn) == decode_insn(insn[1], insn[2], insn[3])

Measured(insn, kinds) ==
  IF Decoded(insn).kind \in kinds THEN Decoded(insn) ELSE NotTracked

(* Mutant: the write-back is sampled on its own callback, before it runs.  *)
PlanOwnCallback(b) ==
  [i \in 1 .. Len(b) |->
     [sample |-> Measured(b[i], {"writeback"}),
      own    |-> Measured(b[i], {"compare", "store"})]]

(* vcpu_tb_trans: on each instruction, the sample of the write-back that   *)
(* precedes it in the block (have_pending), then its own compare or store. *)
Plan(b) ==
  [i \in 1 .. Len(b) |->
     [sample |-> IF i > 1 THEN Measured(b[i-1], {"writeback"}) ELSE NotTracked,
      own    |-> Measured(b[i], {"compare", "store"})]]

Registered(p, i) ==
  (IF p[i].sample # NotTracked THEN {"sample"} ELSE {})
    \cup (IF p[i].own # NotTracked THEN {"own"} ELSE {})

(* The registers a compare or store callback has to read.                  *)
Operands(di) ==
  {di.reg_a} \cup (IF di.kind = "compare" /\ di.reg_b >= 0 THEN {di.reg_b} ELSE {})

(* The width cb_compare_or_store computes from the registers.              *)
OwnWidth(di, r) ==
  IF di.kind = "store"
  THEN effective_bits_unsigned(r[di.reg_a] % 2^(di.store_size * ByteBits))
  ELSE effective_bits_signed(
         compute_cmp_result(di.cls, r[di.reg_a],
           IF di.reg_b >= 0 THEN r[di.reg_b] ELSE WordOf(di.imm_b)))

-----------------------------------------------------------------------------
(* Counters by class and width.                                            *)

Counts == [InsnClass -> [Width -> Nat]]
Zero   == [c \in InsnClass |-> [w \in Width |-> 0]]
Bump(h, c, w) == [h EXCEPT ![c][w] = @ + 1]

(* What the decoder has to make of an instruction to measure its effect.   *)
Faithful(e) ==
  CASE e.kind = "write" /\ e.cls # "none" -> Writeback(e.cls, e.dest)
    [] e.kind = "compare" ->
         Compare(e.cls, e.rn, IF e.rm >= 0 THEN RegOperand(e.rm) ELSE ImmOperand(e.imm))
    [] e.kind = "store" -> Store(e.rt, e.size)
    [] OTHER -> NotTracked

(* The programs the plugin measures exactly: the decoder agrees with the   *)
(* architecture, no measured instruction sits in an IT block and no        *)
(* compare or store raises an exception.  A compare with a shifted operand *)
(* is not among them: the decoder drops the shift, so the result           *)
(* recomputed is not the one bitwidth.c:23-25 speaks of.                   *)
ExactProgram ==
  \A i \in Insn :
    /\ Decoded(i) = Faithful(Effect[i])
    /\ Effect[i].kind = "compare" => Effect[i].shift = 0
    /\ i \in Conditional => Decoded(i) = NotTracked
    /\ i \in Trapping => Decoded(i).kind \notin {"compare", "store"}

Untranslated == <<>>

Init ==
  /\ plan  = [b \in Blocks |-> Untranslated]
  /\ regs  = [r \in Reg |-> 0]
  /\ block = <<>> /\ at = 0 /\ todo = {}
  /\ hist  = Zero
  /\ csv   = {}
  /\ runs  = 0
  /\ truth = Zero /\ lost = Zero

Running == csv = {}
Current == block[at]

-----------------------------------------------------------------------------
(* Mutant: have_pending survives an instruction that is not tracked.       *)
TbTransKeepsPending(b) ==
  /\ Running /\ block = <<>>
  /\ plan[b] = Untranslated
  /\ plan' = [plan EXCEPT ![b] =
       [i \in 1 .. Len(b) |->
          [sample |-> IF i > 2 /\ Measured(b[i-1], {"writeback"}) = NotTracked
                      THEN Measured(b[i-2], {"writeback"}) ELSE Plan(b)[i].sample,
           own    |-> Plan(b)[i].own]]]
  /\ UNCHANGED <<regs, block, at, todo, hist, csv, runs, truth, lost>>

(* The emulator meets a block it has not translated yet.                   *)
vcpu_tb_trans(b) ==
  /\ Running /\ block = <<>>
  /\ plan[b] = Untranslated
  /\ plan' = [plan EXCEPT ![b] = Plan(b)]
  /\ UNCHANGED <<regs, block, at, todo, hist, csv, runs, truth, lost>>

EnterBlock(b) ==
  /\ Running /\ block = <<>>
  /\ runs < MaxRuns
  /\ plan[b] # Untranslated
  /\ block' = b
  /\ at' = 1
  /\ todo' = Registered(plan[b], 1)
  /\ runs' = runs + 1
  /\ UNCHANGED <<plan, regs, hist, csv, truth, lost>>

(* Mutant: NULL is taken for "no such register", and r0's handle is NULL.  *)
SampleWithoutR0 ==
  /\ "sample" \in todo
  /\ todo' = todo \ {"sample"}
  /\ LET pw == plan[block][at].sample
         w  == effective_bits_signed(regs[pw.reg_a])
     IN hist' = IF pw.reg_a \in BoundRegs \ {0} THEN Bump(hist, pw.cls, w) ELSE hist
  /\ UNCHANGED <<plan, regs, block, at, csv, runs, truth, lost>>

(* The callback a write-back left on the instruction after it.             *)
cb_sample_writeback ==
  /\ "sample" \in todo
  /\ todo' = todo \ {"sample"}
  /\ LET pw == plan[block][at].sample
         w  == effective_bits_signed(regs[pw.reg_a])
     IN hist' = IF pw.reg_a \in BoundRegs THEN Bump(hist, pw.cls, w) ELSE hist
  /\ UNCHANGED <<plan, regs, block, at, csv, runs, truth, lost>>

(* The callback of a compare or store on itself, registered second.        *)
cb_compare_or_store ==
  /\ "own" \in todo /\ "sample" \notin todo
  /\ todo' = todo \ {"own"}
  /\ LET di == plan[block][at].own
     IN hist' = IF Operands(di) \subseteq BoundRegs
                THEN Bump(hist, di.cls, OwnWidth(di, regs))
                ELSE hist
  /\ UNCHANGED <<plan, regs, block, at, csv, runs, truth, lost>>

-----------------------------------------------------------------------------
(* The emulator executes the instruction after its callbacks.              *)

ReadyToExecute == block # <<>> /\ todo = {}

GoOn ==
  IF at < Len(block)
  THEN /\ at' = at + 1
       /\ todo' = Registered(plan[block], at + 1)
       /\ UNCHANGED block
  ELSE block' = <<>> /\ at' = 0 /\ todo' = {}

(* The result of a compare as the processor computes it: the second        *)
(* register operand goes through the shifter first.                        *)
Shifted(v, k) == IF k = 0 THEN v ELSE (v * 2^k) % 2^W

ArchCompare(e) ==
  compute_cmp_result(e.cls, regs[e.rn],
    IF e.rm >= 0 THEN Shifted(regs[e.rm], e.shift) ELSE WordOf(e.imm))

(* What bitwidth.c gives up by its own account: a write-back that ends its *)
(* block leaves no instruction to sample it on (bitwidth.c:18-21), and a   *)
(* register without a handle cannot be read.                               *)
BeyondReach(e) ==
  \/ e.kind = "write" /\ (at = Len(block) \/ e.dest \notin BoundRegs)
  \/ e.kind = "compare" /\ ~({e.rn, e.rm} \subseteq BoundRegs \cup {-1})
  \/ e.kind = "store" /\ e.rt \notin BoundRegs

CompleteWrite(v) ==
  LET e == Effect[Current]
      w == effective_bits_signed(v)
  IN /\ ReadyToExecute
     /\ e.kind = "write"
     /\ regs' = [regs EXCEPT ![e.dest] = v]
     /\ truth' = IF e.cls # "none" THEN Bump(truth, e.cls, w) ELSE truth
     /\ lost' = IF e.cls # "none" /\ BeyondReach(e) THEN Bump(lost, e.cls, w) ELSE lost
     /\ GoOn
     /\ UNCHANGED <<plan, hist, csv, runs>>

BumpDone(h, e) ==
  CASE e.kind = "compare" -> Bump(h, e.cls, effective_bits_signed(ArchCompare(e)))
    [] e.kind = "store"   -> Bump(h, "STR", effective_bits_unsigned(
                                              regs[e.rt] % 2^(e.size * ByteBits)))
    [] OTHER              -> h

CompleteOther ==
  LET e == Effect[Current]
  IN /\ ReadyToExecute
     /\ e.kind # "write"
     /\ truth' = BumpDone(truth, e)
     /\ lost' = IF BeyondReach(e) THEN BumpDone(lost, e) ELSE lost
     /\ GoOn
     /\ UNCHANGED <<plan, regs, hist, csv, runs>>

(* The condition of an instruction in an IT block fails: it has no effect, *)
(* but its callbacks have run.                                             *)
Skip ==
  /\ ReadyToExecute
  /\ Current \in Conditional
  /\ GoOn
  /\ UNCHANGED <<plan, regs, hist, csv, runs, truth, lost>>

(* An exception ends the block.                                            *)
Trap ==
  /\ ReadyToExecute
  /\ Current \in Trapping
  /\ block' = <<>> /\ at' = 0 /\ todo' = {}
  /\ UNCHANGED <<plan, regs, hist, csv, runs, truth, lost>>

(* dump_csv, called when the emulator terminates: one row for each cell    *)
(* that is not zero, below the header.  The processor has stopped between  *)
(* two blocks.                                                             *)
Header == <<"class", "bitwidth", "count">>

(* Mutant: the loop over the columns stops before the last one.            *)
ExitDropsLastColumn ==
  /\ Running /\ block = <<>>
  /\ csv' = {Header} \cup
       {row \in {<<c, w, hist[c][w]>> : c \in InsnClass, w \in 0 .. W - 1} : row[3] > 0}
  /\ UNCHANGED <<plan, regs, block, at, todo, hist, runs, truth, lost>>

plugin_exit ==
  /\ Running /\ block = <<>>
  /\ csv' = {Header} \cup
       {row \in {<<c, w, hist[c][w]>> : c \in InsnClass, w \in Width} : row[3] > 0}
  /\ UNCHANGED <<plan, regs, block, at, todo, hist, runs, truth, lost>>

Next ==
  \/ \E b \in Blocks : vcpu_tb_trans(b)
  \/ \E b \in Blocks : EnterBlock(b)
  \/ cb_sample_writeback
  \/ cb_compare_or_store
  \/ \E v \in Results : CompleteWrite(v)
  \/ CompleteOther
  \/ Skip
  \/ Trap
  \/ plugin_exit

Spec == Init /\ [][Next]_vars

-----------------------------------------------------------------------------
PlanOK ==
  /\ DOMAIN plan = Blocks
  /\ \A b \in Blocks : plan[b] \in {Untranslated, Plan(b)}

CountsOK == hist \in Counts /\ truth \in Counts /\ lost \in Counts

PositionOK ==
  IF block = <<>>
  THEN todo = {}
  ELSE /\ block \in Blocks
       /\ at \in 1 .. Len(block)
       /\ plan[block] = Plan(block)
       /\ todo \subseteq Registered(Plan(block), at)

TypeOK ==
  /\ PlanOK /\ CountsOK /\ PositionOK
  /\ regs \in [Reg -> Word]
  /\ runs \in 0 .. MaxRuns

-----------------------------------------------------------------------------
(* The result of the preceding instruction, while no callback has counted  *)
(* it yet: the deferral that the header of bitwidth.c describes.           *)
Owed(c, w) ==
  IF /\ "sample" \in todo
     /\ plan[block][at].sample.reg_a \in BoundRegs
     /\ plan[block][at].sample.cls = c
     /\ effective_bits_signed(regs[plan[block][at].sample.reg_a]) = w
  THEN 1 ELSE 0

(* A compare or store that its own callback has counted before it ran.     *)
Ahead(c, w) ==
  IF /\ block # <<>>
     /\ plan[block][at].own # NotTracked
     /\ "own" \notin todo
     /\ Operands(plan[block][at].own) \subseteq BoundRegs
     /\ plan[block][at].own.cls = c
     /\ OwnWidth(plan[block][at].own, regs) = w
  THEN 1 ELSE 0

(* Every result the processor produced is counted once, under its class    *)
(* and with its own width, unless it ended its block or the plugin has no  *)
(* handle of a register; nothing else is counted ("Within a TB this is     *)
(* exact", bitwidth.c:17).  No early return of the callbacks and no path   *)
(* of vcpu_tb_trans drops or repeats a sample otherwise.                   *)
Accounting ==
  \A c \in InsnClass, w \in Width :
    truth[c][w] + Ahead(c, w) = hist[c][w] + lost[c][w] + Owed(c, w)

(* The file that analyze.py reads is the processor's history less what is  *)
(* BeyondReach: no class, width or count is missing.                       *)
CsvMatchesHistory ==
  ~Running =>
    \A c \in InsnClass, w \in Width :
      LET n == truth[c][w] - lost[c][w]
      IN IF n > 0 THEN <<c, w, n>> \in csv
                  ELSE \A k \in 1 .. MaxRuns : <<c, w, k>> \notin csv

(* bitwidth.c:6-7: for write-back classes the value measured is the result *)
(* written back.  Nothing looks at the condition of an IT block, so a      *)
(* skipped instruction is counted with whatever its register held.         *)
OnlyResultsMeasured ==
  \A c \in WritebackClasses, w \in Width : hist[c][w] <= truth[c][w]
=============================================================================
