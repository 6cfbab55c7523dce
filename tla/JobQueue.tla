------------------------------ MODULE JobQueue ------------------------------
(***************************************************************************)
(* What the driver and the engine of accelmgr promise each other: a        *)
(* bounded queue of jobs.  Jobs are executed in the order of submission,   *)
(* their results are retired in that order, each exactly once, and each    *)
(* with the fields it was submitted with.                                  *)
(***************************************************************************)
EXTENDS Integers, Sequences

CONSTANTS
  Job,       \* the jobs a client may submit
  Capacity,  \* how many the driver takes on at a time
  NBlocks    \* the engine's results, as a cycle of blocks 0 .. NBlocks-1

VARIABLES
  waiting,   \* jobs the engine has not executed
  executed,  \* executed jobs with their results, not retired
  block,     \* the next result block
  last       \* what was retired last

queueVars == <<waiting, executed, block, last>>

(* What the core learns of an executed job e: the fields it submitted, the *)
(* length and the frame they imply, and the engine's results.              *)
Delivered(e) ==
  [chan |-> e.job.chan, seq |-> e.job.seq, bytes |-> 6 + 2 * e.job.nsamp,
   frame |-> [nsamp |-> e.job.nsamp, seq |-> e.job.seq], block |-> e.block]

Nothing == [chan |-> 0, seq |-> 0, bytes |-> 0,
            frame |-> [nsamp |-> 0, seq |-> 0], block |-> 0]

Init ==
  /\ waiting = <<>> /\ executed = <<>>
  /\ block = 0
  /\ last = Nothing

Submit(j) ==
  /\ Len(waiting) + Len(executed) < Capacity
  /\ waiting' = Append(waiting, j)
  /\ UNCHANGED <<executed, block, last>>

Execute ==
  /\ waiting # <<>>
  /\ executed' = Append(executed, [job |-> Head(waiting), block |-> block])
  /\ waiting' = Tail(waiting)
  /\ block' = (block + 1) % NBlocks
  /\ UNCHANGED last

Retire ==
  /\ executed # <<>>
  /\ last' = Delivered(Head(executed))
  /\ executed' = Tail(executed)
  /\ UNCHANGED <<waiting, block>>

Next == (\E j \in Job : Submit(j)) \/ Execute \/ Retire

(* The engine keeps running and the core keeps answering its interrupts.   *)
Spec == Init /\ [][Next]_queueVars
LiveSpec == Spec /\ WF_queueVars(Execute) /\ WF_queueVars(Retire)
=============================================================================
