----------------------------- MODULE HostCheck -----------------------------
(***************************************************************************)
(* custom/check.sh: every benchmark of custom/ is compiled for the host    *)
(* with host_test.c and run, in the order of the directory, and the exit   *)
(* status of the script tells whether all of them were built and passed.   *)
(*                                                                         *)
(* A program runs to its end before the next is built; the variables of    *)
(* Pid and of AccelBench (accelmgr) are their memories.                    *)
(***************************************************************************)
EXTENDS AccelBench, Pid

VARIABLES
  script,   \* what check.sh is doing
  rc,       \* its exit status
  built     \* the programs gcc has built

(* The constants of accelmgr.c.                                            *)
ASSUME HostCheckAssumption == BenchConstants /\ Provisioned

vars == <<pidVars, benchVars, script, rc, built>>

CheckInit ==
  /\ PidInit /\ BenchInit
  /\ script = "build accelmgr"
  /\ rc = 0
  /\ built = {}

-----------------------------------------------------------------------------
(* gcc, of one program: continue with the next one if it fails.            *)
Build(name, after) ==
  /\ script = "build " \o name
  /\ \/ script' = "run " \o name /\ built' = built \cup {name} /\ UNCHANGED rc
     \/ script' = after /\ rc' = 1 /\ UNCHANGED built
  /\ UNCHANGED <<pidVars, benchVars>>

BuildAccelmgr == Build("accelmgr", "build pidctl")
BuildPidctl   == Build("pidctl", "exit")

(* "$bin" || rc=1                                                          *)
Exits(status, after) ==
  /\ script' = after
  /\ rc' = IF status = 0 THEN rc ELSE 1
  /\ UNCHANGED <<pidVars, benchVars, built>>

RunAccelmgr ==
  /\ script = "run accelmgr"
  /\ BenchNext
  /\ UNCHANGED <<pidVars, script, rc, built>>
AccelmgrExits ==
  /\ script = "run accelmgr" /\ accel_pc = "exit"
  /\ Exits(AccelExitStatus, "build pidctl")

RunPidctl ==
  /\ script = "run pidctl"
  /\ PidNext
  /\ UNCHANGED <<benchVars, script, rc, built>>
PidctlExits ==
  /\ script = "run pidctl" /\ pc = "exit"
  /\ Exits(ExitStatus, "exit")

CheckNext ==
  \/ BuildAccelmgr \/ RunAccelmgr \/ AccelmgrExits
  \/ BuildPidctl \/ RunPidctl \/ PidctlExits

(* One sequential program after the other: the next step is taken.         *)
CheckSpec == CheckInit /\ [][CheckNext]_vars /\ WF_vars(CheckNext)

-----------------------------------------------------------------------------
(* harness.h: bench_init resets all state, so that both runs of a program  *)
(* return the checksum bench_expected names; check.sh then succeeds, and   *)
(* only then: a program that was not built does not pass for one that ran. *)
CheckTellsResult ==
  script = "exit" => (rc = 0) = (built = {"accelmgr", "pidctl"})

(* Every program ends, and so does the script: no wait loop spins for ever.*)
CheckEnds == <>(script = "exit")
=============================================================================
