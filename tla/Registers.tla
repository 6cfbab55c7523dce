------------------------------ MODULE Registers ------------------------------
(***************************************************************************)
(* How the bitwidth plugin finds the guest's registers                     *)
(* (plugin/bitwidth.c, vcpu_init): it walks the emulator's list of         *)
(* register descriptors and binds the general registers by name.  The      *)
(* emulator chooses the order of the list and the handles, which are small *)
(* integers cast to pointers, 0 (NULL) among them.                         *)
(*                                                                         *)
(* A name is what parse_rn and the comparisons of vcpu_init can tell of    *)
(* it: "r" with a number, "r" with anything else, or another word.         *)
(***************************************************************************)
EXTENDS Integers, FiniteSets

CONSTANTS
  Listed,       \* the emulator's registers: a set of names
  NUM_ARM_REGS  \* general registers of the target: 16

Numbered(n)  == [form |-> "rn", number |-> n, word |-> ""]
OtherR(w)    == [form |-> "r", number |-> 0, word |-> w]
Named(w)     == [form |-> "word", number |-> 0, word |-> w]

ASSUME RegistersAssumption ==
  /\ NUM_ARM_REGS = 16
  /\ IsFiniteSet(Listed)
  /\ \A name \in Listed : \/ name = Numbered(name.number) /\ name.number \in Nat
                          \/ name = OtherR(name.word)
                          \/ name = Named(name.word)

Register == 0 .. NUM_ARM_REGS - 1
Handle   == 0 .. Cardinality(Listed) - 1

VARIABLES
  unseen,       \* descriptors the loop has not come to
  handle,       \* the emulator's handle of each register it has listed
  reg_handles,  \* the handle bound to each general register
  reg_valid     \* whether one is

bindingVars == <<unseen, handle, reg_handles, reg_valid>>

NULL == 0

BindingInit ==
  /\ unseen = Listed
  /\ handle = [name \in {} |-> NULL]
  /\ reg_handles = [r \in Register |-> NULL]
  /\ reg_valid = [r \in Register |-> FALSE]

-----------------------------------------------------------------------------
Unbound == -1

(* Mutant: atoi, which answers 0 for a name without digits.                *)
parse_rn_atoi(name) == IF name.form \in {"rn", "r"} THEN name.number ELSE Unbound

(* The number of an r-name, or nothing when it is not one.                 *)
parse_rn(name) == IF name.form = "rn" THEN name.number ELSE Unbound

(* The index vcpu_init binds a name to: it may be out of range.            *)
IndexOf(name) ==
  IF parse_rn(name) # Unbound   THEN parse_rn(name)
  ELSE IF name = Named("sp") THEN 13
  ELSE IF name = Named("lr") THEN 14
  ELSE IF name = Named("pc") THEN 15
  ELSE Unbound

bind_reg(idx, h) ==
  IF idx \in Register
  THEN /\ reg_handles' = [reg_handles EXCEPT ![idx] = h]
       /\ reg_valid' = [reg_valid EXCEPT ![idx] = TRUE]
  ELSE UNCHANGED <<reg_handles, reg_valid>>

(* One iteration of vcpu_init, with the next descriptor.                   *)
BindNext(name) ==
  /\ name \in unseen
  /\ unseen' = unseen \ {name}
  /\ \E h \in Handle :
       /\ \A other \in DOMAIN handle : handle[other] # h
       /\ handle' = [x \in DOMAIN handle \cup {name} |-> IF x = name THEN h ELSE handle[x]]
       /\ bind_reg(IndexOf(name), h)

BindingNext == \E name \in Listed : BindNext(name)

BindingSpec == BindingInit /\ [][BindingNext]_bindingVars

-----------------------------------------------------------------------------
(* Mutant: NULL taken for "no such register".                              *)
ReadableByHandle(r) == r \in Register /\ reg_handles[r] # NULL

(* read_reg: the registers whose value it returns.                         *)
Readable(r) == r \in Register /\ reg_valid[r]

(* The names a general register goes by in the emulator's lists.           *)
NamesOf(r) ==
  {Numbered(r)} \cup (IF r = 13 THEN {Named("sp")}
                      ELSE IF r = 14 THEN {Named("lr")}
                      ELSE IF r = 15 THEN {Named("pc")}
                      ELSE {})

(* A register number of an instruction reads the register it names and no  *)
(* other, in whatever order the emulator lists them and whatever else it   *)
(* lists ("atoi() would quietly answer 0 for any other r-name and bind it  *)
(* over r0", bitwidth.c:229-230).                                          *)
ReadsItsOwnRegister ==
  \A r \in Register : Readable(r) =>
    \E name \in NamesOf(r) \cap DOMAIN handle : reg_handles[r] = handle[name]

(* Every general register of the list can be read once vcpu_init is done,  *)
(* the one whose handle is NULL included (bitwidth.c:60-64): no sample is  *)
(* silently dropped.                                                       *)
EveryRegisterReadable ==
  unseen = {} => \A r \in Register : NamesOf(r) \cap Listed # {} => Readable(r)
=============================================================================
