------------------------------ MODULE MCPlugin ------------------------------
(* The parts of the plugin that need no running program: vcpu_init binds   *)
(* the registers, whatever the order of the emulator's list and the        *)
(* handles, and from one of the outcomes, the handles in the order of the  *)
(* list, any instruction is decoded.  The two parts share no variable.     *)
EXTENDS MCDecode, Registers, TLC

(* Low, high and named registers, an r-name that is no number, a number    *)
(* past the general registers and a register that is none of them.         *)
MCListed ==
  {Numbered(0), Numbered(12), Named("sp"), Named("pc"),
   OtherR("rflags"), Numbered(16), Named("xpsr")}

InListOrder ==
  Numbered(0) :> 0 @@ Numbered(12) :> 1 @@ Named("sp") :> 2 @@ Named("pc") :> 3 @@
  Numbered(16) :> 4 @@ OtherR("rflags") :> 5 @@ Named("xpsr") :> 6

PluginInit == BindingInit /\ Init
PluginNext ==
  \/ BindingNext /\ UNCHANGED vars
  \/ handle = InListOrder /\ Next /\ UNCHANGED bindingVars

PluginSpec == PluginInit /\ [][PluginNext]_<<bindingVars, vars>>
=============================================================================
