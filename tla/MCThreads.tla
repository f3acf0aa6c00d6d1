----------------------------- MODULE MCThreads -----------------------------
(* The registrations of the program, all on the main thread: CANScopeProcess *)
(* and the handle of a device, and besides them an observer of everything.   *)
EXTENDS Threads

Reg(thread, observer, type, source) ==
  [thread |-> thread, observer |-> observer, type |-> type, source |-> source]
MCRegistrations ==
  {Reg(UI, "process", "destroy", ALL), Reg(UI, "handle", "destroy", "device"),
   Reg(UI, "log", ALL, ALL), Reg(UI, "log", "destroy", "device")}
=============================================================================
