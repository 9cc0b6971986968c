---------------------------- MODULE MCThreading ----------------------------
(* Threading for TLC. *)
EXTENDS Threading, TLC

CONSTANTS t1, t2

MCConds == {"started", "block"} \X Threads
MCLocks == MCConds \cup {Limbo}
MCLockOf == [c \in MCConds |-> c]

MCDaemons == {{}, {t1}}
MCMaxCalls == [t \in Threads |-> IF t = t2 THEN 1 ELSE 2]
=============================================================================
