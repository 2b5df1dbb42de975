------------------------------ MODULE MCKernel ------------------------------
(* The task table of tasks.c, with the ranks of its order bytes; tasks that  *)
(* look alike to the kernel are represented by one of them.                  *)
EXTENDS Kernel, TLC

CONSTANTS console, timed, metering, keyboard, protocol, comm

\* tasks in table order, and the order bytes of task_tables[]
Table == <<console, timed, metering, keyboard, protocol, comm>>
Bytes == [init  |-> <<254, 2, 1, 8, 9, 10>>,
          exit  |-> <<254, 2, 1, 4, 16, 17>>,
          reset |-> <<254, 2, 2, 2, 2, 2>>,
          loop  |-> <<254, 254, 254, 254, 254, 254>>]
MCOrder ==
  [p \in Passes |-> [t \in Tasks |->
     LET i == CHOOSE i \in DOMAIN Table : Table[i] = t IN Bytes[p][i] * 16 + i]]

MCUpAt ==
  console :> RunLevels @@ keyboard :> RunLevels @@ metering :> RunLevels
    @@ protocol :> {"RUN", "WAKEUP"} @@ timed :> {"RUN"} @@ comm :> {"RUN"}
MCRestrictedUpAt == [t \in Tasks |-> MCUpAt[t]]
MCClients == [u \in LazyAlloc |-> {comm}]
=============================================================================
