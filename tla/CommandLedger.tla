--------------------------- MODULE CommandLedger ---------------------------
(***************************************************************************)
(* What the durable exchange promises (ADR-007, "Durability prerequisite").*)
(*                                                                         *)
(* There is one ledger of executed commands.  It only grows, one command   *)
(* at a time; a running service's state is exactly the ledger; a failure   *)
(* stops the service and leaves at most one command in doubt; recovery     *)
(* executes that command, once, before the service runs again.             *)
(***************************************************************************)
EXTENDS Sequences

CONSTANTS Commands, None

VARIABLES
  service,   \* "absent", "running" or "stopped"
  ledger,    \* the commands executed, in order
  inDoubt,   \* the command a failure interrupted, or None
  state      \* the commands the running service has applied

vars == <<service, ledger, inDoubt, state>>

Init == service = "absent" /\ ledger = <<>> /\ inDoubt = None /\ state = <<>>

Create ==
  /\ service = "absent"
  /\ service' \in {"running", "stopped"}
  /\ UNCHANGED <<ledger, inDoubt, state>>

Execute(c) ==
  /\ service = "running"
  /\ ledger' = Append(ledger, c)
  /\ state' = ledger'
  /\ UNCHANGED <<service, inDoubt>>

\* The service stops, on its own or while it executes c: then c is executed,
\* in doubt, or forgotten.
Stop ==
  /\ service = "running"
  /\ service' = "stopped"
  /\ state' = <<>>
  /\ \/ UNCHANGED <<ledger, inDoubt>>
     \/ \E c \in Commands : inDoubt' = c /\ UNCHANGED ledger
     \/ \E c \in Commands : ledger' = Append(ledger, c) /\ UNCHANGED inDoubt

\* Recovery finishes the command in doubt.
Recover ==
  /\ service = "stopped"
  /\ ledger' = IF inDoubt = None THEN ledger ELSE Append(ledger, inDoubt)
  /\ inDoubt' = None
  /\ \/ service' = "running" /\ state' = ledger'
     \/ UNCHANGED <<service, state>>

Next == Create \/ (\E c \in Commands : Execute(c)) \/ Stop \/ Recover

Spec == Init /\ [][Next]_vars

=============================================================================
