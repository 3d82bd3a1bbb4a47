----------------------------- MODULE Supervisor -----------------------------
(* run_measurement_v2 of src/python/pmm_phase7_measurement.py: it starts a     *)
(* command in a process group of its own, samples it, stops it for the         *)
(* operator, a budget or a failure, and publishes a report.  The group, the    *)
(* process table and the operator are external; a wait is a countdown of       *)
(* ticks.  Controls and paths are data: a refused configuration is a set of    *)
(* defects, an exceeded budget a flag.  The wrapper is run by the main thread, *)
(* the only one that installs its handler.                                     *)
EXTENDS Integers, FiniteSets, Sequences

CONSTANTS
  Helpers,    \* descendants the command may fork
  Leader,     \* the direct child
  None,
  SigintGrace, SigtermGrace, QuiescenceGrace,  \* MeasurementControls, in ticks
  Dispositions, \* the sets of signals a member may end for
  ExitCodes,  \* the statuses the command may exit with
  MaxFaults,  \* bound: samples, signals and streams that fail
  MaxWrites   \* bound: budgets exceeded and identity files rewritten

Members == Helpers \union {Leader}
Signals == {"SIGINT", "SIGTERM", "SIGKILL"}
Budgets == {"raw", "aggregate", "stream"}
Defects == {"MeasurementOutputExists", "MeasurementRootOverlap", "MeasurementRawRootNotEmpty",
            "MeasurementFreeSpaceInsufficient", "MeasurementAggregateBudgetExceeded"}

ASSUME SupervisorAssumption ==
  /\ IsFiniteSet(Helpers) /\ Leader \notin Helpers
  /\ SigintGrace \in Nat \ {0} /\ SigtermGrace \in Nat \ {0} /\ QuiescenceGrace \in Nat \ {0}
  /\ ExitCodes \subseteq 0..255
  /\ \A d \in Dispositions : "SIGKILL" \in d /\ d \subseteq Signals
  /\ MaxFaults \in Nat /\ MaxWrites \in Nat
  /\ None \notin Signals \union {"itself", "MeasurementSampler",
                "MeasurementTeardownIncomplete", "MeasurementSignalPermissionDenied"}

VARIABLES
  member,   \* external: unborn, live, zombie (the leader only) or gone
  endedBy,  \* external: what ended each member
  heeds,    \* external: the signals each member ends for, SIGKILL among them
  hit,      \* external: the signals that reached each member and that it heeds
  code,     \* external: the leader's exit status
  over,     \* external: the budgets exceeded so far
  changed,  \* external: an identity file was rewritten
  faults,   \* calls that failed so far
  pc,
  left,     \* ticks to the deadline of the current wait
  handler,  \* was handle_sigint installed?
  requested, expedite,   \* operator_requested, expedite_requested
  late,     \* history: was it only requested after the last look at it?
  escaped,  \* has a KeyboardInterrupt left the teardown?
  samples,  \* successful_samples, up to 1
  reason,   \* termination_reason
  error,    \* is there a sampling_error?
  state,    \* shutdown_state
  result    \* MeasurementResult, with the finalization its report claims

group == <<member, endedBy, heeds, hit, code>>
external == <<group, over, changed>>
operator == <<handler, requested, expedite, late, escaped>>
report == <<samples, reason, error>>
vars == <<external, faults, pc, left, operator, report, state, result>>

\* _ShutdownState; a signal is "attempted" whatever killpg answered.
NoState ==
  [attempted |-> {}, expiries |-> {}, failure |-> None, quiescent |-> FALSE, reaped |-> FALSE]

Live == {m \in Members : member[m] = "live"}

Init ==
  /\ member = [m \in Members |-> "unborn"]
  /\ endedBy = [m \in Members |-> None]
  /\ heeds \in [Members -> Dispositions]
  /\ hit = [m \in Members |-> {}]
  /\ code = None /\ over = {} /\ changed = FALSE /\ faults = 0
  /\ pc = "preflight" /\ left = 0 /\ handler = FALSE
  /\ requested = FALSE /\ expedite = FALSE /\ late = FALSE /\ escaped = FALSE
  /\ samples = 0 /\ reason = "completed" /\ error = FALSE
  /\ state = NoState
  /\ result = None

-----------------------------------------------------------------------------
(* The group.                                                                  *)

Ends(m, cause) ==
  /\ member' = [member EXCEPT ![m] = IF m = Leader THEN "zombie" ELSE "gone"]
  /\ endedBy' = [endedBy EXCEPT ![m] = cause]
  /\ hit' = [hit EXCEPT ![m] = {}]
  /\ IF m # Leader THEN UNCHANGED code
     ELSE code' \in (IF cause = "itself" THEN ExitCodes ELSE {-1})

\* A member that SIGKILL has reached forks no more.
Fork(m) ==
  /\ member[m] = "unborn" /\ \E parent \in Live : "SIGKILL" \notin hit[parent]
  /\ member' = [member EXCEPT ![m] = "live"]
  /\ UNCHANGED <<endedBy, hit, code>>

\* A member ends by itself, or for a signal that reached it.
Exits(m) ==
  /\ member[m] = "live"
  /\ \E cause \in {"itself"} \union hit[m] : Ends(m, cause)

Killed(m) == member[m] = "live" /\ "SIGKILL" \in hit[m] /\ Ends(m, "SIGKILL")

\* What the kernel and the members do leaves the wrapper where it is.
Aside == UNCHANGED <<heeds, over, changed, faults, pc, left, operator, report, state, result>>

Group == result = None /\ (\E m \in Members : Fork(m) \/ Exits(m)) /\ Aside

\* The kernel ends what SIGKILL has reached.
Kernel == result = None /\ (\E m \in Members : Killed(m)) /\ Aside

\* While it runs, the group fills its budgets and may rewrite an identity file.  A
\* later write is first read with the last of these, by the final inventory.
Writes ==
  /\ pc = "running" /\ Live # {}
  /\ Cardinality(over) + (IF changed THEN 1 ELSE 0) < MaxWrites
  /\ \/ \E b \in Budgets \ over : over' = over \union {b} /\ UNCHANGED changed
     \/ ~changed /\ changed' = TRUE /\ UNCHANGED over
  /\ UNCHANGED <<group, faults, pc, left, operator, report, state, result>>

\* killpg: what is alive receives the signals, and the attempts are recorded.
Reaches(S) ==
  hit' = [m \in Members |-> IF m \in Live THEN hit[m] \union (S \intersect heeds[m]) ELSE hit[m]]
Attempted(S) == [state EXCEPT !.attempted = @ \union S]

-----------------------------------------------------------------------------
(* Preflight, spawn and interrupts.                                            *)

Fails == faults < MaxFaults /\ faults' = faults + 1
Stop(why) == pc' = "stopping" /\ reason' = why

Refuse ==
  /\ pc = "preflight"
  /\ \E d \in Defects :
       result' = [exit |-> 2, diagnostic |-> d, published |-> FALSE, reaped |-> FALSE,
                  finalization |-> None]
  /\ pc' = "done"
  /\ UNCHANGED <<external, faults, left, operator, report, state>>

Accept ==
  /\ pc = "preflight" /\ pc' = "popen"
  /\ UNCHANGED <<external, faults, left, operator, report, state, result>>

\* Popen forks the child, or raises: nothing to stop, but there is a report.
Spawn ==
  /\ pc = "popen" /\ member[Leader] = "unborn"
  /\ \/ member' = [member EXCEPT ![Leader] = "live"] /\ UNCHANGED <<faults, pc, reason, error>>
     \/ /\ Fails
        /\ pc' = "restore" /\ reason' = "wrapper_failure" /\ error' = TRUE
        /\ UNCHANGED member
  /\ UNCHANGED <<endedBy, heeds, hit, code, over, changed, left, operator, samples, state, result>>

\* Popen has returned: from here on the wrapper has a process and a group to stop.
Own ==
  /\ pc = "popen" /\ member[Leader] # "unborn"
  /\ pc' = "starting"
  /\ UNCHANGED <<external, faults, left, operator, report, state, result>>

\* The group is verified, the collectors start and the handler is installed.
Started ==
  /\ pc = "starting"
  /\ \/ pc' = "running" /\ handler' = TRUE /\ UNCHANGED <<faults, reason, error>>
     \/ Fails /\ Stop("wrapper_failure") /\ error' = TRUE /\ UNCHANGED handler
  /\ UNCHANGED <<external, left, requested, expedite, late, escaped, samples, state, result>>

-----------------------------------------------------------------------------
(* The sampling loop.                                                          *)

\* poll() is not None: what is left of the group is shut down all the same.
ChildExited ==
  /\ pc = "running" /\ member[Leader] # "live"
  /\ Stop("completed")
  /\ UNCHANGED <<external, faults, left, operator, samples, error, state, result>>

OperatorStop ==
  /\ pc = "running" /\ member[Leader] = "live" /\ requested
  /\ Stop("operator_interrupted")
  /\ UNCHANGED <<external, faults, left, operator, samples, error, state, result>>

\* A stream, the sampler or the inventory fails; the stream is looked at first.
PollFails ==
  /\ pc = "running" /\ member[Leader] = "live" /\ Fails
  /\ error' = TRUE
  /\ Stop("wrapper_failure") \/ (~requested /\ Stop("sampler_failure"))
  /\ UNCHANGED <<external, left, operator, samples, state, result>>

Exceeded ==
  IF "raw" \in over THEN "raw_budget_exceeded"
  ELSE IF "aggregate" \in over THEN "aggregate_budget_exceeded"
  ELSE "stream_budget_exceeded"

\* A sample succeeds; an exceeded budget stops the group.
Sample ==
  /\ pc = "running" /\ member[Leader] = "live" /\ ~requested
  /\ samples' = 1
  /\ IF over = {} THEN UNCHANGED <<pc, reason>> ELSE Stop(Exceeded)
  /\ UNCHANGED <<external, faults, left, operator, error, state, result>>

-----------------------------------------------------------------------------
(* _shutdown_owned_group.  pc is a signal to send, a grace to wait, "reap" for  *)
(* process.wait, or "confirm" for the last observations.                       *)

Graces == {"sigint", "sigterm", "quiescence", "confirm"}
Ticks(where) ==
  CASE where = "sigint" -> SigintGrace
    [] where = "sigterm" -> SigtermGrace
    [] where \in {"quiescence", "reap", "reapKilled", "confirm"} -> QuiescenceGrace
    [] OTHER -> 0
Enter(where) == pc' = where /\ left' = Ticks(where)

Denied(st) == [st EXCEPT !.failure = "MeasurementSignalPermissionDenied"]
Unobserved(st) == [st EXCEPT !.failure = "MeasurementSampler"]
Quiet(st) == [st EXCEPT !.quiescent = TRUE]
Undecided(st) == st.failure = None /\ ~st.quiescent

SettledIfReaped(st) ==   \* mutant: the group need not be quiescent
  IF st.failure = None /\ ~st.reaped
    THEN [st EXCEPT !.failure = "MeasurementTeardownIncomplete"] ELSE st

\* The verdict on the teardown.
Settled(st) ==
  IF st.failure = None /\ ~(st.reaped /\ st.quiescent)
    THEN [st EXCEPT !.failure = "MeasurementTeardownIncomplete"] ELSE st

Go(where, st) == Enter(where) /\ state' = IF where = "drain" THEN Settled(st) ELSE st

\* A failed observation is no evidence of absence: the group is signalled.
FirstObservation ==
  /\ pc = "stopping"
  /\ \/ Live = {} /\ Go("reap", Quiet(state)) /\ UNCHANGED faults
     \/ Live # {} /\ Go("SIGINT", state) /\ UNCHANGED faults
     \/ Fails /\ Go("SIGINT", Unobserved(state))
  /\ UNCHANGED <<external, operator, report, result>>

AfterSignal(s, st) ==
  CASE s = "SIGINT" -> Go("sigint", st)
    [] s = "SIGTERM" -> Go("sigterm", st)
    [] s = "SIGKILL" -> Go(IF Undecided(st) THEN "quiescence" ELSE "reap", st)

\* killpg succeeds, finds no group, or is not permitted.
Signal ==
  /\ pc \in Signals
  /\ \/ Reaches({pc}) /\ UNCHANGED faults /\ AfterSignal(pc, Attempted({pc}))
     \/ Fails /\ UNCHANGED hit /\ Go("reap", Denied(Attempted({pc})))
  /\ UNCHANGED <<member, endedBy, heeds, code, over, changed, operator, report, result>>

\* Where a wait goes once the group is quiet, and once it gives up.
WhenQuiet == IF pc = "confirm" THEN "drain" ELSE "reap"
WhenNot(hurried) ==
  CASE pc = "sigint" -> (IF hurried THEN "SIGKILL" ELSE "SIGTERM")
    [] pc = "sigterm" -> "SIGKILL"
    [] pc = "quiescence" -> "reap"
    [] pc = "confirm" -> "drain"

ImpatientOnly == expedite   \* mutant: only an interrupt ends the wait

Impatient == expedite \/ left = 0
GaveUp == IF expedite THEN state ELSE [state EXCEPT !.expiries = @ \union {pc}]

\* A round of wait_for_quiescence: the process table is quiet, or still live at
\* the deadline or after a second interrupt, or cannot be read.
Observe ==
  /\ pc \in Graces
  /\ \/ Live = {} /\ Go(WhenQuiet, Quiet(state)) /\ UNCHANGED faults
     \/ Live # {} /\ Impatient /\ Go(WhenNot(expedite), GaveUp) /\ UNCHANGED faults
     \/ Fails /\ Go(WhenNot(expedite), Unobserved(state))
  /\ UNCHANGED <<external, operator, report, result>>

AfterReap(st) == Go(IF Undecided(st) THEN "confirm" ELSE "drain", st)

\* process.wait returns, at once if the child was reaped before.
Reap ==
  /\ pc \in {"reap", "reapKilled"} /\ member[Leader] \in {"zombie", "gone"}
  /\ member' = [member EXCEPT ![Leader] = "gone"]
  /\ AfterReap([state EXCEPT !.reaped = TRUE])
  /\ UNCHANGED <<endedBy, heeds, hit, code, over, changed, faults, operator, report, result>>

\* It times out: the first time the group is killed, the second time given up.
ReapTimesOut ==
  /\ pc \in {"reap", "reapKilled"} /\ left = 0 /\ member[Leader] = "live"
  /\ \/ /\ pc = "reap" /\ Reaches({"SIGKILL"}) /\ UNCHANGED faults
        /\ Go("reapKilled", Attempted({"SIGKILL"}))
     \/ pc = "reap" /\ Fails /\ UNCHANGED hit /\ AfterReap(Denied(Attempted({"SIGKILL"})))
     \/ pc = "reapKilled" /\ UNCHANGED <<hit, faults>> /\ AfterReap(state)
  /\ UNCHANGED <<member, endedBy, heeds, code, over, changed, operator, report, result>>

Tick ==
  /\ left > 0
  /\ left' = left - 1
  /\ UNCHANGED <<external, faults, pc, operator, report, state, result>>

-----------------------------------------------------------------------------
(* Interrupts.  One during the preflight or after the finally block ends the   *)
(* wrapper itself and is left out.                                             *)

Teardown == {"stopping", "reap", "reapKilled"} \union Signals \union Graces

\* handle_sigint: the first is a request, a second one hurries the teardown.  One
\* between the last look at the request and the handler's removal is too late.
Noted ==
  /\ handler /\ pc \in Teardown \union {"running", "drain", "closing", "restore"}
  /\ ~expedite
  /\ requested' = TRUE /\ expedite' = requested
  /\ late' = (late \/ (pc = "restore" /\ ~requested))
  /\ UNCHANGED <<external, faults, pc, left, handler, escaped, report, state, result>>

\* Without the handler it is a KeyboardInterrupt.  Before the wrapper owns a group
\* there is nothing it would stop: a child already forked is left to itself.
CutSpawn ==
  /\ pc \in {"popen", "starting"}
  /\ IF pc = "popen" THEN pc' = "restore" /\ reason' = "operator_interrupted"
     ELSE Stop("operator_interrupted")
  /\ requested' = TRUE
  /\ UNCHANGED <<external, faults, left, handler, expedite, late, escaped, samples, error,
                 state, result>>

\* An observation cut short has seen nothing, and ends the wait it belongs to.
CutObservation ==
  /\ \/ pc = "stopping" /\ Go("SIGINT", state)
     \/ pc \in Graces /\ Go(WhenNot(TRUE), state)
  /\ UNCHANGED <<hit, faults>>

\* A signal cut short may have been sent, and recorded if it was.  SIGKILL follows.
CutSignal ==
  /\ pc \in Signals
  /\ \E sent \in SUBSET {pc} : \E noted \in SUBSET sent :
       IF pc = "SIGKILL" THEN Reaches(sent) /\ UNCHANGED faults /\ AfterSignal(pc, Attempted(noted))
       ELSE \/ /\ Reaches(sent \union {"SIGKILL"}) /\ UNCHANGED faults
               /\ AfterSignal(pc, Attempted(noted \union {"SIGKILL"}))
            \/ /\ Fails /\ Reaches(sent)
               /\ Go("reap", Denied(Attempted(noted \union {"SIGKILL"})))

\* process.wait cut short kills the group and waits on; one that cuts the last
\* SIGKILL itself short ends the wait.
CutReap ==
  /\ pc = "reap"
  /\ \E sent \in SUBSET {"SIGKILL"} : \E noted \in SUBSET sent :
       \/ /\ Reaches(sent) /\ UNCHANGED <<faults, pc, left>>
          /\ state' = Attempted(noted)
       \/ /\ Fails /\ UNCHANGED <<hit, pc, left>>
          /\ state' = Denied(Attempted({"SIGKILL"}))
       \/ /\ left = 0 /\ member[Leader] = "live"
          /\ Reaches(sent) /\ UNCHANGED faults /\ AfterReap(Attempted(noted))

Cut ==
  /\ ~handler /\ expedite' = TRUE
  /\ CutObservation \/ CutSignal \/ CutReap
  /\ UNCHANGED <<member, endedBy, heeds, code, over, changed, handler, requested, late, escaped,
                 report, result>>

\* No report at all: the exception is the caller's.
Raised ==
  [exit |-> 1, diagnostic |-> None, published |-> FALSE, reaped |-> FALSE, finalization |-> None]

\* An interrupt anywhere else leaves the teardown: the finally block starts it
\* afresh, once, and the wrapper ends with the exception.
Escapes ==
  /\ ~handler /\ pc \in Teardown \union {"drain", "restore"}
  /\ IF escaped \/ pc \notin Teardown
       THEN pc' = "done" /\ result' = Raised /\ UNCHANGED <<state, escaped>>
       ELSE pc' = "stopping" /\ state' = NoState /\ escaped' = TRUE /\ UNCHANGED result
  /\ left' = 0
  /\ UNCHANGED <<external, faults, handler, requested, expedite, late, report>>

Interrupt == Noted \/ CutSpawn \/ Cut \/ Escapes

-----------------------------------------------------------------------------
(* The report.                                                                 *)

\* The last look at the operator's request.
Looked(why) == IF requested /\ why = "completed" THEN "operator_interrupted" ELSE why

\* The collectors are joined: what is left of the group may hold a pipe open past
\* the join's timeout, and a read may have failed.
Drain ==
  /\ pc = "drain"
  /\ \/ /\ pc' = "restore" /\ UNCHANGED faults
        /\ error' = (error \/ state.failure # None)
        /\ reason' = Looked(reason)
     \/ /\ error' = TRUE
        /\ reason' = IF reason = "sampler_failure" THEN reason ELSE "wrapper_failure"
        /\ \/ Live # {} /\ pc' = "closing" /\ UNCHANGED faults
           \/ Fails /\ pc' = "restore"
  /\ UNCHANGED <<external, left, operator, samples, state, result>>

\* stream.close waits for the lock that the collector holds while it reads: until
\* every holder of the pipe has ended, ...
Close ==
  /\ pc = "closing" /\ Live = {} /\ pc' = "restore"
  /\ UNCHANGED <<external, faults, left, operator, report, state, result>>

\* ... or one of them writes to it, or all have closed it.
Released ==
  /\ pc = "closing" /\ Live # {} /\ pc' = "restore"
  /\ UNCHANGED <<external, faults, left, operator, report, state, result>>

\* The handler is removed and the package is measured once more; an OSError there
\* is not caught.
Restore ==
  /\ pc = "restore"
  /\ \/ /\ escaped /\ pc' = "done" /\ result' = Raised
        /\ UNCHANGED <<faults, reason, error>>
     \/ /\ ~escaped /\ pc' = "report"
        /\ UNCHANGED <<faults, reason, error, result>>
     \/ /\ ~escaped /\ Fails /\ pc' = "report" /\ reason' = "wrapper_failure" /\ error' = TRUE
        /\ UNCHANGED result
     \/ /\ ~escaped /\ Fails /\ pc' = "done" /\ result' = Raised
        /\ UNCHANGED <<reason, error>>
  /\ UNCHANGED <<external, left, operator, samples, state>>

\* Without a teardown, and after one that failed or killed, it is unknown how far
\* the outputs got.
Finalization ==
  IF state.failure # None \/ ~state.reaped \/ "SIGKILL" \in state.attempted THEN "unknown"
  ELSE IF "SIGTERM" \in state.attempted THEN "forced" ELSE "cooperative"

\* The reason, after each correction in turn.
Identified == IF changed THEN "wrapper_failure" ELSE reason
Eligible ==
  /\ Identified = "completed" /\ ~error /\ state.failure = None /\ code \in {0, 2}
Budgeted ==
  IF Eligible /\ "raw" \in over THEN "raw_budget_exceeded"
  ELSE IF Eligible /\ "aggregate" \in over THEN "aggregate_budget_exceeded"
  ELSE Identified
FinalError == changed \/ error \/ samples = 0
Judged == IF Budgeted = "completed" /\ code \notin {0, 2} THEN "child_failure" ELSE Budgeted
TornDown ==
  IF state.failure # None /\ Judged \notin {"sampler_failure", "wrapper_failure"}
    THEN "teardown_failure" ELSE Judged

FinalReasonUnsampled == TornDown   \* mutant: a run without a sample is complete

FinalReason == IF FinalError /\ TornDown = "completed" THEN "sampler_failure" ELSE TornDown

Failures == {"sampler_failure", "wrapper_failure", "teardown_failure"}
Stops == {"operator_interrupted", "raw_budget_exceeded", "aggregate_budget_exceeded",
          "stream_budget_exceeded"}
ExitStatus ==
  IF FinalReason = "completed" /\ code \in {0, 2} THEN code
  ELSE IF FinalReason \in Stops THEN 130
  ELSE 1

\* Published, unless it does not fit or the disk or the package moves.
Report ==
  /\ pc = "report" /\ pc' = "done"
  /\ \/ /\ UNCHANGED faults
        /\ result' = [exit |-> ExitStatus, diagnostic |-> FinalReason, published |-> TRUE,
                      reaped |-> state.reaped, finalization |-> Finalization]
     \/ /\ Fails
        /\ result' = [exit |-> 1, diagnostic |-> "MeasurementV2PublicationFailed",
                      published |-> FALSE, reaped |-> FALSE, finalization |-> None]
  /\ UNCHANGED <<external, left, operator, report, state>>

Supervise ==
  \/ Accept \/ Spawn \/ Own \/ Started \/ ChildExited \/ OperatorStop \/ PollFails \/ Sample
  \/ FirstObservation \/ Signal \/ Observe \/ Reap \/ ReapTimesOut
  \/ Drain \/ Close \/ Restore \/ Report

Next == Refuse \/ Supervise \/ Group \/ Kernel \/ Writes \/ Interrupt \/ Released \/ Tick

Spec ==
  /\ Init /\ [][Next]_vars
  /\ WF_vars(Supervise) /\ WF_vars(Kernel) /\ WF_vars(Tick)

-----------------------------------------------------------------------------
(* Properties.                                                                 *)

TypeOK ==
  /\ member \in [Members -> {"unborn", "live", "zombie", "gone"}]
  /\ endedBy \in [Members -> {None, "itself"} \union Signals]
  /\ hit \in [Members -> SUBSET Signals]
  /\ code \in {None, -1} \union ExitCodes
  /\ over \subseteq Budgets /\ changed \in BOOLEAN
  /\ faults \in 0..MaxFaults
  /\ pc \in {"preflight", "popen", "starting", "running", "drain", "closing", "restore",
             "report", "done"} \union Teardown
  /\ left \in 0..Ticks(pc)
  /\ handler \in BOOLEAN /\ requested \in BOOLEAN /\ expedite \in BOOLEAN
  /\ late \in BOOLEAN /\ escaped \in BOOLEAN
  /\ samples \in 0..1 /\ error \in BOOLEAN
  /\ state.attempted \subseteq Signals /\ state.expiries \subseteq Graces
  /\ state.quiescent \in BOOLEAN /\ state.reaped \in BOOLEAN

Published == result # None /\ result.published

\* A published status 0 or 2 is the child's own, of a run that was sampled, kept its
\* identity files, ended within its raw and aggregate budgets, and was not
\* interrupted before the wrapper last looked.  The stream ceiling is no part of it:
\* the wrapper compares it only after a sample, never after the loop.
StatusIsEarned ==
  Published /\ result.exit \in {0, 2} =>
    /\ code = result.exit
    /\ samples = 1 /\ ~changed /\ (requested => late)
    /\ over \intersect {"raw", "aggregate"} = {}

\* Unless the wrapper reports a failure, nothing it owned is left running when the
\* report is published, however the run ended and whatever forked meanwhile.  The
\* one such report of a child not reaped is that of an operator who interrupted
\* before the child was owned, and it says that the outputs are unknown.
NoOrphans ==
  Published /\ result.diagnostic \notin Failures =>
    IF result.reaped THEN Live = {} /\ member[Leader] = "gone"
    ELSE result.diagnostic = "operator_interrupted" /\ result.finalization = "unknown"

\* A report that calls the outputs cooperatively finalized is right: no member was
\* ended by SIGTERM or SIGKILL.  Without the handler it may be wrong: a
\* KeyboardInterrupt can separate a signal from its record.
CooperativeIsTrue ==
  Published /\ handler /\ result.finalization = "cooperative" =>
    \A m \in Members : endedBy[m] \notin {"SIGTERM", "SIGKILL"}

\* What a published report says of the teardown is so.
TeardownIsTruthful == TypeOK /\ NoOrphans /\ CooperativeIsTrue

\* A member that SIGKILL did not reach keeps the pipe that close waits for.
Held == pc = "closing" /\ \E m \in Live : "SIGKILL" \notin hit[m]

\* Once the child has ended, the operator has interrupted or the group is being
\* stopped, the wrapper goes on to its end, even if members ignore every signal but
\* SIGKILL, observations fail and signals are denied; only a member that no SIGKILL
\* reached can hold it, in stream.close, and then for no longer than it lives.
SupervisionEnds ==
  (\/ requested \/ member[Leader] \in {"zombie", "gone"}
   \/ pc \in Teardown \union {"closing", "restore"})
    ~> (pc = "done" \/ Held)

\* A second interrupt accelerates to SIGKILL but the group still gets its
\* quiescence grace: the teardown of a reaped child is incomplete only after it.
SecondInterruptStillWaits ==
  handler /\ state.failure = "MeasurementTeardownIncomplete" /\ state.reaped =>
    state.expiries \intersect {"quiescence", "confirm"} # {}
=============================================================================
