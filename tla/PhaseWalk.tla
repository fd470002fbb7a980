------------------------------ MODULE PhaseWalk ------------------------------
(***************************************************************************)
(* What create_test promises of every test, whatever the scheduling: the   *)
(* test walks its phases in order, one at a time.  A phase is begun only   *)
(* after the one before it passed.  A begun phase ends PASS or FAIL, or,   *)
(* for a phase handed to the batch system, may stay pending.  A failed     *)
(* test goes no further.  A rerun with use_existing resumes every test at  *)
(* a passed phase and leaves a test that completed as it was; a rerun      *)
(* with force_rebuild resumes a completed test at RebuildResumePoint.      *)
(* Under fairness, each test keeps walking until it completes, fails or    *)
(* waits on the batch system.                                              *)
(***************************************************************************)
EXTENDS Sequences, SequencesExt

CONSTANTS
    Tests,
    Phases,             \* the phases of a test, in order, first = initial
    Submitted,          \* phases whose end the process does not wait for
    RebuildResumePoint  \* where force_rebuild resumes a completed test

VARIABLES
    walk,       \* test -> [phase, status]
    resumed     \* "fresh", or how the latest rerun was started

avars == <<walk, resumed>>

FinalPhase == Phases[Len(Phases)]

\* The phase after p.
following(p) == Phases[(CHOOSE i \in 1 .. Len(Phases) : Phases[i] = p) + 1]

passed(p) == [phase |-> p, status |-> "PASS"]
completed(t) == walk[t] = passed(FinalPhase)

Init ==
    /\ walk = [t \in Tests |-> passed(Phases[1])]
    /\ resumed = "fresh"

\* t begins its next phase.
Begin(t) ==
    /\ walk[t].status = "PASS" /\ walk[t].phase # FinalPhase
    /\ walk' = [walk EXCEPT ![t] = [phase |-> following(walk[t].phase),
                                    status |-> "PEND"]]
    /\ UNCHANGED resumed

\* t's next phase is failed without being run.
Refuse(t) ==
    /\ walk[t].status = "PASS" /\ walk[t].phase # FinalPhase
    /\ walk' = [walk EXCEPT ![t] = [phase |-> following(walk[t].phase),
                                    status |-> "FAIL"]]
    /\ UNCHANGED resumed

\* t's pending phase ends.
Complete(t) ==
    /\ walk[t].status = "PEND"
    /\ \E s \in {"PASS", "FAIL"} : walk' = [walk EXCEPT ![t].status = s]
    /\ UNCHANGED resumed

\* A rerun: every test resumes at a passed phase.
Resume(mode) ==
    /\ walk' \in [Tests -> {passed(p) : p \in ToSet(Phases)}]
    /\ \A t \in Tests :
          completed(t) => walk'[t] = IF mode = "force_rebuild"
                                     THEN passed(RebuildResumePoint)
                                     ELSE walk[t]
    /\ resumed' = mode

Next ==
    \/ \E t \in Tests : Begin(t) \/ Refuse(t) \/ Complete(t)
    \/ \E mode \in {"use_existing", "force_rebuild"} : Resume(mode)

\* A test that may go on does; a pending phase the process waits for ends.
Fairness ==
    \A t \in Tests :
        /\ WF_avars(Begin(t) \/ Refuse(t))
        /\ WF_avars(walk[t].phase \notin Submitted /\ Complete(t))

Spec == Init /\ [][Next]_avars /\ Fairness
=============================================================================
