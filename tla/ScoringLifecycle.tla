-------------------------- MODULE ScoringLifecycle --------------------------
(***************************************************************************)
(* What the scoring queue promises to everybody else: the states a job is  *)
(* seen in, and that an application is decided once and its decision       *)
(* announced at most once.  No workers, claims, clocks or transactions.    *)
(***************************************************************************)
EXTENDS Naturals

CONSTANTS Job, App, AppOf, Verdict, NoVerdict

VARIABLES
    status,    \* status of each job, as a SELECT of another session reads it
    decision,  \* verdict of each application's decision
    issued     \* DecisionIssued events of each application

vars == <<status, decision, issued>>

Init ==
    /\ status = [j \in Job |-> "absent"]
    /\ decision = [a \in App |-> NoVerdict]
    /\ issued = [a \in App |-> 0]

Undecided(j) == decision[AppOf[j]] = NoVerdict

Move(j, from, to) ==
    /\ status[j] = from
    /\ status' = [status EXCEPT ![j] = to]

Enqueue(j) == Move(j, "absent", "queued") /\ UNCHANGED <<decision, issued>>

\* The first decision of the application, with its event.
Decide(j) ==
    /\ Move(j, "queued", "completed")
    /\ Undecided(j)
    /\ \E v \in Verdict : decision' = [decision EXCEPT ![AppOf[j]] = v]
    /\ issued' = [issued EXCEPT ![AppOf[j]] = @ + 1]

\* The application was decided already: nothing more is announced.
Skip(j) ==
    /\ Move(j, "queued", "completed")
    /\ ~Undecided(j)
    /\ UNCHANGED <<decision, issued>>

\* A failed attempt, which may leave a first decision behind.
Fail(j) ==
    /\ \E to \in {"queued", "failed"} : Move(j, "queued", to)
    /\ Undecided(j)
    /\ \/ UNCHANGED decision
       \/ \E v \in Verdict : decision' = [decision EXCEPT ![AppOf[j]] = v]
    /\ UNCHANGED issued

Replay(S) ==
    /\ \A j \in S : status[j] = "failed"
    /\ status' = [j \in Job |-> IF j \in S THEN "queued" ELSE status[j]]
    /\ UNCHANGED <<decision, issued>>

Next ==
    \/ \E j \in Job : Enqueue(j) \/ Decide(j) \/ Skip(j) \/ Fail(j)
    \/ \E S \in SUBSET Job : Replay(S)

Spec == Init /\ [][Next]_vars

=============================================================================
