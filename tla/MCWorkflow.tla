---------------------------- MODULE MCWorkflow ----------------------------
(* Small instances of Workflow: one application, a few requests.           *)
EXTENDS Workflow, TLC

\* The stages of the code.
AllStages == <<"intake", "transcript_quality", "compile", "ontology", "domain_mix",
               "score", "decide", "artifact", "notify">>

\* Without intake, which does nothing, and without ontology, domain_mix and
\* score, which differ from compile in nothing the model has.
FiveStages == <<"transcript_quality", "compile", "decide", "artifact", "notify">>

\* Requests, and transcripts, are interchangeable.
Symmetry == Permutations(Request) \cup Permutations(Transcript)

\* The step of a run of FiveStages that worked on the inputs `old' and failed in
\* `last'.
StepLeft(name, last, old) ==
    LET at(n) == CHOOSE i \in 1..5 : FiveStages[i] = n
        ran   == [NoStep EXCEPT !.digest = Digest(name, old)]
    IN  CASE at(name) < at(last) -> [ran EXCEPT !.status = "succeeded", !.passes = 1,
                                                !.from = Digest(name, old)]
          [] name = last         -> [ran EXCEPT !.status = "failed"]
          [] OTHER               -> NoStep

\* A request failed in artifact or in notify, the transcript changed, and a
\* command that was refused committed the run as running: where Next may lead with
\* two requests more, and where later resumes read without the lock.
LeftInit ==
    \E t \in Transcript, last \in {"artifact", "notify"} :
        LET old == [NoApp EXCEPT !.transcript = t]
            run == [NewRun EXCEPT !.refused = TRUE,
                        !.steps = [s \in Stage |-> StepLeft(s, last, old)]]
        IN  /\ app \in {[old EXCEPT !.transcript = u] : u \in Transcript \ {t}}
            /\ db = [runs |-> <<run>>, decision |-> ManualReview, sent |-> {}]
            /\ tx = db
            /\ writer = NoRequest
            /\ pc = [r \in Request |-> "new"]
            /\ ctx = [r \in Request |-> NoContext]
            /\ letters = [v \in Verdict |-> 0]
            /\ changes = MaxChanges
            /\ faults = MaxFaults

MCSpec == (Init \/ LeftInit) /\ [][Next]_vars

=============================================================================
