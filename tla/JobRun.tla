------------------------------- MODULE JobRun -------------------------------
(***************************************************************************)
(* What a run of a one-shot job promises, whatever the cluster does: it    *)
(* tries distinct pods, at most max_nb_restart + 1 of them; it reports the *)
(* output of a pod it tried, never twice; it succeeds or is cancelled only *)
(* after trying a pod, fails only after the whole budget of pods, may stop *)
(* on an error at any time, and eventually stops.                          *)
(***************************************************************************)
EXTENDS Naturals, Sequences, FiniteSets

CONSTANTS
    Pods,           \* the pods the run may try
    MaxNbRestart    \* job.max_nb_restart()

Outcomes == {"running", "ok", "failed", "cancelled", "error"}

VARIABLES
    outcome,  \* "running" until the run returns
    tried,    \* the pods tried so far
    sent      \* the pods whose output was reported, in order

avars == <<outcome, tried, sent>>

Running == outcome = "running"

Init ==
    /\ outcome = "running"
    /\ tried = {}
    /\ sent = <<>>

(* Try a new pod, while the budget allows.                                 *)
Attempt(p) ==
    /\ Running
    /\ p \in Pods \ tried
    /\ Cardinality(tried) <= MaxNbRestart
    /\ tried' = tried \cup {p}
    /\ UNCHANGED <<outcome, sent>>

(* Report the output of a pod tried and not reported yet.                  *)
Report(p) ==
    /\ Running
    /\ p \in tried
    /\ \A i \in 1..Len(sent) : sent[i] # p
    /\ sent' = Append(sent, p)
    /\ UNCHANGED <<outcome, tried>>

Stop(o) == Running /\ outcome' = o /\ UNCHANGED <<tried, sent>>

Succeed == tried # {} /\ Stop("ok")
Cancel  == tried # {} /\ Stop("cancelled")
Fail    == Cardinality(tried) = MaxNbRestart + 1 /\ Stop("failed")
Error   == Stop("error")

Next ==
    \/ \E p \in Pods : Attempt(p) \/ Report(p)
    \/ Succeed \/ Cancel \/ Fail \/ Error

SafetySpec == Init /\ [][Next]_avars

(* The run does not go on forever.                                         *)
Spec == SafetySpec /\ WF_avars(Succeed \/ Cancel \/ Fail \/ Error)

=============================================================================
