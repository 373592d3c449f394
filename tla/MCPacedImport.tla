---------------------------- MODULE MCPacedImport ----------------------------
(***************************************************************************)
(* ImportRun and Throttle in one run: a behaviour is one of the import     *)
(* runs, one of those to a server that refuses a relation, or one of the   *)
(* workers that pace their calls, as part says, and the variables of the   *)
(* other module rest.                                                      *)
(***************************************************************************)
EXTENDS MCImportRun

VARIABLES part, window, health, fast, pace, at, saw, attempt, calm, errors, overlap

paceVars == <<window, health, fast, pace, at, saw, attempt, calm, errors, overlap>>
allVars == <<part, vars, paceVars>>

(* Two workers, a quick and a slow answer, averages over two answers.      *)
Pacing ==
    INSTANCE Throttle WITH
        Thread <- {1, 2}, Times <- {1, 6}, Thresholds <- <<2, 5, 10>>, WindowSize <- 2,
        RecoveryRequests <- 2, MaxPower <- 0, MaxErrors <- 1

(* The same runs, where every row can be stored but a relation never is.   *)
Refused == INSTANCE ImportRun WITH Bad <- {}, BadLink <- {child}

PacedInit == part \in {"runs", "refused", "pacing"} /\ Init /\ Pacing!Init

Running(A) == part = "runs" /\ A
Refusing(A) == part = "refused" /\ A
Paced(A) == part = "pacing" /\ A

PacedNext ==
    \/ Running(Next) /\ UNCHANGED <<part, paceVars>>
    \/ Refusing(Refused!Next) /\ UNCHANGED <<part, paceVars>>
    \/ Paced(Pacing!Next) /\ UNCHANGED <<part, vars>>

(* The fairness of each, in its part.                                      *)
PacedSpec ==
    /\ PacedInit /\ [][PacedNext]_allVars
    /\ WF_vars(Running(Progress)) /\ SF_vars(Running(Start("normal", Defaults)))
    /\ WF_vars(Refusing(Refused!Progress))
    /\ SF_vars(Refusing(Refused!Start("normal", Defaults)))
    /\ \A t \in {1, 2} : WF_paceVars(Paced(Pacing!Step(t)))

(* The temporal properties, each in its part.                              *)
RunsConverge == IF part = "refused" THEN Refused!Converges
                ELSE part = "runs" => Converges
PacingRecovers == part = "pacing" => Pacing!Recovers
=============================================================================
