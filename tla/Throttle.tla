------------------------------ MODULE Throttle ------------------------------
(***************************************************************************)
(* What paces an import (lib/throttle.py: ThrottleController;              *)
(* lib/retry.py: calculate_backoff_delay).  Every worker thread that has   *)
(* loaded a chunk records the response time in the one controller they     *)
(* share, without a lock, so the steps of record_response are steps here;  *)
(* the main thread reads the delay and the batch size before each batch.   *)
(* A worker that meets an overloaded server adds one to retry_attempt,     *)
(* which the workers share too, and waits; such errors are not recorded in *)
(* the controller (record_error has no caller).                            *)
(***************************************************************************)
EXTENDS Integers, Sequences, FiniteSets

CONSTANTS
    Thread,             \* the worker threads
    Times,              \* response times, in seconds
    Thresholds,         \* healthy, degraded and stressed_threshold
    WindowSize,         \* response times averaged, 5 in the code
    RecoveryRequests,   \* healthy averages needed to recover, 3 in the code
    MaxPower,           \* last attempt whose 2.0 ** (attempt - 1) is a float, 1024
    MaxErrors           \* bound: overload errors of the server

Healthy == 0
Overloaded == 3
Unset == -1    \* before the first change: no delay, whatever --batch-delay says

VARIABLES
    window,     \* response_times
    health,     \* current_health, by its value
    fast,       \* consecutive_fast_responses, no further than it is compared
    pace,       \* the level whose delay and batch factor are in force
    at,         \* thread -> where it is in record_response
    saw,        \* thread -> [old, new]: the health it read, the one it computed
    attempt,    \* retry_attempt
    calm,       \* environment: from now on the server answers at once
    errors,     \* history: overload errors so far
    overlap     \* history: two threads have been recording at the same time

vars == <<window, health, fast, pace, at, saw, attempt, calm, errors, overlap>>

Init ==
    /\ window = << >> /\ health = Healthy /\ fast = 0 /\ pace = Unset
    /\ at = [t \in Thread |-> "load"]
    /\ saw = [t \in Thread |-> [old |-> Healthy, new |-> Healthy]]
    /\ attempt = 0 /\ calm = FALSE /\ errors = 0 /\ overlap = FALSE
-----------------------------------------------------------------------------
Total[n \in Nat] == IF n = 0 THEN 0 ELSE Total[n - 1] + window[n]

(* The first level whose threshold the rolling average is below, without   *)
(* dividing.                                                               *)
Below(i) == Total[Len(window)] < Thresholds[i] * Len(window)
Level == IF Below(1) THEN 0 ELSE IF Below(2) THEN 1 ELSE IF Below(3) THEN 2 ELSE Overloaded

Quick == CHOOSE time \in Times : \A other \in Times : time <= other

(* record_response: into the window, and the oldest out.                   *)
Record(t, time) ==
    /\ at[t] = "load" /\ (calm => time = Quick)
    /\ LET longer == Append(window, time) IN
       window' = IF Len(longer) > WindowSize THEN Tail(longer) ELSE longer
    /\ at' = [at EXCEPT ![t] = "judge"]
    /\ overlap' = (overlap \/ \E u \in Thread \ {t} : at[u] \notin {"load", "raised"})
    /\ UNCHANGED <<health, fast, pace, saw, attempt, calm, errors>>

(* _update_health up to its comparison.                                    *)
Fast == IF Level # Healthy THEN 0
        ELSE IF fast < RecoveryRequests THEN fast + 1 ELSE fast

Judge(t) ==
    /\ at[t] = "judge"
    /\ saw' = [saw EXCEPT ![t] = [old |-> health, new |-> Level]]
    /\ fast' = Fast
    /\ at' = [at EXCEPT ![t] = "decide"]
    /\ UNCHANGED <<window, health, pace, attempt, calm, errors, overlap>>

(* Worse at once, better only after enough healthy averages in a row: an   *)
(* average that is better and not healthy never changes anything.          *)
ChangesByOneLevel(t) == \/ saw[t].new > saw[t].old
                        \/ saw[t].new = saw[t].old - 1 /\ fast >= RecoveryRequests
Changes(t) == \/ saw[t].new > saw[t].old
              \/ saw[t].new < saw[t].old /\ fast >= RecoveryRequests

DecideUnapplied(t) ==
    /\ at[t] = "decide"
    /\ IF Changes(t)
       THEN /\ health' = saw[t].new
            /\ at' = [at EXCEPT ![t] = IF saw[t].new > saw[t].old THEN "apply0" ELSE "load"]
       ELSE at' = [at EXCEPT ![t] = "load"] /\ UNCHANGED health
    /\ UNCHANGED <<window, fast, pace, saw, attempt, calm, errors, overlap>>

Decide(t) ==
    /\ at[t] = "decide"
    /\ IF Changes(t)
       THEN /\ health' = saw[t].new
            /\ at' = [at EXCEPT ![t] = "apply0"]
       ELSE at' = [at EXCEPT ![t] = "load"] /\ UNCHANGED health
    /\ UNCHANGED <<window, fast, pace, saw, attempt, calm, errors, overlap>>

(* _update_throttle_params asks for one level after the other, reading     *)
(* current_health each time; what is none of the first three is overloaded.*)
Probe == <<"apply0", "apply1", "apply2">>

Applied(t, level) ==
    /\ pace' = level
    /\ fast' = IF saw[t].new < saw[t].old THEN 0 ELSE fast
    /\ at' = [at EXCEPT ![t] = "load"]

Apply(t) ==
    /\ \E i \in 1 .. 3 :
          /\ at[t] = Probe[i]
          /\ \/ health = i - 1 /\ Applied(t, i - 1)
             \/ /\ health # i - 1 /\ i < 3
                /\ at' = [at EXCEPT ![t] = Probe[i + 1]]
                /\ UNCHANGED <<pace, fast>>
             \/ health # i - 1 /\ i = 3 /\ Applied(t, Overloaded)
    /\ UNCHANGED <<window, health, saw, attempt, calm, errors, overlap>>
-----------------------------------------------------------------------------
(* An overload error: retry_attempt is read and written back in two        *)
(* statements, and beyond MaxPower the power no longer fits a float, so    *)
(* the error leaves the worker as an OverflowError.                        *)
ReadAttempt(t) ==
    /\ at[t] = "load" /\ ~calm /\ errors < MaxErrors
    /\ saw' = [saw EXCEPT ![t].old = attempt]
    /\ at' = [at EXCEPT ![t] = "backoff"]
    /\ errors' = errors + 1
    /\ UNCHANGED <<window, health, fast, pace, attempt, calm, overlap>>

Fits(n) == n <= MaxPower

Backoff(t) ==
    /\ at[t] = "backoff"
    /\ attempt' = saw[t].old + 1
    /\ at' = [at EXCEPT ![t] = IF Fits(saw[t].old + 1) THEN "load" ELSE "raised"]
    /\ saw' = [saw EXCEPT ![t].old = health]
    /\ UNCHANGED <<window, health, fast, pace, calm, errors, overlap>>

(* Only a chunk handed to the fallback after serialization conflicts       *)
(* starts the count again.                                                 *)
Reset(t) ==
    /\ at[t] = "load" /\ attempt > 0
    /\ attempt' = 0
    /\ UNCHANGED <<window, health, fast, pace, at, saw, calm, errors, overlap>>

Calm ==
    /\ ~calm /\ calm' = TRUE
    /\ UNCHANGED <<window, health, fast, pace, at, saw, attempt, errors, overlap>>

Step(t) == \/ \E time \in Times : Record(t, time)
           \/ Judge(t) \/ Decide(t) \/ Apply(t) \/ Backoff(t)

Next == Calm \/ \E t \in Thread : Step(t) \/ ReadAttempt(t) \/ Reset(t)

(* Workers that are not interrupted get on with their calls.               *)
Fairness == \A t \in Thread : WF_vars(Step(t))

Spec == Init /\ [][Next]_vars /\ Fairness
-----------------------------------------------------------------------------
Places == {"load", "judge", "decide", "backoff", "raised"} \cup {Probe[i] : i \in 1 .. 3}

TypeOK ==
    /\ window \in Seq(Times) /\ Len(window) <= WindowSize
    /\ health \in Healthy .. Overloaded /\ pace \in Unset .. Overloaded
    /\ fast \in 0 .. RecoveryRequests
    /\ at \in [Thread -> Places]
    /\ saw \in [Thread -> [old : Nat, new : Healthy .. Overloaded]]
    /\ attempt \in 0 .. MaxErrors /\ errors \in 0 .. MaxErrors
    /\ calm \in BOOLEAN /\ overlap \in BOOLEAN

(* Batch size and delay are never those of another level than the health   *)
(* that is reported, unless two workers have recorded at the same time.    *)
SettledPace ==
    (\A t \in Thread : at[t] \in {"load", "raised"}) /\ ~overlap =>
        pace = health \/ (pace = Unset /\ health = Healthy)

(* A long outage: no worker is lost to its own backoff before the server   *)
(* has failed more often than a float has powers of two.                   *)
BackoffHolds == (\E t \in Thread : at[t] = "raised") => errors > MaxPower

PacingIsSound == TypeOK /\ SettledPace /\ BackoffHolds

(* Once the server answers quickly, the import runs at full speed again    *)
(* for good, as far as the health is concerned and while a worker is left. *)
Recovers == calm ~> [](health = Healthy \/ \A t \in Thread : at[t] = "raised")
-----------------------------------------------------------------------------
(***************************************************************************)
(* What keeps itself true, step by step, and implies the above.            *)
(***************************************************************************)
Recording(t) == at[t] \notin {"load", "backoff", "raised"}
Applying(t) == at[t] \in {"apply0", "apply1", "apply2"}

(* The shared count runs at most as far as the errors, which the threads   *)
(* that have read it and not yet written it back have been counted in.     *)
AttemptsCounted ==
    /\ attempt <= errors
    /\ \A t \in Thread : /\ at[t] = "backoff" => saw[t].old < errors
                         /\ at[t] = "raised" => errors > MaxPower

(* As long as threads have recorded one after the other, the pace is that  *)
(* of the health but for the one that is applying a new one, and that one  *)
(* has passed by the levels that are not it.                               *)
PaceFollows ==
    ~overlap =>
        /\ \A t, u \in Thread : Recording(t) /\ Recording(u) => t = u
        /\ \/ \E t \in Thread : Applying(t)
           \/ pace = health
           \/ pace = Unset /\ health = Healthy
        /\ \A t \in Thread : /\ at[t] \in {"apply1", "apply2"} => health # 0
                             /\ at[t] = "apply2" => health # 1

PacingInv == TypeOK /\ AttemptsCounted /\ PaceFollows
=============================================================================
