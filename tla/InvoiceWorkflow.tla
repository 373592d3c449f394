--------------------------- MODULE InvoiceWorkflow ---------------------------
(***************************************************************************)
(* workflow invoice-v9 (workflow_runner.py: run_invoice_v9_workflow;       *)
(* lib/workflow/invoice_v9.py; lib/internal/rpc_thread.py): five actions   *)
(* in a fixed order, each a search and then a pool of threads with one     *)
(* task per invoice found; what a task raises is logged and the next       *)
(* action begins when the pool is done.  Invoices have the status of the   *)
(* system they came from; a user may run the command again.                *)
(***************************************************************************)
EXTENDS Integers, Sequences, FiniteSets

CONSTANTS
    Invoice,
    Legacy,      \* invoice -> open, paid or proforma: what the status map makes of it
    TaxCount,    \* the taxes an invoice should have
    Workers,     \* max_connection; validation has one thread
    MaxRuns, MaxFaults    \* bounds

Actions == <<"tax", "validate", "pay", "proforma", "rename">>

VARIABLES
    state,      \* server: invoice -> draft, open, paid or proforma
    taxes,      \* server: invoice -> its tax lines
    payments,   \* server: invoice -> [draft, posted]: numbers of payments
    renamed,    \* server: the invoices that have their legacy number
    chosen,     \* the actions of this run
    action,     \* the number of the action under way, 0 when no run is
    todo,       \* invoices of the action whose task has not begun
    task,       \* invoice -> how far its task is, or "none"
    searched,   \* whether the action's search has been made
    broken,     \* history: invoices with a task that ended early
    runs, faults

vars == <<state, taxes, payments, renamed, chosen, action, todo, task, searched, broken,
          runs, faults>>
server == <<state, taxes, payments, renamed>>

Init ==
    /\ state = [i \in Invoice |-> "draft"] /\ taxes = [i \in Invoice |-> 0]
    /\ payments = [i \in Invoice |-> [draft |-> 0, posted |-> 0]] /\ renamed = {}
    /\ chosen = {} /\ action = 0 /\ todo = {} /\ task = [i \in Invoice |-> "none"]
    /\ searched = FALSE /\ broken = {} /\ runs = 0 /\ faults = 0

Fault == faults < MaxFaults /\ faults' = faults + 1
-----------------------------------------------------------------------------
Start ==
    /\ action = 0 /\ runs < MaxRuns /\ runs' = runs + 1
    /\ \E some \in SUBSET {"tax", "validate", "pay"} :
          chosen' = IF some = {} THEN {Actions[n] : n \in 1 .. 5} ELSE some
    /\ action' = 1 /\ searched' = FALSE
    /\ UNCHANGED <<server, todo, task, broken, faults>>

(* The invoices an action is for.                                          *)
Chosen(name) ==
    {i \in Invoice :
       CASE name = "tax" -> state[i] = "draft" /\ taxes[i] = 0
         [] name = "validate" -> state[i] = "draft" /\ Legacy[i] \in {"open", "paid"}
         [] name = "pay" -> state[i] = "open" /\ Legacy[i] = "paid"
         [] name = "proforma" -> state[i] = "draft" /\ Legacy[i] = "proforma"
         [] name = "rename" -> state[i] # "draft" /\ i \notin renamed}

Search ==
    /\ action # 0 /\ ~searched /\ Actions[action] \in chosen
    /\ todo' = Chosen(Actions[action]) /\ searched' = TRUE
    /\ UNCHANGED <<server, chosen, action, task, broken, runs, faults>>

Threads == IF Actions[action] = "validate" THEN 1 ELSE Workers
Running == {i \in Invoice : task[i] # "none"}

Begin(i) ==
    /\ i \in todo /\ Cardinality(Running) < Threads
    /\ todo' = todo \ {i}
    /\ task' = [task EXCEPT ![i] = Actions[action]]
    /\ UNCHANGED <<server, chosen, action, searched, broken, runs, faults>>

Over(i) == task' = [task EXCEPT ![i] = "none"]

(* One call for each tax.                                                  *)
AddTax(i) ==
    /\ task[i] = "tax"
    /\ taxes' = [taxes EXCEPT ![i] = @ + 1]
    /\ IF taxes'[i] = TaxCount THEN Over(i) ELSE UNCHANGED task
    /\ UNCHANGED <<state, payments, renamed, chosen, action, todo, searched, broken, runs,
                   faults>>

Validate(i) ==
    /\ task[i] = "validate"
    /\ state' = [state EXCEPT ![i] = IF @ = "draft" THEN "open" ELSE @]
    /\ Over(i)
    /\ UNCHANGED <<taxes, payments, renamed, chosen, action, todo, searched, broken, runs,
                   faults>>

(* A payment is created, then posted.                                      *)
CreatePayment(i) ==
    /\ task[i] = "pay"
    /\ payments' = [payments EXCEPT ![i].draft = @ + 1]
    /\ task' = [task EXCEPT ![i] = "post"]
    /\ UNCHANGED <<state, taxes, renamed, chosen, action, todo, searched, broken, runs, faults>>

Post(i) ==
    /\ task[i] = "post"
    /\ state' = [state EXCEPT ![i] = "paid"]
    /\ payments' = [payments EXCEPT ![i] = [draft |-> @.draft - 1, posted |-> @.posted + 1]]
    /\ Over(i)
    /\ UNCHANGED <<taxes, renamed, chosen, action, todo, searched, broken, runs, faults>>

Proforma(i) ==
    /\ task[i] = "proforma"
    /\ state' = [state EXCEPT ![i] = IF @ = "draft" THEN "proforma" ELSE @]
    /\ Over(i)
    /\ UNCHANGED <<taxes, payments, renamed, chosen, action, todo, searched, broken, runs,
                   faults>>

Rename(i) ==
    /\ task[i] = "rename"
    /\ renamed' = renamed \cup {i}
    /\ Over(i)
    /\ UNCHANGED <<state, taxes, payments, chosen, action, todo, searched, broken, runs, faults>>

(* Whatever a call of a task raises, the task is over.  A call that was    *)
(* done but whose answer is lost is that call's step and then this one.    *)
TaskFails(i) ==
    /\ task[i] # "none" /\ Fault
    /\ broken' = broken \cup {i}
    /\ Over(i)
    /\ UNCHANGED <<server, chosen, action, todo, searched, runs>>

(* wait: every task is over.                                               *)
AllBegun == todo = {}
AllOver == todo = {} /\ Running = {}

NextAction ==
    /\ action # 0
    /\ Actions[action] \in chosen => searched /\ AllOver
    /\ action' = IF action = Len(Actions) THEN 0 ELSE action + 1
    /\ searched' = FALSE
    /\ UNCHANGED <<server, chosen, todo, task, broken, runs, faults>>

(* A search that fails, or a kill, ends the command.                       *)
Die ==
    /\ action # 0 /\ Fault
    /\ action' = 0 /\ todo' = {} /\ task' = [i \in Invoice |-> "none"]
    /\ broken' = broken \cup Running
    /\ UNCHANGED <<server, chosen, searched, runs>>

Next ==
    \/ Start \/ Search \/ NextAction \/ Die
    \/ \E i \in Invoice :
          \/ Begin(i) \/ AddTax(i) \/ Validate(i) \/ CreatePayment(i) \/ Post(i)
          \/ Proforma(i) \/ Rename(i) \/ TaskFails(i)

Spec == Init /\ [][Next]_vars
-----------------------------------------------------------------------------
TypeOK ==
    /\ state \in [Invoice -> {"draft", "open", "paid", "proforma"}]
    /\ taxes \in [Invoice -> 0 .. TaxCount]
    /\ payments \in [Invoice -> [draft : 0 .. MaxRuns, posted : 0 .. MaxRuns]]
    /\ renamed \subseteq Invoice /\ todo \subseteq Invoice /\ broken \subseteq Invoice
    /\ chosen \subseteq {Actions[n] : n \in 1 .. 5} /\ action \in 0 .. Len(Actions)
    /\ task \in [Invoice -> {"none", "tax", "validate", "pay", "post", "proforma", "rename"}]
    /\ searched \in BOOLEAN /\ runs \in 0 .. MaxRuns /\ faults \in 0 .. MaxFaults

(* No invoice gets a tax line twice or is opened while its taxes are still *)
(* being added, none is paid by two posted payments, and none leaves draft *)
(* for a state that its legacy status does not call for; over any runs.    *)
NothingTwice ==
    \A i \in Invoice :
        /\ payments[i].posted <= 1
        /\ task[i] = "tax" => state[i] = "draft"
        /\ task[i] = "post" => state[i] = "open"
        /\ state[i] \in {"draft", Legacy[i]} \/ (Legacy[i] = "paid" /\ state[i] = "open")

(* After a run of all actions every invoice none of whose tasks ever ended *)
(* early has come to its state, its one payment and its number. *)
Complete(i) ==
    /\ state[i] = Legacy[i] /\ i \in renamed
    /\ payments[i] = [draft |-> 0, posted |-> IF Legacy[i] = "paid" THEN 1 ELSE 0]

FullRunCompletes ==
    action = Len(Actions) /\ "rename" \in chosen /\ searched /\ AllOver =>
        \A i \in Invoice \ broken : Complete(i)

InvoicesAreSound == TypeOK /\ NothingTwice /\ FullRunCompletes
-----------------------------------------------------------------------------
(***************************************************************************)
(* What keeps itself true, step by step, and implies InvoicesAreSound.     *)
(***************************************************************************)
(* Tasks are of the action under way and of invoices that it is for, and   *)
(* nobody else changes these meanwhile.                                    *)
TaskFits(i) ==
    /\ i \in todo => task[i] = "none" /\ i \in Chosen(Actions[action])
    /\ task[i] # "none" => Actions[action] = IF task[i] = "post" THEN "pay" ELSE task[i]
    /\ task[i] = "tax" => state[i] = "draft" /\ taxes[i] < TaxCount
    /\ task[i] \in {"validate", "pay", "proforma", "rename"} => i \in Chosen(task[i])
    /\ task[i] = "post" => i \in Chosen("pay") /\ payments[i].draft > 0

TasksHold ==
    /\ action = 0 \/ ~searched => AllOver
    /\ action # 0 /\ searched => Actions[action] \in chosen
    /\ "rename" \in chosen => \A n \in 1 .. 5 : Actions[n] \in chosen
    /\ \A i \in Invoice : TaskFits(i)

(* A run makes at most one payment for an invoice, and draft ones stay     *)
(* only after a failure.                                                   *)
ToBePaid(i) ==
    /\ action # 0
    /\ action < 3 \/ (action = 3 /\ (~searched \/ i \in todo \/ task[i] = "pay"))

PaidOnce(i) ==
    /\ payments[i].posted = IF state[i] = "paid" THEN 1 ELSE 0
    /\ payments[i].draft <= runs /\ payments[i].posted <= runs
    /\ ToBePaid(i) => payments[i].draft < runs
    /\ i \notin broken => payments[i].draft = IF task[i] = "post" THEN 1 ELSE 0
    /\ state[i] \in {"draft", Legacy[i]} \/ (Legacy[i] = "paid" /\ state[i] = "open")

(* What an action of a full run is over with has come as far as it leads.  *)
Past(n, i) ==
    action > n \/ (action = n /\ searched /\ i \notin todo /\ task[i] = "none")

Advanced(i) ==
    /\ Past(2, i) /\ Legacy[i] \in {"open", "paid"} => state[i] # "draft"
    /\ Past(3, i) /\ Legacy[i] = "paid" => state[i] = "paid"
    /\ Past(4, i) /\ Legacy[i] = "proforma" => state[i] = "proforma"
    /\ Past(5, i) => i \in renamed

PaymentsHold == \A i \in Invoice : PaidOnce(i)
ProgressHolds == action # 0 /\ "rename" \in chosen => \A i \in Invoice \ broken : Advanced(i)

InvoicesInv == TypeOK /\ TasksHold /\ PaymentsHold /\ ProgressHolds
=============================================================================
