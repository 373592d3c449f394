----------------------------- MODULE SudoCommand -----------------------------
(***************************************************************************)
(* What the import and export commands do around the import or export      *)
(* itself (__main__.py: import_cmd, export_cmd, _execute_post_action,      *)
(* _get_product_ids_from_quants, _update_inventory_move_dates): --sudo     *)
(* takes the record rules of the models involved out of force and puts     *)
(* them back, --post-action applies the imported stock, --move-date dates  *)
(* the moves this made.  Several users run commands at once against one    *)
(* server, whose administrators switch rules as well.                      *)
(***************************************************************************)
EXTENDS Integers, Sequences, FiniteSets

CONSTANTS
    User,        \* who run commands
    Rule,        \* record rules
    ModelRules,  \* for an export, the rules of each model in the order they are
                 \* met; an import has the first model only
    Product, Imported,    \* user -> the products of its stock rows
    MaxFaults, MaxEdits   \* bounds: failing calls and kills, administrators' changes

VARIABLES
    active,     \* server: the record rules in force
    moves,      \* server: stock moves [product, by, age, dated]
    applying,   \* server: users whose post-action goes on after their timeout
    at,         \* user -> where the command is
    kind,       \* user -> import or export
    models,     \* user -> how many models' rules have been dealt with
    found,      \* user -> the active rules its last search returned
    disabled,   \* user -> disabled_rule_ids
    result,     \* user -> what run_import returned: none, empty or rows
    products,   \* user -> product_ids_for_move_update
    actionOk,   \* user -> what _execute_post_action returned
    exit,       \* user -> exit code, -1 before it ends
    wanted,     \* history: the rules the administrators want in force
    excused,    \* history: rules whose switch was not heard of, or whose user was
                \* killed, or that an administrator switched
    late,       \* history: users whose post-action timed out
    faults, edits

vars == <<active, moves, applying, at, kind, models, found, disabled, result, products,
          actionOk, exit, wanted, excused, late, faults, edits>>

Move == [product : Product, by : User \cup {"other"}, age : {"new", "old"}, dated : BOOLEAN]
Others == {[product |-> x, by |-> "other", age |-> a, dated |-> FALSE] :
             x \in Product, a \in {"new", "old"}}

Init ==
    /\ active \in SUBSET Rule /\ wanted = active
    /\ moves = Others /\ applying = {}
    /\ at = [u \in User |-> "idle"] /\ kind \in [User -> {"import", "export"}]
    /\ models = [u \in User |-> 0] /\ found = [u \in User |-> {}]
    /\ disabled = [u \in User |-> {}] /\ result = [u \in User |-> "none"]
    /\ products = [u \in User |-> {}] /\ actionOk = [u \in User |-> FALSE]
    /\ exit = [u \in User |-> -1]
    /\ excused = {} /\ late = {} /\ faults = 0 /\ edits = 0

Fault == faults < MaxFaults /\ faults' = faults + 1
Go(u, place) == at' = [at EXCEPT ![u] = place]
Models(u) == IF kind[u] = "import" THEN 1 ELSE Len(ModelRules)
-----------------------------------------------------------------------------
(***************************************************************************)
(* The rules of each model, found and then switched off; what was switched *)
(* off is noted when the call has returned.                                *)
(***************************************************************************)
AllRules(u) == ModelRules[models[u] + 1]
ActiveRules(u) == ModelRules[models[u] + 1] \cap active

Find(u) ==
    /\ at[u] \in {"idle", "find"} /\ models[u] < Models(u)
    /\ found' = [found EXCEPT ![u] = ActiveRules(u)]
    /\ Go(u, "switch")
    /\ UNCHANGED <<active, moves, applying, kind, models, disabled, result, products,
                   actionOk, exit, wanted, excused, late, faults, edits>>

SwitchOff(u) ==
    /\ at[u] = "switch"
    /\ active' = active \ found[u]
    /\ disabled' = [disabled EXCEPT ![u] = @ \cup found[u]]
    /\ models' = [models EXCEPT ![u] = @ + 1]
    /\ Go(u, IF models'[u] = Models(u) THEN "run" ELSE "find")
    /\ UNCHANGED <<moves, applying, kind, found, result, products, actionOk, exit,
                   wanted, excused, late, faults, edits>>

(* An error of these calls ends the command through the finally clause;    *)
(* the rules may be off, but they have not been noted.                     *)
SetupFails(u) ==
    /\ at[u] \in {"find", "switch"} /\ Fault
    /\ \/ UNCHANGED <<active, excused>>
       \/ /\ at[u] = "switch"
          /\ active' = active \ found[u] /\ excused' = excused \cup found[u]
    /\ exit' = [exit EXCEPT ![u] = 1]
    /\ Go(u, "finally")
    /\ UNCHANGED <<moves, applying, kind, models, found, disabled, result, products,
                   actionOk, wanted, late, edits>>

(* run_import returns nothing after a fatal abort, else the records' ids;  *)
(* run_export returns nothing that is looked at.                           *)
Import(u) ==
    /\ at[u] = "run" /\ kind[u] = "import"
    /\ \E answer \in {"none", "empty", "rows"} :
          /\ result' = [result EXCEPT ![u] = answer]
          /\ Go(u, IF answer = "none" THEN "finally" ELSE "products")
    /\ UNCHANGED <<active, moves, applying, kind, models, found, disabled, products,
                   actionOk, exit, wanted, excused, late, faults, edits>>

Export(u) ==
    /\ at[u] = "run" /\ kind[u] = "export"
    /\ Go(u, "finally")
    /\ UNCHANGED <<active, moves, applying, kind, models, found, disabled, result, products,
                   actionOk, exit, wanted, excused, late, faults, edits>>

(* The products of the imported quants are read first.                     *)
ReadProducts(u) ==
    /\ at[u] = "products"
    /\ \/ result[u] = "rows" /\ products' = [products EXCEPT ![u] = Imported[u]]
          /\ UNCHANGED faults
       \/ result[u] = "empty" /\ UNCHANGED <<products, faults>>
       \/ result[u] = "rows" /\ Fault /\ UNCHANGED products
    /\ Go(u, "action")
    /\ UNCHANGED <<active, moves, applying, kind, models, found, disabled, result,
                   actionOk, exit, wanted, excused, late, edits>>

Made(u) == {[product |-> x, by |-> u, age |-> "new", dated |-> FALSE] : x \in Imported[u]}

(* The post-action is done, refused, or times out: the server may have     *)
(* done it, may still be at it, or may have dropped it.  A timeout counts  *)
(* as done.                                                                *)
PostAction(u) ==
    /\ at[u] = "action"
    /\ Go(u, "dates")
    /\ \/ /\ result[u] = "empty"
          /\ actionOk' = [actionOk EXCEPT ![u] = FALSE]
          /\ UNCHANGED <<moves, applying, late, faults>>
       \/ /\ result[u] = "rows"
          /\ moves' = moves \cup Made(u) /\ actionOk' = [actionOk EXCEPT ![u] = TRUE]
          /\ UNCHANGED <<applying, late, faults>>
       \/ /\ result[u] = "rows" /\ Fault
          /\ actionOk' = [actionOk EXCEPT ![u] = FALSE]
          /\ UNCHANGED <<moves, applying, late>>
       \/ /\ result[u] = "rows" /\ Fault
          /\ actionOk' = [actionOk EXCEPT ![u] = TRUE] /\ late' = late \cup {u}
          /\ \/ moves' = moves \cup Made(u) /\ UNCHANGED applying
             \/ applying' = applying \cup {u} /\ UNCHANGED moves
             \/ UNCHANGED <<moves, applying>>
    /\ UNCHANGED <<active, kind, models, found, disabled, result, products, exit,
                   wanted, excused, edits>>

(* The server comes to the end of an action nobody waits for.              *)
Applied(u) ==
    /\ u \in applying /\ applying' = applying \ {u}
    /\ moves' = moves \cup Made(u)
    /\ UNCHANGED <<active, at, kind, models, found, disabled, result, products, actionOk,
                   exit, wanted, excused, late, faults, edits>>

(* Every recent move of the products is dated, whoever made it.            *)
Recent(u) == {m \in moves : m.product \in products[u] /\ m.age = "new"}
RecentOrOld(u) == {m \in moves : m.product \in products[u]}
Date(u) ==
    /\ at[u] = "dates"
    /\ \/ /\ actionOk[u]
          /\ moves' = (moves \ Recent(u)) \cup {[m EXCEPT !.dated = TRUE] : m \in Recent(u)}
          /\ UNCHANGED faults
       \/ ~actionOk[u] /\ UNCHANGED <<moves, faults>>
       \/ actionOk[u] /\ Recent(u) # {} /\ Fault /\ UNCHANGED moves
    /\ late' = IF faults' # faults THEN late \cup {u} ELSE late
    /\ Go(u, "finally")
    /\ UNCHANGED <<active, applying, kind, models, found, disabled, result, products,
                   actionOk, exit, wanted, excused, edits>>

(* The finally clause, and then the exit code: 1 after a fatal abort.      *)
ExitCode(u) == IF exit[u] = 1 \/ (kind[u] = "import" /\ result[u] = "none") THEN 1 ELSE 0

Finally(u) ==
    /\ at[u] = "finally"
    /\ \/ active' = active \cup disabled[u] /\ UNCHANGED <<excused, faults>>
       \/ disabled[u] # {} /\ Fault /\ excused' = excused \cup disabled[u]
          /\ UNCHANGED active
    /\ exit' = [exit EXCEPT ![u] = ExitCode(u)]
    /\ Go(u, "ended")
    /\ UNCHANGED <<moves, applying, kind, models, found, disabled, result, products,
                   actionOk, wanted, late, edits>>

(* The process is killed: nothing is put back.                             *)
Kill(u) ==
    /\ at[u] \notin {"idle", "ended"} /\ Fault
    /\ excused' = excused \cup disabled[u]
    /\ Go(u, "ended")
    /\ UNCHANGED <<active, moves, applying, kind, models, found, disabled, result, products,
                   actionOk, exit, wanted, late, edits>>

Administer ==
    /\ edits < MaxEdits /\ edits' = edits + 1
    /\ \E r \in Rule :
          /\ active' = IF r \in active THEN active \ {r} ELSE active \cup {r}
          /\ wanted' = IF r \in active THEN wanted \ {r} ELSE wanted \cup {r}
          /\ excused' = IF \E u \in User : at[u] \notin {"idle", "ended"}
                        THEN excused \cup {r} ELSE excused
    /\ UNCHANGED <<moves, applying, at, kind, models, found, disabled, result, products,
                   actionOk, exit, late, faults>>

Next ==
    \/ Administer
    \/ \E u \in User :
          \/ Find(u) \/ SwitchOff(u) \/ SetupFails(u) \/ Import(u) \/ Export(u)
          \/ ReadProducts(u) \/ PostAction(u) \/ Applied(u) \/ Date(u) \/ Finally(u)
          \/ Kill(u)

Spec == Init /\ [][Next]_vars
-----------------------------------------------------------------------------
TypeOK ==
    /\ active \subseteq Rule /\ wanted \subseteq Rule /\ excused \subseteq Rule
    /\ moves \subseteq Move /\ applying \subseteq User /\ late \subseteq User
    /\ at \in [User -> {"idle", "find", "switch", "run", "products", "action", "dates",
                       "finally", "ended"}]
    /\ kind \in [User -> {"import", "export"}]
    /\ models \in [User -> 0 .. Len(ModelRules)]
    /\ found \in [User -> SUBSET Rule] /\ disabled \in [User -> SUBSET Rule]
    /\ result \in [User -> {"none", "empty", "rows"}]
    /\ products \in [User -> SUBSET Product]
    /\ actionOk \in [User -> BOOLEAN] /\ exit \in [User -> -1 .. 1]
    /\ faults \in 0 .. MaxFaults /\ edits \in 0 .. MaxEdits

(* When the last command has ended the rules are as their administrators   *)
(* want them, however the commands overlapped: none is left off and none   *)
(* was switched on, but for those of a command that was killed or that     *)
(* never heard what became of its call, and those that an administrator    *)
(* switched meanwhile.                                                     *)
RulesComeBack ==
    (\A u \in User : at[u] \in {"idle", "ended"}) =>
        \A r \in Rule \ excused : r \in active <=> r \in wanted

(* A command that ended with exit code 0 after a post-action that was      *)
(* heard of has dated every move of it; no move is dated that is old, or   *)
(* is of no product a user imported.                                       *)
MovesAreDated ==
    /\ \A u \in User : exit[u] = 0 /\ actionOk[u] /\ products[u] # {} /\ u \notin late =>
          \A m \in moves : m.by = u => m.dated
    /\ \A m \in moves : m.dated => /\ m.age = "new"
                                   /\ \E u \in User : m.product \in Imported[u] /\ actionOk[u]

SudoIsSound == TypeOK /\ RulesComeBack /\ MovesAreDated

(* While a command with --sudo runs, the record rules it took out of force *)
(* stay out of force.                                                      *)
RunsWithoutRules ==
    \A u \in User : at[u] = "run" => disabled[u] \cap active = {}
-----------------------------------------------------------------------------
(***************************************************************************)
(* What keeps itself true, step by step, and implies the above.            *)
(***************************************************************************)
Live(u) == at[u] \notin {"idle", "ended"}
Taking(u) == IF at[u] = "switch" THEN disabled[u] \cup found[u] ELSE disabled[u]

(* A command that has not begun holds no rule, and one that looks for the  *)
(* rules of a model has a model left.                                      *)
ModelsLeft ==
    \A u \in User : /\ at[u] = "idle" => disabled[u] = {}
                    /\ at[u] \in {"find", "switch"} => models[u] < Models(u)

(* A rule in force is wanted; so is each rule that a command has taken out *)
(* of force or is about to; and a wanted rule that is out of force is held *)
(* by a command that will put it back.                                     *)
RulesHeld ==
    \A r \in Rule \ excused :
        /\ r \in active => r \in wanted
        /\ \A u \in User : Live(u) /\ r \in Taking(u) => r \in wanted
        /\ r \in wanted \ active => \E u \in User : Live(u) /\ r \in disabled[u]

(* The post-action has not counted as done before it was called, and a     *)
(* command that has ended well has ended.                                  *)
ActionsKnown ==
    /\ applying \subseteq late
    /\ \A u \in User :
          /\ at[u] \in {"idle", "find", "switch", "run", "products", "action"} =>
                ~actionOk[u]
          /\ products[u] \in {{}, Imported[u]}
          /\ exit[u] = 0 => at[u] = "ended"

(* A user's moves are new and of the products imported; a move is dated    *)
(* for a user whose post-action counts as done.                            *)
MovesKnown ==
    \A m \in moves :
        /\ m.by # "other" => m.product \in Imported[m.by] /\ m.age = "new"
        /\ m.dated => /\ m.age = "new"
                      /\ \E u \in User : m.product \in Imported[u] /\ actionOk[u]

(* A command that has dated its moves has none that is not dated.          *)
Dates(u) == /\ at[u] = "finally" \/ exit[u] = 0
            /\ actionOk[u] /\ products[u] # {} /\ u \notin late
AllDated == \A u \in User : Dates(u) => \A m \in moves : m.by = u => m.dated

SudoInv ==
    TypeOK /\ ModelsLeft /\ RulesHeld /\ ActionsKnown /\ MovesKnown /\ AllDated
===========================================================================
