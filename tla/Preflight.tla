----------------------------- MODULE Preflight -----------------------------
(***************************************************************************)
(* The checks before an import (lib/preflight.py, in the order they are    *)
(* registered) and what run_import makes of their plan (importer.py).      *)
(* Each check reads the file and the server for itself and either stops    *)
(* the import or adds to the plan; the server changes meanwhile, and the   *)
(* fields of the model come from a cache that nothing invalidates.  A file *)
(* is what the checks can tell of it: its columns, the values they search. *)
(***************************************************************************)
EXTENDS Integers, Sequences, FiniteSets

CONSTANTS
    Column,       \* the columns of the source file
    Qualifier,    \* Column -> what follows its "@": a language, a company, or a mark below
    Schemas,      \* what the model's fields may be: functions Column -> field
    Refs,         \* Column -> the records its cells refer to
    Structured,   \* columns with a dict or list in some cell
    Spoken,       \* languages in the column "lang"
    Collides,     \* two ids of the file become one external id
    Hierarchy,    \* the columns id and parent_id form one
    Shared,       \* columns in which values repeat (candidates for grouping)
    Lang, Company, Ref,
    Options,      \* the options a run may be given
    MaxRuns, MaxChanges, MaxFaults   \* bounds

Plain == "plain"          \* a column without a qualifier
Empty == "empty"          \* one with nothing after its "@"
Unknown == [type |-> "unknown", required |-> FALSE, company |-> FALSE, translate |-> FALSE]
NoSchema == [c \in {} |-> Unknown]

Option == [fail : BOOLEAN, auto : BOOLEAN, listed : {"no", "base", "suffixed"},
           groupby : BOOLEAN, refs : {"fail", "warn", "skip"}, chosen : BOOLEAN,
           default : BOOLEAN, collisions : BOOLEAN, dict : BOOLEAN]

VARIABLES
    schema,      \* server: the fields of the model
    langs,       \* server: active languages
    companies,   \* server: existing companies
    records,     \* server: records that can be referred to
    cached,      \* .fluvo_cache: fields of the model, or NoSchema
    option,      \* the options of this run
    step,        \* the check that is next; minus the check that has stopped the run
    plan,        \* import_plan
    base,        \* what run_import makes of it: [ignored, deferred, grouped]
    seen,        \* history of this run: see Unseen
    runs, changes, faults

server == <<schema, langs, companies, records>>
rest   == <<option, base, runs, changes>>
vars   == <<server, cached, step, plan, seen, rest, faults>>

Checks == <<"connection", "company context", "self reference", "language", "deferral",
            "collision", "reference", "structured", "translation", "company", "use">>
At(name) == step \in DOMAIN Checks /\ Checks[step] = name
StoppedAt(name) == -step \in DOMAIN Checks /\ Checks[-step] = name
Idle == 0
Ready == Len(Checks) + 1

NoPlan == [sort |-> FALSE, deferred |-> {}, strategies |-> {}, required |-> {},
           grouped |-> {}, lang |-> {}, company |-> {}]
NoBase == [ignored |-> {}, deferred |-> {}, grouped |-> {}]
Several == -1
Unseen == [schemas |-> {},          \* the fields the checks have read
           guard |-> NoSchema,      \* those the company guard has read
           count |-> Several,       \* the companies it has counted
           answer |-> "none",       \* what the references looked up were
           smooth |-> TRUE]         \* nothing has failed

Init ==
    /\ schema \in Schemas /\ langs \in SUBSET Lang
    /\ companies \in SUBSET Company /\ records \in SUBSET Ref
    /\ cached = NoSchema /\ option = CHOOSE o \in Options : TRUE
    /\ step = Idle /\ plan = NoPlan /\ base = NoBase /\ seen = Unseen
    /\ runs = 0 /\ changes = 0 /\ faults = 0
-----------------------------------------------------------------------------
Start(o) ==
    /\ step \notin DOMAIN Checks /\ runs < MaxRuns /\ runs' = runs + 1
    /\ option' = o /\ step' = 1 /\ plan' = NoPlan /\ base' = NoBase /\ seen' = Unseen
    /\ UNCHANGED <<server, cached, changes, faults>>

(* The server meanwhile: a module is installed or removed, a company or a  *)
(* record is made.                                                         *)
Change ==
    /\ changes < MaxChanges /\ changes' = changes + 1
    /\ \/ schema' \in Schemas \ {schema} /\ UNCHANGED <<companies, records>>
       \/ /\ \E c \in Company \ companies : companies' = companies \cup {c}
          /\ UNCHANGED <<schema, records>>
       \/ /\ \E r \in Ref \ records : records' = records \cup {r}
          /\ UNCHANGED <<schema, companies>>
    /\ UNCHANGED <<langs, cached, option, step, plan, base, seen, runs, faults>>
-----------------------------------------------------------------------------
Continue == step' = step + 1
Stop == step' = -step /\ UNCHANGED plan
Pass == Continue /\ UNCHANGED plan

Fault == /\ faults < MaxFaults /\ faults' = faults + 1
         /\ seen' = [seen EXCEPT !.smooth = FALSE]

(* _get_odoo_fields: the cache if there is one; it is never renewed.       *)
Cached == ~option.dict /\ cached # NoSchema
Fields == IF Cached THEN cached ELSE schema

Renewed == IF option.dict THEN cached ELSE Fields
SeenFields == [seen EXCEPT !.schemas = @ \cup {Fields}]

Read == cached' = Renewed /\ seen' = SeenFields /\ UNCHANGED faults
ReadAndFault == /\ cached' = Renewed /\ seen' = [SeenFields EXCEPT !.smooth = FALSE]
                /\ faults < MaxFaults /\ faults' = faults + 1
Unread == ~Cached /\ Fault /\ UNCHANGED cached

Connection ==
    /\ At("connection")
    /\ \/ Pass /\ UNCHANGED <<seen, faults>>
       \/ Fault /\ Stop
    /\ UNCHANGED <<server, cached, rest>>

(* The company guard.  A column with a qualifier is no field of the model  *)
(* and does not count; companies that cannot be counted count as several.  *)
Field(c) == IF Qualifier[c] = Plain THEN Fields[c] ELSE Unknown
CompanyAware(fields) == \E c \in Column : Qualifier[c] = Plain /\ fields[c].company

RiskyIfCounted(n) == n > 1 /\ ~option.default
Risky(n) == n \notin {0, 1} /\ ~option.default

CompanyContext ==
    /\ At("company context")
    /\ \/ Unread /\ Pass
       \/ /\ ~CompanyAware(Fields) \/ option.chosen
          /\ cached' = Renewed /\ seen' = [SeenFields EXCEPT !.guard = Fields]
          /\ Pass /\ UNCHANGED faults
       \/ /\ CompanyAware(Fields) /\ ~option.chosen
          /\ cached' = Renewed
          /\ \E n \in {Several, Cardinality(companies)} :
                /\ seen' = [SeenFields EXCEPT !.guard = Fields, !.count = n,
                                             !.smooth = @ /\ n # Several]
                /\ IF n = Several THEN faults < MaxFaults /\ faults' = faults + 1
                                  ELSE UNCHANGED faults
                /\ IF Risky(n) THEN Stop ELSE Pass
    /\ UNCHANGED <<server, rest>>

(* A file that cannot be read stops the import here.                       *)
SelfReference ==
    /\ At("self reference")
    /\ \/ Continue /\ plan' = [plan EXCEPT !.sort = Hierarchy] /\ UNCHANGED <<seen, faults>>
       \/ Fault /\ Stop
    /\ UNCHANGED <<server, cached, rest>>

(* The installer goes on after a language it could not install; what it    *)
(* has installed stays, whatever the later checks say.  A user may refuse, *)
(* and a run configured by a dict cannot install.                          *)
Language ==
    /\ At("language")
    /\ \/ option.fail /\ Pass /\ UNCHANGED <<langs, seen, faults>>
       \/ ~option.fail /\ Spoken \subseteq langs /\ Pass /\ UNCHANGED <<langs, seen, faults>>
       \/ /\ ~option.fail /\ ~(Spoken \subseteq langs)
          /\ \/ /\ ~option.dict /\ langs' = langs \cup Spoken
                /\ Pass /\ UNCHANGED <<seen, faults>>
             \/ /\ ~option.dict /\ Fault /\ Stop
                /\ \E some \in SUBSET Spoken : langs' = langs \cup some
             \/ Stop /\ UNCHANGED <<langs, seen, faults>>
       \/ ~option.fail /\ Fault /\ Stop /\ UNCHANGED langs
    /\ UNCHANGED <<schema, companies, records, cached, rest>>
-----------------------------------------------------------------------------
Valid(c) == Fields[c].type # "unknown"
Of(types) == {c \in Column : Field(c).type \in types}

(* Only a required many2one to another model is kept out of the plan here; *)
(* other required relations are taken out when the plan is used.           *)
Deferrable ==
    Of({"self", "m2m", "o2m"})
    \cup {c \in Of({"m2o"}) : option.auto /\ ~Field(c).required}

Groupable == IF option.groupby THEN Of({"m2o"}) \cap Shared ELSE {}
Groupings == IF Groupable = {} THEN {{}} ELSE {{c} : c \in Groupable}

Planned(grouped) ==
    [plan EXCEPT
        !.required = {c \in Of({"m2o", "self", "m2m", "o2m"}) : Field(c).required},
        !.grouped = grouped,
        !.deferred = IF option.auto THEN Deferrable ELSE {},
        !.strategies = IF option.auto THEN Of({"m2m", "o2m"}) ELSE {}]

Deferral ==
    /\ At("deferral")
    /\ \/ Unread /\ Stop
       \/ Read /\ (\E c \in Column : ~Valid(c)) /\ Stop
       \/ Read /\ (\A c \in Column : Valid(c)) /\ option.fail /\ Pass
       \/ /\ Read /\ (\A c \in Column : Valid(c)) /\ ~option.fail
          /\ Continue /\ \E grouped \in Groupings : plan' = Planned(grouped)
    /\ UNCHANGED <<server, rest>>

Collision ==
    /\ At("collision")
    /\ IF Collides /\ ~option.collisions THEN Stop ELSE Pass
    /\ UNCHANGED <<server, cached, seen, rest, faults>>

(* A lookup that fails says nothing about the references it was for.       *)
Wanted == {c \in Of({"m2o", "self", "m2m"}) : Refs[c] # {}}
Absent(c) == ~(Refs[c] \subseteq records)
Missing(looked) == {c \in looked : Absent(c)}
IfStrict == IF option.refs = "fail" THEN Stop ELSE Pass

Reference ==
    /\ At("reference")
    /\ \/ (option.fail \/ option.refs = "skip") /\ Pass /\ UNCHANGED <<cached, seen, faults>>
       \/ /\ ~option.fail /\ option.refs # "skip"
          /\ \/ Unread /\ IfStrict
             \/ Wanted = {} /\ Read /\ Pass
             \/ Wanted # {} /\ ReadAndFault /\ IfStrict
             \/ /\ Wanted # {} /\ cached' = Renewed
                /\ \E looked \in SUBSET Wanted :
                      /\ looked # Wanted => faults < MaxFaults
                      /\ faults' = IF looked = Wanted THEN faults ELSE faults + 1
                      /\ seen' = [SeenFields EXCEPT
                                     !.smooth = @ /\ looked = Wanted,
                                     !.answer = IF \E c \in looked : Absent(c)
                                                THEN "absent" ELSE "present"]
                      /\ IF Missing(looked) # {} THEN IfStrict ELSE Pass
    /\ UNCHANGED <<server, rest>>

StructuredValue ==
    /\ At("structured")
    /\ \/ Unread /\ Pass
       \/ Read /\ IF Structured \cap Of({"char"}) # {} THEN Stop ELSE Pass
    /\ UNCHANGED <<server, rest>>
-----------------------------------------------------------------------------
(* field@language and field@company: a field that is translatable takes a  *)
(* language, whatever else it is.                                          *)
AtColumns == {c \in Column : Qualifier[c] # Plain}
Translations == {c \in AtColumns : Fields[c].translate}
PerCompany == {c \in AtColumns : Fields[c].company} \ Translations

Translation ==
    /\ At("translation")
    /\ \/ AtColumns = {} /\ Pass /\ UNCHANGED <<cached, seen, faults>>
       \/ AtColumns # {} /\ Unread /\ Pass
       \/ /\ \/ \E c \in AtColumns : ~Fields[c].translate /\ ~Fields[c].company
             \/ \E c \in Translations : Qualifier[c] \notin langs
          /\ Read /\ Stop
       \/ /\ AtColumns # {} /\ AtColumns = Translations \cup PerCompany
          /\ Continue /\ plan' = [plan EXCEPT !.lang = Translations]
          /\ \/ (\A c \in Translations : Qualifier[c] \in langs) /\ Read
             \/ /\ Translations # {} /\ \A c \in Translations : Qualifier[c] # Empty
                /\ ReadAndFault
    /\ UNCHANGED <<server, rest>>

CompanyColumns ==
    /\ At("company")
    /\ \/ AtColumns = {} /\ Pass /\ UNCHANGED <<cached, seen, faults>>
       \/ AtColumns # {} /\ Unread /\ Pass
       \/ /\ AtColumns # {} /\ \A c \in PerCompany : Qualifier[c] \in companies
          /\ Read /\ Continue /\ plan' = [plan EXCEPT !.company = PerCompany]
       \/ /\ \E c \in PerCompany : Qualifier[c] \notin companies
          /\ Read /\ Stop
       \/ PerCompany # {} /\ ReadAndFault /\ Stop
    /\ UNCHANGED <<server, rest>>

(* run_import: columns with passes of their own are left out of the base   *)
(* import; --deferred-fields, unless the file is sorted, comes before what *)
(* --auto-defer planned; required relations are taken out again if they    *)
(* are spelled as in the plan, and what is deferred is not grouped by.     *)
Listed == Of({"m2m", "m2o"})
ByList == option.listed # "no" /\ ~plan.sort
ChosenToDefer == IF ByList THEN Listed ELSE IF option.auto THEN plan.deferred ELSE {}
Blocked == IF ByList /\ option.listed = "suffixed" THEN {} ELSE plan.required

Use ==
    /\ At("use") /\ Continue
    /\ base' = [ignored |-> plan.lang \cup plan.company,
                deferred |-> ChosenToDefer \ Blocked,
                grouped |-> plan.grouped \ (ChosenToDefer \ Blocked)]
    /\ UNCHANGED <<server, cached, option, plan, seen, runs, changes, faults>>
-----------------------------------------------------------------------------
Next ==
    \/ \E o \in Options : Start(o)
    \/ Change
    \/ Connection \/ CompanyContext \/ SelfReference \/ Language \/ Deferral \/ Collision
    \/ Reference \/ StructuredValue \/ Translation \/ CompanyColumns \/ Use

Spec == Init /\ [][Next]_vars
-----------------------------------------------------------------------------
TypeOK ==
    /\ schema \in Schemas /\ langs \subseteq Lang
    /\ companies \subseteq Company /\ records \subseteq Ref
    /\ cached \in Schemas \cup {NoSchema}
    /\ option \in Options /\ Options \subseteq Option
    /\ step \in -Len(Checks) .. Ready
    /\ DOMAIN plan = DOMAIN NoPlan /\ DOMAIN base = DOMAIN NoBase /\ DOMAIN seen = DOMAIN Unseen
    /\ \A f \in DOMAIN plan \ {"sort"} : plan[f] \subseteq Column
    /\ \A f \in DOMAIN base : base[f] \subseteq Column
    /\ seen.schemas \subseteq Schemas /\ seen.count \in Several .. Cardinality(Company)
    /\ runs \in 0 .. MaxRuns /\ changes \in 0 .. MaxChanges /\ faults \in 0 .. MaxFaults

(* An import of a model that is company-aware, as far as the guard could   *)
(* read its fields, goes ahead only with a company chosen, the default     *)
(* allowed, or no second company in the database when it counted them.     *)
NoSilentCompany ==
    step = Ready /\ seen.guard # NoSchema /\ CompanyAware(seen.guard) =>
        option.chosen \/ option.default \/ seen.count \in {0, 1}

(* Every column with a qualifier is written by exactly one kind of pass,   *)
(* for a language or company that was there, and not by the base import -  *)
(* unless two checks have read different fields or one could not.          *)
EachColumnOnce ==
    step = Ready /\ (\E fields \in Schemas : seen.schemas = {fields}) /\ seen.smooth =>
        /\ base.ignored = AtColumns
        /\ plan.lang \cap plan.company = {}
        /\ \A c \in plan.lang : Qualifier[c] \in langs
        /\ \A c \in plan.company : Qualifier[c] \in companies

(* A required relation is never deferred by a run that has planned, unless *)
(* it was listed with its "/id"; nothing is both deferred and grouped by,  *)
(* and every strategy is for a field that was planned to be deferred.      *)
DeferralIsSafe ==
    step = Ready =>
        /\ ~option.fail /\ option.listed # "suffixed" => base.deferred \cap plan.required = {}
        /\ base.deferred \cap base.grouped = {}
        /\ plan.strategies \subseteq plan.deferred

(* No import is stopped because of references that could not be looked up: *)
(* if some could, and those were all there, it goes on.                    *)
UnknownIsNotMissing == StoppedAt("reference") => seen.answer # "present"

ChecksAreSound ==
    TypeOK /\ NoSilentCompany /\ EachColumnOnce /\ DeferralIsSafe /\ UnknownIsNotMissing
-----------------------------------------------------------------------------
(***************************************************************************)
(* What keeps itself true, step by step, and implies ChecksAreSound.       *)
(***************************************************************************)
Until(name) == \E k \in DOMAIN Checks : Checks[k] = name /\ step \in 1 .. k
Past(name)  == \E k \in DOMAIN Checks : Checks[k] = name /\ step > k

ForLang(fields) == {c \in AtColumns : fields[c].translate}
ForCompany(fields) == {c \in AtColumns : fields[c].company} \ ForLang(fields)

(* What is in the plan before the checks for it.                           *)
PlanHolds ==
    /\ Until("translation") => plan.lang = {}
    /\ Until("company") => plan.company = {}
    /\ plan.strategies \subseteq plan.deferred

(* What the company guard has read lets the import go on.                  *)
GuardHolds ==
    /\ Until("company context") => seen.guard = NoSchema
    /\ Past("company context") /\ seen.guard # NoSchema /\ CompanyAware(seen.guard) =>
          option.chosen \/ option.default \/ seen.count \in {0, 1}

(* While all checks have read the same fields and none has failed, the two *)
(* checks for qualified columns have divided them as those fields say.     *)
ColumnsHold ==
    \A fields \in Schemas : seen.smooth /\ seen.schemas \subseteq {fields} =>
        /\ Past("translation") =>
              /\ plan.lang = ForLang(fields)
              /\ AtColumns = ForLang(fields) \cup ForCompany(fields)
              /\ \A c \in plan.lang : Qualifier[c] \in langs
        /\ Past("company") =>
              /\ plan.company = ForCompany(fields)
              /\ \A c \in plan.company : Qualifier[c] \in companies

AnswerHolds ==
    /\ Until("reference") => seen.answer = "none"
    /\ UnknownIsNotMissing

BaseHolds ==
    step = Ready => base.ignored = plan.lang \cup plan.company /\ DeferralIsSafe

CheckInv ==
    TypeOK /\ PlanHolds /\ GuardHolds /\ ColumnsHold /\ AnswerHolds /\ BaseHolds
=============================================================================
