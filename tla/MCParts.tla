------------------------------- MODULE MCParts -------------------------------
(***************************************************************************)
(* Thirteen small specifications in one run: a behaviour is of LoadBatch   *)
(* or of one of the instances of Parts and Tools, as part says, and the    *)
(* variables of the others rest.                                           *)
(***************************************************************************)
EXTENDS MCLoadBatch, Parts, Tools, TLC

(* Five rows in two columns, in families and groups of every kind.  Column *)
(* 3 is not in the file.                                                   *)
BatchRow(id, val) == [id |-> id, val |-> val]
BatchFiles ==
    {<<BatchRow(TRUE, <<1, 1>>), second, third, fourth, BatchRow(TRUE, <<1, 1>>)>> :
        second \in {BatchRow(FALSE, <<0, 1>>), BatchRow(TRUE, <<2, 1>>)},
        third \in {BatchRow(TRUE, <<1, 2>>), BatchRow(FALSE, <<1, 1>>)},
        fourth \in {BatchRow(TRUE, <<2, 1>>), BatchRow(FALSE, <<0, 0>>)}}
BatchRequests == {<< >>, <<1>>, <<1, 2>>, <<2, 1>>, <<1, 3>>}

(* A file that is imported again after its rows were changed on the server *)
(* and one with a new row.                                                 *)
FilterRow(id, val, link) == [id |-> id, val |-> val, link |-> link]
FilesToFilter ==
    {<<FilterRow("m.a", "1", TRUE), FilterRow("b", "2", TRUE)>>,
     <<FilterRow("m.a", "1", FALSE), FilterRow("m.c", "2", FALSE)>>}

(* Three rows, two of which ask for targets; parents before, after and     *)
(* across them; a language and a company.                                  *)
CommandAsked == <<{"t", "u"}, {"u"}, {}>>
CommandParents == {<<0, 0, 0>>, <<3, 0, 0>>, <<2, 3, 0>>}
CommandQualified == <<{1, 3}, {2}>>
CommandOption(fail, auto, listed, add) ==
    [fail |-> fail, auto |-> auto, listed |-> listed, add |-> add]
CommandOptions ==
    {CommandOption(FALSE, TRUE, FALSE, FALSE), CommandOption(TRUE, TRUE, FALSE, FALSE),
     CommandOption(FALSE, FALSE, TRUE, FALSE), CommandOption(FALSE, TRUE, FALSE, TRUE)}

(* A translated column, one for a company and two relations; the schema    *)
(* may change between two runs.                                            *)
CheckField(type, required, company, translate) ==
    [type |-> type, required |-> required, company |-> company, translate |-> translate]
CheckQualifier ==
    [name |-> "plain", nameL |-> "nl", cost1 |-> "c1", partner |-> "plain", tags |-> "plain"]
CheckSchema ==
    [name |-> CheckField("char", FALSE, FALSE, TRUE),
     nameL |-> CheckField("char", FALSE, FALSE, TRUE),
     cost1 |-> CheckField("float", FALSE, TRUE, FALSE),
     partner |-> CheckField("m2o", TRUE, FALSE, FALSE),
     tags |-> CheckField("m2m", FALSE, FALSE, FALSE)]
CheckSchemas ==
    {CheckSchema,
     [CheckSchema EXCEPT !.partner = CheckField("m2o", FALSE, TRUE, FALSE),
                         !.nameL = CheckField("char", FALSE, TRUE, TRUE)],
     [CheckSchema EXCEPT !.nameL = CheckField("char", FALSE, TRUE, FALSE),
                         !.tags = CheckField("unknown", FALSE, FALSE, FALSE)]}
CheckRefs == [name |-> {}, nameL |-> {}, cost1 |-> {}, partner |-> {"r"}, tags |-> {"s"}]
CheckOption(fail, auto, listed, groupby, refs, chosen, default, dict) ==
    [fail |-> fail, auto |-> auto, listed |-> listed, groupby |-> groupby, refs |-> refs,
     chosen |-> chosen, default |-> default, collisions |-> TRUE, dict |-> dict]
CheckOptions ==
    {CheckOption(FALSE, TRUE, "no", TRUE, "fail", FALSE, FALSE, FALSE),
     CheckOption(FALSE, FALSE, "base", TRUE, "warn", TRUE, FALSE, TRUE),
     CheckOption(TRUE, FALSE, "no", FALSE, "skip", FALSE, TRUE, FALSE)}

(* Rows of one record that disagree, and an id that is no number.          *)
WriteRow(id, val) == [id |-> id, val |-> val]
FilesToWrite ==
    {<<WriteRow(1, "a"), WriteRow(2, "b"), WriteRow(3, "a"), WriteRow(1, "b"), WriteRow(2, "b")>>,
     <<WriteRow(1, "a"), WriteRow(2, "b"), WriteRow(0, "a")>>}

RulesOfModels == <<{"r1"}, {"r1", "r2"}>>
ImportedByUsers == [u1 |-> {"x"}, u2 |-> {"x", "y"}]
ResponseThresholds == <<2, 5, 10>>
InvoiceLegacy == [i |-> "open", j |-> "paid", k |-> "proforma"]

(* Variables that refer to each other, to themselves and to none; two      *)
(* flows, and two with the same name.                                      *)
TextsOfVariables ==
    {[a |-> <<"b">>, b |-> <<"c", "c">>, c |-> << >>],
     [a |-> <<"b">>, b |-> <<"c">>, c |-> <<"d">>, d |-> << >>],
     [a |-> <<"a">>],
     [a |-> <<"b", "c">>, b |-> << >>, c |-> <<"b">>]}
OverridingTexts == {<< >>, <<"a">>, <<"b">>}
FlowStep(flow, command, onError, flowOnError) ==
    [flow |-> flow, command |-> command, onError |-> onError, flowOnError |-> flowOnError,
     file |-> "f"]
FilesOfFlows ==
    {[names |-> <<"one", "two">>,
      steps |-> <<FlowStep(1, "import", "abort", "continue"),
                  FlowStep(1, "write", "continue", "continue"),
                  FlowStep(2, "export", "abort", "abort"),
                  FlowStep(2, "migrate", "continue", "abort"),
                  FlowStep(2, "import", "abort", "abort")>>],
     [names |-> <<"one", "one">>,
      steps |-> <<FlowStep(1, "import", "abort", "abort"),
                  FlowStep(2, "import", "abort", "abort")>>]}
-----------------------------------------------------------------------------

(* The variables from the one with this number on, and their resting value.  *)
from18 == <<v18, v19, v20, v21, v22>>
Off18 == v18 = 0 /\ v19 = 0 /\ v20 = 0 /\ v21 = 0 /\ v22 = 0
from17 == <<v17, from18>>
Off17 == v17 = 0 /\ Off18
from15 == <<v15, v16, from17>>
Off15 == v15 = 0 /\ v16 = 0 /\ Off17
from14 == <<v14, from15>>
Off14 == v14 = 0 /\ Off15
from13 == <<v13, from14>>
Off13 == v13 = 0 /\ Off14
from12 == <<v12, from13>>
Off12 == v12 = 0 /\ Off13
from11 == <<v11, from12>>
Off11 == v11 = 0 /\ Off12
from10 == <<v10, from11>>
Off10 == v10 = 0 /\ Off11

rest == <<v1, v2, v3, v4, v5, v6, v7, v8, v9, from10>>
hostVars == <<client, call, server>>
allVars == <<part, hostVars, rest>>

PartsInit ==
    /\ Init
    /\ \/ /\ part = "load" /\ v1 = 0 /\ v2 = 0 /\ v3 = 0 /\ v4 = 0 /\ v5 = 0 /\ v6 = 0
          /\ v7 = 0 /\ v8 = 0 /\ v9 = 0 /\ Off10
       \/ part = "batching" /\ Batching!Init /\ Off10
       \/ part = "filter" /\ Filter!Init /\ Off15
       \/ part = "import" /\ Import!Init
       \/ part = "pacing" /\ Pacing!Init /\ Off11
       \/ part = "checks" /\ Checks!Init /\ Off14
       \/ part = "write" /\ Write!Init /\ Off13
       \/ part = "sudo" /\ Sudo!Init /\ Off18
       \/ part = "vies" /\ Vies!Init /\ Off17
       \/ part = "invoices" /\ Invoices!Init /\ Off13
       \/ part = "variants" /\ Variants!Init /\ Off12
       \/ part = "export" /\ Export!Init /\ Off13
       \/ part = "flow" /\ Flow!Init /\ Off14

PartsNext ==
    \/ part = "load" /\ Next /\ UNCHANGED <<part, rest>>
    \/ part = "batching" /\ Batching!Next /\ UNCHANGED <<part, hostVars, from10>>
    \/ part = "filter" /\ Filter!Next /\ UNCHANGED <<part, hostVars, from15>>
    \/ part = "import" /\ Import!Next /\ UNCHANGED <<part, hostVars>>
    \/ part = "pacing" /\ Pacing!Next /\ UNCHANGED <<part, hostVars, from11>>
    \/ part = "checks" /\ Checks!Next /\ UNCHANGED <<part, hostVars, from14>>
    \/ part = "write" /\ Write!Next /\ UNCHANGED <<part, hostVars, from13>>
    \/ part = "sudo" /\ Sudo!Next /\ UNCHANGED <<part, hostVars, from18>>
    \/ part = "vies" /\ Vies!Next /\ UNCHANGED <<part, hostVars, from17>>
    \/ part = "invoices" /\ Invoices!Next /\ UNCHANGED <<part, hostVars, from13>>
    \/ part = "variants" /\ Variants!Next /\ UNCHANGED <<part, hostVars, from12>>
    \/ part = "export" /\ Export!Next /\ UNCHANGED <<part, hostVars, from13>>
    \/ part = "flow" /\ Flow!Next /\ UNCHANGED <<part, hostVars, from14>>

PartsSpec == PartsInit /\ [][PartsNext]_allVars
=============================================================================
