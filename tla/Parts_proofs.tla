---------------------------- MODULE Parts_proofs ----------------------------
(***************************************************************************)
(* What the specifications of Parts promise, for any constants: one after  *)
(* the other, the steps that keep each conjunct of an invariant, the       *)
(* invariant, and the property that follows from it.                       *)
(***************************************************************************)
EXTENDS Parts, Slicing_proofs, FiniteSetTheorems, TLAPS

(***************************************************************************)
(* SudoCommand                                                             *)
(***************************************************************************)
(* The moves of a user's import are moves.                                 *)
LEMMA SudoMadeTyped ==
    ASSUME NEW u \in SudoUser
    PROVE  Sudo!Made(u) \subseteq Sudo!Move
<1>1. SudoImported[u] \subseteq SudoProduct
  BY SudoAssumption
<1>2. ASSUME NEW x \in SudoImported[u]
      PROVE  [product |-> x, by |-> u, age |-> "new", dated |-> FALSE] \in Sudo!Move
  BY <1>1 DEF Sudo!Move
<1>. QED
  BY <1>2 DEF Sudo!Made

(* They are of this user and of what was imported, new and not yet dated.  *)
LEMMA SudoMade ==
    ASSUME NEW u \in SudoUser, NEW m \in Sudo!Made(u)
    PROVE  /\ m.by = u /\ m.product \in SudoImported[u]
           /\ m.age = "new" /\ m.dated = FALSE
BY DEF Sudo!Made

(* A move that has been dated is the move it was but for its date.         *)
LEMMA SudoDated ==
    ASSUME NEW k \in Sudo!Move, NEW m, m = [k EXCEPT !.dated = TRUE]
    PROVE  /\ m.by = k.by /\ m.product = k.product /\ m.age = k.age
           /\ m.dated = TRUE
BY DEF Sudo!Move

(* A command counts its models down from the last.                         *)
LEMMA SudoModels ==
    ASSUME NEW u \in SudoUser
    PROVE  Len(SudoModelRules) \in Nat /\ Sudo!Models(u) \in 1 .. Len(SudoModelRules)
<1>1. Len(SudoModelRules) \in Nat /\ Len(SudoModelRules) # 0
  BY SudoAssumption
<1>. QED
  BY <1>1 DEF Sudo!Models

(* Types, step by step.                                                    *)
LEMMA SudoTyped ==
    ASSUME Sudo!TypeOK, Sudo!ModelsLeft, [Sudo!Next]_Sudo!vars
    PROVE  Sudo!TypeOK'
<1>. USE SudoAssumption DEF Sudo!TypeOK, Sudo!Go, Sudo!Fault
<1>0. ASSUME NEW u \in SudoUser PROVE SudoImported[u] \in SUBSET SudoProduct
  BY <1>0
<1>1. CASE Sudo!Administer
  BY <1>1 DEF Sudo!Administer
<1>2. CASE UNCHANGED Sudo!vars
  BY <1>2 DEF Sudo!vars
<1>3. \A u \in SudoUser : Sudo!Made(u) \subseteq Sudo!Move
  BY SudoMadeTyped
<1>4. ASSUME NEW u \in SudoUser, Sudo!Find(u) PROVE Sudo!TypeOK'
  BY <1>4 DEF Sudo!Find, Sudo!Models, Sudo!ActiveRules
<1>5. ASSUME NEW u \in SudoUser, Sudo!SwitchOff(u) PROVE Sudo!TypeOK'
  <2>1. v6[u] + 1 \in 0 .. Len(SudoModelRules)
    <3>1. v6[u] \in Nat /\ v6[u] < Sudo!Models(u)
      BY SudoModels, <1>5 DEF Sudo!SwitchOff, Sudo!ModelsLeft
    <3>. QED
      BY SudoModels, <3>1
  <2>. QED
    BY <2>1, <1>5 DEF Sudo!SwitchOff
<1>6. ASSUME NEW u \in SudoUser, Sudo!SetupFails(u) PROVE Sudo!TypeOK'
  BY <1>6 DEF Sudo!SetupFails
<1>7. ASSUME NEW u \in SudoUser, Sudo!Import(u) PROVE Sudo!TypeOK'
  BY <1>7 DEF Sudo!Import
<1>8. ASSUME NEW u \in SudoUser, Sudo!Export(u) PROVE Sudo!TypeOK'
  BY <1>8 DEF Sudo!Export
<1>9. ASSUME NEW u \in SudoUser, Sudo!ReadProducts(u) PROVE Sudo!TypeOK'
  <2>1. v10' \in [SudoUser -> SUBSET SudoProduct]
    BY <1>0, <1>9 DEF Sudo!ReadProducts
  <2>2. v16' \in 0 .. SudoFaults
    BY <1>9 DEF Sudo!ReadProducts
  <2>3. v4' \in [SudoUser -> {"idle", "find", "switch", "run", "products", "action", "dates",
                       "finally", "ended"}]
    BY <1>9 DEF Sudo!ReadProducts
  <2>. QED
    BY <2>1, <2>2, <2>3, <1>9 DEF Sudo!ReadProducts
<1>10. ASSUME NEW u \in SudoUser, Sudo!PostAction(u) PROVE Sudo!TypeOK'
  <2>1. v2' \subseteq Sudo!Move
    BY <1>3, <1>10 DEF Sudo!PostAction
  <2>2. v3' \subseteq SudoUser /\ v15' \subseteq SudoUser
    BY <1>10 DEF Sudo!PostAction
  <2>3. v11' \in [SudoUser -> BOOLEAN]
    BY <1>10 DEF Sudo!PostAction
  <2>4. v16' \in 0 .. SudoFaults
    BY <1>10 DEF Sudo!PostAction
  <2>5. v4' \in [SudoUser -> {"idle", "find", "switch", "run", "products", "action", "dates",
                       "finally", "ended"}]
    BY <1>10 DEF Sudo!PostAction
  <2>. QED
    BY <2>1, <2>2, <2>3, <2>4, <2>5, <1>10 DEF Sudo!PostAction
<1>11. ASSUME NEW u \in SudoUser, Sudo!Applied(u) PROVE Sudo!TypeOK'
  BY <1>3, <1>11 DEF Sudo!Applied
<1>12. ASSUME NEW u \in SudoUser, Sudo!Date(u) PROVE Sudo!TypeOK'
  <2>1. \A m \in v2 : [m EXCEPT !.dated = TRUE] \in Sudo!Move
    BY DEF Sudo!Move
  <2>. QED
    BY <2>1, <1>12 DEF Sudo!Date, Sudo!Recent
<1>13. ASSUME NEW u \in SudoUser, Sudo!Finally(u) PROVE Sudo!TypeOK'
  BY <1>13 DEF Sudo!Finally, Sudo!ExitCode
<1>14. ASSUME NEW u \in SudoUser, Sudo!Kill(u) PROVE Sudo!TypeOK'
  BY <1>14 DEF Sudo!Kill
<1>. QED
  BY <1>1, <1>2, <1>4, <1>5, <1>6, <1>7, <1>8, <1>9, <1>10, <1>11, <1>12, <1>13, <1>14
  DEF Sudo!Next

(* A command that looks for rules keeps a model to look at.                *)
LEMMA SudoModelsLeft ==
    ASSUME Sudo!TypeOK, Sudo!ModelsLeft, [Sudo!Next]_Sudo!vars
    PROVE  Sudo!ModelsLeft'
<1>. USE DEF Sudo!TypeOK, Sudo!ModelsLeft, Sudo!Models, Sudo!Go, Sudo!Fault
<1>1. CASE Sudo!Administer
  BY <1>1 DEF Sudo!Administer
<1>2. CASE UNCHANGED Sudo!vars
  BY <1>2 DEF Sudo!vars
<1>3. ASSUME NEW u \in SudoUser, Sudo!Find(u) PROVE Sudo!ModelsLeft'
  BY <1>3 DEF Sudo!Find
<1>4. ASSUME NEW u \in SudoUser, Sudo!SwitchOff(u) PROVE Sudo!ModelsLeft'
  BY SudoModels, <1>4 DEF Sudo!SwitchOff
<1>5. ASSUME NEW u \in SudoUser, Sudo!SetupFails(u) PROVE Sudo!ModelsLeft'
  BY <1>5 DEF Sudo!SetupFails
<1>6. ASSUME NEW u \in SudoUser, Sudo!Import(u) PROVE Sudo!ModelsLeft'
  BY <1>6 DEF Sudo!Import
<1>7. ASSUME NEW u \in SudoUser, Sudo!Export(u) PROVE Sudo!ModelsLeft'
  BY <1>7 DEF Sudo!Export
<1>8. ASSUME NEW u \in SudoUser, Sudo!ReadProducts(u) PROVE Sudo!ModelsLeft'
  BY <1>8 DEF Sudo!ReadProducts
<1>9. ASSUME NEW u \in SudoUser, Sudo!PostAction(u) PROVE Sudo!ModelsLeft'
  BY <1>9 DEF Sudo!PostAction
<1>10. ASSUME NEW u \in SudoUser, Sudo!Applied(u) PROVE Sudo!ModelsLeft'
  BY <1>10 DEF Sudo!Applied
<1>11. ASSUME NEW u \in SudoUser, Sudo!Date(u) PROVE Sudo!ModelsLeft'
  BY <1>11 DEF Sudo!Date
<1>12. ASSUME NEW u \in SudoUser, Sudo!Finally(u) PROVE Sudo!ModelsLeft'
  BY <1>12 DEF Sudo!Finally
<1>13. ASSUME NEW u \in SudoUser, Sudo!Kill(u) PROVE Sudo!ModelsLeft'
  BY <1>13 DEF Sudo!Kill
<1>. QED
  BY <1>1, <1>2, <1>3, <1>4, <1>5, <1>6, <1>7, <1>8, <1>9, <1>10, <1>11, <1>12, <1>13
  DEF Sudo!Next

(* Every step keeps a wanted rule in force or held by a command that lives.*)
LEMMA SudoRules ==
    ASSUME Sudo!TypeOK, Sudo!ModelsLeft, Sudo!RulesHeld, [Sudo!Next]_Sudo!vars
    PROVE  Sudo!RulesHeld'
<1>. USE DEF Sudo!TypeOK, Sudo!RulesHeld, Sudo!Live, Sudo!Taking, Sudo!Go, Sudo!Fault
<1>1. CASE Sudo!Administer
  BY <1>1 DEF Sudo!Administer
<1>2. CASE UNCHANGED Sudo!vars
  BY <1>2 DEF Sudo!vars
<1>3. ASSUME NEW u \in SudoUser, Sudo!Find(u) PROVE Sudo!RulesHeld'
  BY <1>3 DEF Sudo!Find, Sudo!ActiveRules, Sudo!ModelsLeft
<1>4. ASSUME NEW u \in SudoUser, Sudo!SwitchOff(u) PROVE Sudo!RulesHeld'
  BY <1>4 DEF Sudo!SwitchOff
<1>5. ASSUME NEW u \in SudoUser, Sudo!SetupFails(u) PROVE Sudo!RulesHeld'
  BY <1>5 DEF Sudo!SetupFails
<1>6. ASSUME NEW u \in SudoUser, Sudo!Import(u) PROVE Sudo!RulesHeld'
  BY <1>6 DEF Sudo!Import
<1>7. ASSUME NEW u \in SudoUser, Sudo!Export(u) PROVE Sudo!RulesHeld'
  BY <1>7 DEF Sudo!Export
<1>8. ASSUME NEW u \in SudoUser, Sudo!ReadProducts(u) PROVE Sudo!RulesHeld'
  BY <1>8 DEF Sudo!ReadProducts
<1>9. ASSUME NEW u \in SudoUser, Sudo!PostAction(u) PROVE Sudo!RulesHeld'
  BY <1>9 DEF Sudo!PostAction
<1>10. ASSUME NEW u \in SudoUser, Sudo!Applied(u) PROVE Sudo!RulesHeld'
  BY <1>10 DEF Sudo!Applied
<1>11. ASSUME NEW u \in SudoUser, Sudo!Date(u) PROVE Sudo!RulesHeld'
  BY <1>11 DEF Sudo!Date
<1>12. ASSUME NEW u \in SudoUser, Sudo!Finally(u) PROVE Sudo!RulesHeld'
  BY <1>12 DEF Sudo!Finally
<1>13. ASSUME NEW u \in SudoUser, Sudo!Kill(u) PROVE Sudo!RulesHeld'
  BY <1>13 DEF Sudo!Kill
<1>. QED
  BY <1>1, <1>2, <1>3, <1>4, <1>5, <1>6, <1>7, <1>8, <1>9, <1>10, <1>11, <1>12, <1>13
  DEF Sudo!Next

(* A post-action counts as done only after it was called, and exit 0 ends. *)
LEMMA SudoActions ==
    ASSUME Sudo!TypeOK, Sudo!ActionsKnown, [Sudo!Next]_Sudo!vars
    PROVE  Sudo!ActionsKnown'
<1>. USE SudoAssumption DEF Sudo!TypeOK, Sudo!ActionsKnown, Sudo!Go, Sudo!Fault
<1>1. CASE Sudo!Administer
  BY <1>1 DEF Sudo!Administer
<1>2. CASE UNCHANGED Sudo!vars
  BY <1>2 DEF Sudo!vars
<1>3. ASSUME NEW u \in SudoUser, Sudo!Find(u) PROVE Sudo!ActionsKnown'
  BY <1>3 DEF Sudo!Find
<1>4. ASSUME NEW u \in SudoUser, Sudo!SwitchOff(u) PROVE Sudo!ActionsKnown'
  BY <1>4 DEF Sudo!SwitchOff
<1>5. ASSUME NEW u \in SudoUser, Sudo!SetupFails(u) PROVE Sudo!ActionsKnown'
  BY <1>5 DEF Sudo!SetupFails
<1>6. ASSUME NEW u \in SudoUser, Sudo!Import(u) PROVE Sudo!ActionsKnown'
  BY <1>6 DEF Sudo!Import
<1>7. ASSUME NEW u \in SudoUser, Sudo!Export(u) PROVE Sudo!ActionsKnown'
  BY <1>7 DEF Sudo!Export
<1>8. ASSUME NEW u \in SudoUser, Sudo!ReadProducts(u) PROVE Sudo!ActionsKnown'
  BY <1>8 DEF Sudo!ReadProducts
<1>9. ASSUME NEW u \in SudoUser, Sudo!PostAction(u) PROVE Sudo!ActionsKnown'
  BY <1>9 DEF Sudo!PostAction
<1>10. ASSUME NEW u \in SudoUser, Sudo!Applied(u) PROVE Sudo!ActionsKnown'
  BY <1>10 DEF Sudo!Applied
<1>11. ASSUME NEW u \in SudoUser, Sudo!Date(u) PROVE Sudo!ActionsKnown'
  BY <1>11 DEF Sudo!Date
<1>12. ASSUME NEW u \in SudoUser, Sudo!Finally(u) PROVE Sudo!ActionsKnown'
  BY <1>12 DEF Sudo!Finally, Sudo!ExitCode
<1>13. ASSUME NEW u \in SudoUser, Sudo!Kill(u) PROVE Sudo!ActionsKnown'
  BY <1>13 DEF Sudo!Kill
<1>. QED
  BY <1>1, <1>2, <1>3, <1>4, <1>5, <1>6, <1>7, <1>8, <1>9, <1>10, <1>11, <1>12, <1>13
  DEF Sudo!Next

(* Every step leaves a date only on moves of an import that was dated.     *)
LEMMA SudoMoves ==
    ASSUME Sudo!TypeOK, Sudo!ActionsKnown, Sudo!MovesKnown, [Sudo!Next]_Sudo!vars
    PROVE  Sudo!MovesKnown'
<1>. USE SudoAssumption DEF Sudo!TypeOK, Sudo!MovesKnown, Sudo!Go, Sudo!Fault
<1>1. CASE Sudo!Administer
  BY <1>1 DEF Sudo!Administer
<1>2. CASE UNCHANGED Sudo!vars
  BY <1>2 DEF Sudo!vars
<1>3. ASSUME NEW u \in SudoUser, Sudo!Find(u) PROVE Sudo!MovesKnown'
  BY <1>3 DEF Sudo!Find
<1>4. ASSUME NEW u \in SudoUser, Sudo!SwitchOff(u) PROVE Sudo!MovesKnown'
  BY <1>4 DEF Sudo!SwitchOff
<1>5. ASSUME NEW u \in SudoUser, Sudo!SetupFails(u) PROVE Sudo!MovesKnown'
  BY <1>5 DEF Sudo!SetupFails
<1>6. ASSUME NEW u \in SudoUser, Sudo!Import(u) PROVE Sudo!MovesKnown'
  BY <1>6 DEF Sudo!Import
<1>7. ASSUME NEW u \in SudoUser, Sudo!Export(u) PROVE Sudo!MovesKnown'
  BY <1>7 DEF Sudo!Export
<1>8. ASSUME NEW u \in SudoUser, Sudo!ReadProducts(u) PROVE Sudo!MovesKnown'
  BY <1>8 DEF Sudo!ReadProducts
<1>9. ASSUME NEW u \in SudoUser, Sudo!PostAction(u) PROVE Sudo!MovesKnown'
  <2>1. \A m \in v2' : m \in v2 \/ m \in Sudo!Made(u)
    BY <1>9 DEF Sudo!PostAction
  <2>2. \A w \in SudoUser : v11[w] => v11'[w]
    BY <1>9 DEF Sudo!PostAction, Sudo!ActionsKnown
  <2>3. ASSUME NEW m \in v2, m.dated
        PROVE  m.age = "new" /\ \E w \in SudoUser : m.product \in SudoImported[w] /\ v11'[w]
    BY <2>2, <2>3
  <2>. QED
    BY <2>1, <2>3, SudoMade
<1>10. ASSUME NEW u \in SudoUser, Sudo!Applied(u) PROVE Sudo!MovesKnown'
  BY <1>10 DEF Sudo!Applied, Sudo!Made
<1>11. ASSUME NEW u \in SudoUser, Sudo!Date(u) PROVE Sudo!MovesKnown'
  <2>1. CASE v2' = v2
    BY <2>1, <1>11 DEF Sudo!Date
  <2>2. CASE v2' # v2
    <3>1. /\ v11[u] /\ v11' = v11
          /\ v2' = (v2 \ Sudo!Recent(u)) \cup {[m EXCEPT !.dated = TRUE] : m \in Sudo!Recent(u)}
      BY <2>2, <1>11 DEF Sudo!Date
    <3>2. ASSUME NEW k \in Sudo!Recent(u), NEW m, m = [k EXCEPT !.dated = TRUE]
          PROVE  /\ m.by # "other" => m.product \in SudoImported[m.by] /\ m.age = "new"
                 /\ m.age = "new" /\ m.product \in SudoImported[u]
      <4>1. k \in v2 /\ k \in Sudo!Move /\ k.product \in v10[u] /\ k.age = "new"
        BY DEF Sudo!Recent
      <4>2. v10[u] \subseteq SudoImported[u]
        BY DEF Sudo!ActionsKnown
      <4>. QED
        BY <3>2, <4>1, <4>2, SudoDated
    <3>. QED
      BY <3>1, <3>2
  <2>. QED
    BY <2>1, <2>2
<1>12. ASSUME NEW u \in SudoUser, Sudo!Finally(u) PROVE Sudo!MovesKnown'
  BY <1>12 DEF Sudo!Finally
<1>13. ASSUME NEW u \in SudoUser, Sudo!Kill(u) PROVE Sudo!MovesKnown'
  BY <1>13 DEF Sudo!Kill
<1>. QED
  BY <1>1, <1>2, <1>3, <1>4, <1>5, <1>6, <1>7, <1>8, <1>9, <1>10, <1>11, <1>12, <1>13
  DEF Sudo!Next

(* Once a post-action has succeeded, the moves of its user are dated.      *)
LEMMA SudoDates ==
    ASSUME Sudo!TypeOK, Sudo!ActionsKnown, Sudo!MovesKnown, Sudo!AllDated,
           [Sudo!Next]_Sudo!vars
    PROVE  Sudo!AllDated'
<1>1. SUFFICES ASSUME NEW w \in SudoUser, Sudo!Dates(w)', NEW m \in v2', m.by = w
               PROVE  m.dated
  BY DEF Sudo!AllDated
<1>2. Sudo!Dates(w) /\ m \in v2 => m.dated
  BY <1>1 DEF Sudo!AllDated
<1>. USE DEF Sudo!Dates, Sudo!Go, Sudo!Fault
<1>3. CASE Sudo!Administer
  BY <1>1, <1>2, <1>3 DEF Sudo!Administer
<1>4. CASE UNCHANGED Sudo!vars
  BY <1>1, <1>2, <1>4 DEF Sudo!vars
<1>5. ASSUME NEW u \in SudoUser, Sudo!Find(u) PROVE m.dated
  BY <1>1, <1>2, <1>5 DEF Sudo!Find, Sudo!TypeOK
<1>6. ASSUME NEW u \in SudoUser, Sudo!SwitchOff(u) PROVE m.dated
  BY <1>1, <1>2, <1>6 DEF Sudo!SwitchOff, Sudo!TypeOK
<1>7. ASSUME NEW u \in SudoUser, Sudo!SetupFails(u) PROVE m.dated
  <2>1. v4[u] \in {"find", "switch"} /\ ~v11[u]
    BY <1>7 DEF Sudo!SetupFails, Sudo!ActionsKnown
  <2>. QED
    BY <1>1, <1>2, <1>7, <2>1 DEF Sudo!SetupFails, Sudo!TypeOK
<1>8. ASSUME NEW u \in SudoUser, Sudo!Import(u) PROVE m.dated
  <2>1. v4[u] = "run" /\ ~v11[u]
    BY <1>8 DEF Sudo!Import, Sudo!ActionsKnown
  <2>2. /\ UNCHANGED <<v2, v10, v11, v12, v15>>
        /\ u # w => v4'[w] = v4[w]
    BY <1>8 DEF Sudo!Import, Sudo!TypeOK
  <2>. QED
    BY <1>1, <1>2, <2>1, <2>2
<1>9. ASSUME NEW u \in SudoUser, Sudo!Export(u) PROVE m.dated
  <2>1. v4[u] = "run" /\ ~v11[u]
    BY <1>9 DEF Sudo!Export, Sudo!ActionsKnown
  <2>. QED
    BY <1>1, <1>2, <1>9, <2>1 DEF Sudo!Export, Sudo!TypeOK
<1>10. ASSUME NEW u \in SudoUser, Sudo!ReadProducts(u) PROVE m.dated
  <2>1. /\ v4[u] = "products" /\ v4' = [v4 EXCEPT ![u] = "action"] /\ v12[u] # 0
        /\ u # w => v10'[w] = v10[w]
    BY <1>10 DEF Sudo!ReadProducts, Sudo!ActionsKnown, Sudo!TypeOK
  <2>. QED
    BY <1>1, <1>2, <1>10, <2>1 DEF Sudo!ReadProducts, Sudo!TypeOK
<1>11. ASSUME NEW u \in SudoUser, Sudo!PostAction(u) PROVE m.dated
  <2>1. v4[u] = "action" /\ v4' = [v4 EXCEPT ![u] = "dates"] /\ v12' = v12 /\ v12[u] # 0
    BY <1>11 DEF Sudo!PostAction, Sudo!ActionsKnown
  <2>2. w # u
    BY <1>1, <2>1 DEF Sudo!TypeOK
  <2>3. m \in v2 \/ m \in Sudo!Made(u)
    BY <1>11 DEF Sudo!PostAction
  <2>4. m \in v2
    BY <1>1, <2>2, <2>3, SudoMade
  <2>5. v4'[w] = v4[w] /\ v11'[w] = v11[w] /\ v10' = v10 /\ v15 \subseteq v15'
    BY <2>1, <2>2, <1>11 DEF Sudo!PostAction, Sudo!TypeOK
  <2>. QED
    BY <1>1, <1>2, <2>1, <2>4, <2>5
<1>12. ASSUME NEW u \in SudoUser, Sudo!Applied(u) PROVE m.dated
  <2>1. /\ u \in v15 /\ UNCHANGED <<v4, v10, v11, v12, v15>>
        /\ m \in v2 \/ m \in Sudo!Made(u)
    BY <1>12 DEF Sudo!Applied, Sudo!ActionsKnown
  <2>2. m \in v2
    BY <1>1, <2>1, SudoMade
  <2>. QED
    BY <1>1, <1>2, <2>1, <2>2
<1>13. ASSUME NEW u \in SudoUser, Sudo!Date(u) PROVE m.dated
  <2>1. /\ v4' = [v4 EXCEPT ![u] = "finally"] /\ v15 \subseteq v15'
        /\ UNCHANGED <<v10, v11, v12>>
    BY <1>13 DEF Sudo!Date
  <2>2. CASE m \notin v2
    <3>1. PICK k \in Sudo!Recent(u) : m = [k EXCEPT !.dated = TRUE]
      BY <2>2, <1>13 DEF Sudo!Date
    <3>. QED
      BY <3>1, SudoDated DEF Sudo!Recent, Sudo!TypeOK
  <2>3. CASE m \in v2 /\ w # u
    BY <1>1, <1>2, <2>1, <2>3 DEF Sudo!TypeOK
  <2>4. CASE m \in v2 /\ w = u
    <3>1. v11[u] /\ v10[u] = SudoImported[u] /\ u \notin v15'
      BY <1>1, <2>1, <2>4 DEF Sudo!ActionsKnown
    <3>2. v2' = (v2 \ Sudo!Recent(u)) \cup {[k EXCEPT !.dated = TRUE] : k \in Sudo!Recent(u)}
      <4>1. v16 \in Int
        BY DEF Sudo!TypeOK
      <4>. QED
        BY <3>1, <4>1, <1>13 DEF Sudo!Date
    <3>3. m \in Sudo!Recent(u)
      BY <1>1, <2>4, <3>1, SudoAssumption DEF Sudo!MovesKnown, Sudo!Recent
    <3>4. PICK k \in Sudo!Recent(u) : m = [k EXCEPT !.dated = TRUE]
      BY <3>2, <3>3
    <3>. QED
      BY <3>4, SudoDated DEF Sudo!Recent, Sudo!TypeOK
  <2>. QED
    BY <2>2, <2>3, <2>4
<1>14. ASSUME NEW u \in SudoUser, Sudo!Finally(u) PROVE m.dated
  <2>1. /\ v4[u] = "finally" /\ u # w => v4'[w] = v4[w] /\ v12'[w] = v12[w]
        /\ UNCHANGED <<v2, v10, v11, v15>>
    BY <1>14 DEF Sudo!Finally, Sudo!TypeOK
  <2>2. v4[u] = "finally"
    BY <1>14 DEF Sudo!Finally
  <2>. QED
    BY <1>1, <1>2, <2>1, <2>2
<1>15. ASSUME NEW u \in SudoUser, Sudo!Kill(u) PROVE m.dated
  BY <1>1, <1>2, <1>15 DEF Sudo!Kill, Sudo!TypeOK
<1>. QED
  BY <1>3, <1>4, <1>5, <1>6, <1>7, <1>8, <1>9, <1>10, <1>11, <1>12, <1>13, <1>14, <1>15
  DEF Sudo!Next

(* What is known of rules and moves holds in every state of any number of  *)
(* overlapping commands (import_cmd and export_cmd with --sudo).           *)
THEOREM RulesAreHeld == Sudo!Spec => []Sudo!SudoInv
<1>1. ASSUME Sudo!Init PROVE Sudo!SudoInv
  <2>1. Sudo!TypeOK
    <3>1. v2 \subseteq Sudo!Move
      <4>1. ASSUME NEW x \in SudoProduct, NEW a \in {"new", "old"}
            PROVE  [product |-> x, by |-> "other", age |-> a, dated |-> FALSE] \in Sudo!Move
        BY DEF Sudo!Move
      <4>2. ASSUME NEW m \in Sudo!Others PROVE m \in Sudo!Move
        <5>1. PICK x \in SudoProduct, a \in {"new", "old"} :
                 m = [product |-> x, by |-> "other", age |-> a, dated |-> FALSE]
          BY DEF Sudo!Others
        <5>. QED
          BY <4>1, <5>1
      <4>. QED
        BY <1>1, <4>2 DEF Sudo!Init
    <3>2. Len(SudoModelRules) \in Nat
      BY SudoAssumption
    <3>. QED
      BY <1>1, <3>1, <3>2, SudoAssumption DEF Sudo!Init, Sudo!TypeOK
  <2>2. \A m \in v2 : m.by = "other" /\ m.dated = FALSE
    BY <1>1 DEF Sudo!Init, Sudo!Others
  <2>. QED
    BY <1>1, <2>1, <2>2, SudoAssumption
    DEF Sudo!Init, Sudo!SudoInv, Sudo!ModelsLeft, Sudo!RulesHeld, Sudo!Live,
        Sudo!Taking, Sudo!ActionsKnown, Sudo!MovesKnown, Sudo!AllDated, Sudo!Dates
<1>2. ASSUME Sudo!SudoInv, [Sudo!Next]_Sudo!vars PROVE Sudo!SudoInv'
  BY <1>2, SudoTyped, SudoModelsLeft, SudoRules, SudoActions, SudoMoves, SudoDates
  DEF Sudo!SudoInv
<1>. QED
  BY <1>1, <1>2, PTL DEF Sudo!Spec

(* However commands overlap, are killed or fail: when the last has ended,  *)
(* the rules are as the administrators want them, but for those excused;   *)
(* and a post-action's moves are dated, and no others.                     *)
THEOREM RulesAndMovesAreRight == Sudo!Spec => []SudoIsSound
<1>1. ASSUME Sudo!SudoInv PROVE Sudo!SudoIsSound
  <2>1. Sudo!RulesComeBack
    BY <1>1 DEF Sudo!SudoInv, Sudo!RulesHeld, Sudo!Live, Sudo!RulesComeBack, Sudo!TypeOK
  <2>2. Sudo!MovesAreDated
    BY <1>1 DEF Sudo!SudoInv, Sudo!MovesKnown, Sudo!AllDated, Sudo!Dates, Sudo!MovesAreDated
  <2>. QED
    BY <1>1, <2>1, <2>2 DEF Sudo!SudoInv, Sudo!SudoIsSound
<1>2. Sudo!SudoIsSound => SudoIsSound
  BY DEF SudoIsSound
<1>. QED
  BY <1>1, <1>2, RulesAreHeld, PTL

(***************************************************************************)
(* Throttle                                                                *)
(***************************************************************************)
(* The level is one of the four, whatever the window and the thresholds.   *)
LEMMA PacingLevel == Pacing!Level \in 0 .. 3
BY DEF Pacing!Level, Pacing!Overloaded

(* The places at which a level is asked for, by their names.               *)
LEMMA PacingProbes == {Pacing!Probe[i] : i \in 1 .. 3} = {"apply0", "apply1", "apply2"}
<1>1. {Pacing!Probe[i] : i \in 1 .. 3} = {Pacing!Probe[1], Pacing!Probe[2], Pacing!Probe[3]}
  <2>1. 1 .. 3 = {1, 2, 3}
    OBVIOUS
  <2>. QED
    BY <2>1
<1>2. Pacing!Probe[1] = "apply0" /\ Pacing!Probe[2] = "apply1" /\ Pacing!Probe[3] = "apply2"
  BY DEF Pacing!Probe
<1>. QED
  BY <1>1, <1>2

(* What an application does: it goes past a level, or takes up the level   *)
(* that the health has.                                                    *)
LEMMA PacingApplies ==
    ASSUME NEW t \in PacingThread, Pacing!TypeOK, Pacing!Apply(t)
    PROVE  /\ UNCHANGED <<v1, v2, v6, v7, v8, v9, v10>>
           /\ \/ /\ v5[t] = "apply0" /\ v2 # 0 /\ v5' = [v5 EXCEPT ![t] = "apply1"]
                 /\ UNCHANGED <<v3, v4>>
              \/ /\ v5[t] = "apply1" /\ v2 # 1 /\ v5' = [v5 EXCEPT ![t] = "apply2"]
                 /\ UNCHANGED <<v3, v4>>
              \/ /\ v5' = [v5 EXCEPT ![t] = "load"] /\ v3' \in {v3, 0}
                 /\ v4' \in 0 .. 3
                 /\ \/ v5[t] = "apply0" /\ v4' = v2
                    \/ v5[t] = "apply1" /\ v4' = v2
                    \/ v5[t] = "apply2" /\ (v4' = v2 \/ (v2 # 2 /\ v4' = 3))
<1>1. PICK i \in 1 .. 3 :
         /\ v5[t] = Pacing!Probe[i]
         /\ \/ v2 = i - 1 /\ Pacing!Applied(t, i - 1)
            \/ /\ v2 # i - 1 /\ i < 3
               /\ v5' = [v5 EXCEPT ![t] = Pacing!Probe[i + 1]]
               /\ UNCHANGED <<v4, v3>>
            \/ v2 # i - 1 /\ i = 3 /\ Pacing!Applied(t, Pacing!Overloaded)
  BY DEF Pacing!Apply
<1>2. UNCHANGED <<v1, v2, v6, v7, v8, v9, v10>>
  BY DEF Pacing!Apply
<1>3. Pacing!Probe[1] = "apply0" /\ Pacing!Probe[2] = "apply1" /\ Pacing!Probe[3] = "apply2"
  BY DEF Pacing!Probe
<1>4. ASSUME NEW l \in 0 .. 3, Pacing!Applied(t, l)
      PROVE  v5' = [v5 EXCEPT ![t] = "load"] /\ v3' \in {v3, 0} /\ v4' = l
  BY <1>4 DEF Pacing!Applied
<1>5. Pacing!Overloaded = 3
  BY DEF Pacing!Overloaded
<1>6. CASE i = 1
  BY <1>1, <1>2, <1>3, <1>4, <1>6
<1>7. CASE i = 2
  BY <1>1, <1>2, <1>3, <1>4, <1>7
<1>8. CASE i = 3
  BY <1>1, <1>2, <1>3, <1>4, <1>5, <1>8
<1>. QED
  BY <1>6, <1>7, <1>8

(* Types, step by step.                                                    *)
LEMMA PacingTyped ==
    ASSUME Pacing!TypeOK, Pacing!AttemptsCounted, [Pacing!Next]_Pacing!vars
    PROVE  Pacing!TypeOK'
<1>. USE PacingAssumption, PacingProbes DEF Pacing!TypeOK, Pacing!Healthy, Pacing!Overloaded, Pacing!Unset, Pacing!Places
<1>1. CASE Pacing!Calm
  BY <1>1 DEF Pacing!Calm
<1>2. CASE UNCHANGED Pacing!vars
  BY <1>2 DEF Pacing!vars
<1>3. ASSUME NEW t \in PacingThread, NEW time \in PacingTimes, Pacing!Record(t, time)
      PROVE  Pacing!TypeOK'
  <2>1. v1' \in Seq(PacingTimes) /\ Len(v1') <= PacingWindow
    <3> DEFINE longer == Append(v1, time)
    <3>1. longer \in Seq(PacingTimes) /\ Len(longer) = Len(v1) + 1 /\ Len(v1) \in Nat
      OBVIOUS
    <3>2. PacingWindow \in Nat
      OBVIOUS
    <3>3. v1' = IF Len(longer) > PacingWindow THEN Tail(longer) ELSE longer
      BY <1>3 DEF Pacing!Record
    <3> HIDE DEF longer
    <3>4. Len(longer) > 0 => Tail(longer) \in Seq(PacingTimes) /\ Len(Tail(longer)) = Len(longer) - 1
      BY <3>1
    <3>. QED
      BY <3>1, <3>2, <3>3, <3>4
  <2>. QED
    BY <2>1, <1>3 DEF Pacing!Record
<1>4. ASSUME NEW t \in PacingThread, Pacing!Judge(t)
      PROVE  Pacing!TypeOK'
  BY PacingLevel, <1>4 DEF Pacing!Judge, Pacing!Fast
<1>5. ASSUME NEW t \in PacingThread, Pacing!Decide(t)
      PROVE  Pacing!TypeOK'
  <2>1. v6[t].new \in 0 .. 3
    OBVIOUS
  <2>. QED
    BY <2>1, <1>5 DEF Pacing!Decide
<1>6. ASSUME NEW t \in PacingThread, Pacing!Apply(t)
      PROVE  Pacing!TypeOK'
  <2>1. /\ \E place \in {"load", "apply1", "apply2"} : v5' = [v5 EXCEPT ![t] = place]
        /\ v3' \in {v3, 0} /\ v4' \in {v4} \cup 0 .. 3
        /\ UNCHANGED <<v1, v2, v6, v7, v8, v9, v10>>
    BY <1>6, PacingApplies
  <2>2. v5' \in [PacingThread -> Pacing!Places]
    BY <2>1
  <2>3. v3' \in 0 .. PacingRecovery /\ v4' \in -1 .. 3
    BY <2>1
  <2>. QED
    BY <2>1, <2>2, <2>3
<1>7. ASSUME NEW t \in PacingThread, Pacing!Backoff(t)
      PROVE  Pacing!TypeOK'
  <2>1. v6[t].old \in Nat /\ v6[t].old < v9 /\ v2 \in Nat
    BY <1>7 DEF Pacing!Backoff, Pacing!AttemptsCounted
  <2>2. v6' \in [PacingThread -> [old : Nat, new : 0 .. 3]]
    BY <2>1, <1>7 DEF Pacing!Backoff
  <2>3. v7' \in 0 .. PacingErrors
    BY <2>1, <1>7 DEF Pacing!Backoff
  <2>4. v5' \in [PacingThread -> Pacing!Places]
    BY <1>7 DEF Pacing!Backoff
  <2>. QED
    BY <2>2, <2>3, <2>4, <1>7 DEF Pacing!Backoff
<1>8. ASSUME NEW t \in PacingThread, Pacing!ReadAttempt(t)
      PROVE  Pacing!TypeOK'
  <2>1. v6' \in [PacingThread -> [old : Nat, new : 0 .. 3]]
    <3>1. v7 \in Nat /\ v6 \in [PacingThread -> [old : Nat, new : 0 .. 3]]
      OBVIOUS
    <3>2. v6' = [v6 EXCEPT ![t].old = v7]
      BY <1>8 DEF Pacing!ReadAttempt
    <3>. QED
      BY <3>1, <3>2
  <2>2. v9' \in 0 .. PacingErrors
    BY <1>8 DEF Pacing!ReadAttempt
  <2>. QED
    BY <2>1, <2>2, <1>8 DEF Pacing!ReadAttempt
<1>9. ASSUME NEW t \in PacingThread, Pacing!Reset(t)
      PROVE  Pacing!TypeOK'
  BY <1>9 DEF Pacing!Reset
<1>. QED
  BY <1>1, <1>2, <1>3, <1>4, <1>5, <1>6, <1>7, <1>8, <1>9
  DEF Pacing!Next, Pacing!Step

(* The shared count stays below the errors counted and read.               *)
LEMMA PacingAttempts ==
    ASSUME Pacing!TypeOK, Pacing!AttemptsCounted, [Pacing!Next]_Pacing!vars
    PROVE  Pacing!AttemptsCounted'
<1>. USE PacingAssumption DEF Pacing!TypeOK, Pacing!AttemptsCounted, Pacing!Healthy, Pacing!Overloaded, Pacing!Unset, Pacing!Places
<1>1. CASE Pacing!Calm
  BY <1>1 DEF Pacing!Calm
<1>2. CASE UNCHANGED Pacing!vars
  BY <1>2 DEF Pacing!vars
<1>3. ASSUME NEW t \in PacingThread, NEW time \in PacingTimes, Pacing!Record(t, time)
      PROVE  Pacing!AttemptsCounted'
  BY <1>3 DEF Pacing!Record
<1>4. ASSUME NEW t \in PacingThread, Pacing!Judge(t)
      PROVE  Pacing!AttemptsCounted'
  BY <1>4 DEF Pacing!Judge
<1>5. ASSUME NEW t \in PacingThread, Pacing!Decide(t)
      PROVE  Pacing!AttemptsCounted'
  BY <1>5 DEF Pacing!Decide
<1>6. ASSUME NEW t \in PacingThread, Pacing!Apply(t)
      PROVE  Pacing!AttemptsCounted'
  <2>1. /\ \E place \in {"load", "apply1", "apply2"} : v5' = [v5 EXCEPT ![t] = place]
        /\ UNCHANGED <<v6, v7, v9>>
    BY <1>6, PacingApplies
  <2>. QED
    BY <2>1
<1>7. ASSUME NEW t \in PacingThread, Pacing!Backoff(t)
      PROVE  Pacing!AttemptsCounted'
  BY <1>7 DEF Pacing!Backoff, Pacing!Fits
<1>8. ASSUME NEW t \in PacingThread, Pacing!ReadAttempt(t)
      PROVE  Pacing!AttemptsCounted'
  BY <1>8 DEF Pacing!ReadAttempt
<1>9. ASSUME NEW t \in PacingThread, Pacing!Reset(t)
      PROVE  Pacing!AttemptsCounted'
  BY <1>9 DEF Pacing!Reset
<1>. QED
  BY <1>1, <1>2, <1>3, <1>4, <1>5, <1>6, <1>7, <1>8, <1>9
  DEF Pacing!Next, Pacing!Step

(* One thread records at a time, as long as no overlap has been noted.     *)
LEMMA PacingFollows ==
    ASSUME Pacing!TypeOK, Pacing!PaceFollows, [Pacing!Next]_Pacing!vars
    PROVE  Pacing!PaceFollows'
<1> DEFINE Others(t) == \A u \in PacingThread \ {t} : ~Pacing!Recording(u)
<1>. USE DEF Pacing!PaceFollows, Pacing!Recording, Pacing!Applying
<1>0. v5 \in [PacingThread -> Pacing!Places] /\ v10 \in BOOLEAN
  BY DEF Pacing!TypeOK
<1>1. CASE Pacing!Calm
  BY <1>1 DEF Pacing!Calm, Pacing!Healthy, Pacing!Unset
<1>2. CASE UNCHANGED Pacing!vars
  BY <1>2 DEF Pacing!vars, Pacing!Healthy, Pacing!Unset
<1>3. ASSUME NEW t \in PacingThread, NEW time \in PacingTimes, Pacing!Record(t, time)
      PROVE  Pacing!PaceFollows'
  <2>1. /\ v5[t] = "load" /\ v5' = [v5 EXCEPT ![t] = "judge"] /\ UNCHANGED <<v2, v4>>
        /\ ~v10' => ~v10 /\ \A u \in PacingThread \ {t} : v5[u] \in {"load", "raised"}
    BY <1>3 DEF Pacing!Record
  <2>. QED
    BY <1>0, <2>1 DEF Pacing!Healthy, Pacing!Unset
<1>4. ASSUME NEW t \in PacingThread, Pacing!Judge(t)
      PROVE  Pacing!PaceFollows'
  <2>1. v5[t] = "judge" /\ v5' = [v5 EXCEPT ![t] = "decide"] /\ UNCHANGED <<v2, v4, v10>>
    BY <1>4 DEF Pacing!Judge
  <2>. QED
    BY <1>0, <2>1 DEF Pacing!Healthy, Pacing!Unset
<1>5. ASSUME NEW t \in PacingThread, Pacing!Decide(t)
      PROVE  Pacing!PaceFollows'
  <2>1. /\ v5[t] = "decide" /\ v10' = v10 /\ v4' = v4
        /\ \/ v5' = [v5 EXCEPT ![t] = "apply0"]
           \/ v5' = [v5 EXCEPT ![t] = "load"] /\ v2' = v2
    BY <1>5 DEF Pacing!Decide
  <2>2. ~v10 => Others(t)
    BY <2>1
  <2>3. CASE v5' = [v5 EXCEPT ![t] = "apply0"]
    BY <1>0, <2>1, <2>2, <2>3
  <2>4. CASE v5' = [v5 EXCEPT ![t] = "load"] /\ v2' = v2
    BY <1>0, <2>1, <2>2, <2>4
  <2>. QED
    BY <2>1, <2>3, <2>4
<1>6. ASSUME NEW t \in PacingThread, Pacing!Apply(t)
      PROVE  Pacing!PaceFollows'
  <2>1. v5[t] \in {"apply0", "apply1", "apply2"} /\ UNCHANGED <<v2, v10>> /\ v2 \in 0 .. 3
    BY <1>6, PacingApplies DEF Pacing!TypeOK, Pacing!Healthy, Pacing!Overloaded
  <2>2. ~v10 => Others(t)
    BY <2>1
  <2>3. CASE v5[t] = "apply0" /\ v2 # 0 /\ v5' = [v5 EXCEPT ![t] = "apply1"]
    BY <1>0, <2>1, <2>2, <2>3
  <2>4. CASE v5[t] = "apply1" /\ v2 # 1 /\ v5' = [v5 EXCEPT ![t] = "apply2"]
    BY <1>0, <2>1, <2>2, <2>4
  <2>5. ASSUME v5' = [v5 EXCEPT ![t] = "load"], ~v10 => v4' = v2
        PROVE  Pacing!PaceFollows'
    BY <1>0, <2>1, <2>2, <2>5
  <2>6. ASSUME v5[t] = "apply2", ~v10 PROVE v2 \in {2, 3}
    BY <2>1, <2>6
  <2>. QED
    BY <1>6, <2>3, <2>4, <2>5, <2>6, PacingApplies
<1>7. ASSUME NEW t \in PacingThread, Pacing!Backoff(t)
      PROVE  Pacing!PaceFollows'
  <2>1. /\ v5[t] = "backoff" /\ UNCHANGED <<v2, v4, v10>>
        /\ v5' = [v5 EXCEPT ![t] = "load"] \/ v5' = [v5 EXCEPT ![t] = "raised"]
    BY <1>7 DEF Pacing!Backoff
  <2>. QED
    BY <1>0, <2>1 DEF Pacing!Healthy, Pacing!Unset
<1>8. ASSUME NEW t \in PacingThread, Pacing!ReadAttempt(t)
      PROVE  Pacing!PaceFollows'
  <2>1. v5[t] = "load" /\ v5' = [v5 EXCEPT ![t] = "backoff"] /\ UNCHANGED <<v2, v4, v10>>
    BY <1>8 DEF Pacing!ReadAttempt
  <2>. QED
    BY <1>0, <2>1 DEF Pacing!Healthy, Pacing!Unset
<1>9. ASSUME NEW t \in PacingThread, Pacing!Reset(t)
      PROVE  Pacing!PaceFollows'
  BY <1>9 DEF Pacing!Reset, Pacing!Healthy, Pacing!Unset
<1>. QED
  BY <1>1, <1>2, <1>3, <1>4, <1>5, <1>6, <1>7, <1>8, <1>9
  DEF Pacing!Next, Pacing!Step

(* The pacing invariant: types, the count of the attempts, and a pace that *)
(* follows the health while threads record one after the other.            *)
THEOREM PaceFollowsHealth == Pacing!Spec => []Pacing!PacingInv
<1>1. Pacing!Init => Pacing!PacingInv
  <2>. SUFFICES ASSUME Pacing!Init PROVE Pacing!PacingInv
    OBVIOUS
  <2>. USE PacingAssumption DEF Pacing!Init, Pacing!Healthy, Pacing!Overloaded, Pacing!Unset
  <2>1. Pacing!TypeOK
    <3>1. v1 \in Seq(PacingTimes) /\ Len(v1) <= PacingWindow
      OBVIOUS
    <3>2. v6 \in [PacingThread -> [old : Nat, new : 0 .. 3]]
      <4>1. [old |-> 0, new |-> 0] \in [old : Nat, new : 0 .. 3]
        OBVIOUS
      <4>. QED
        BY <4>1
    <3>3. v5 \in [PacingThread -> Pacing!Places]
      BY DEF Pacing!Places
    <3>4. v3 \in 0 .. PacingRecovery /\ {v7, v9} \subseteq 0 .. PacingErrors
      OBVIOUS
    <3>5. v2 \in 0 .. 3 /\ v4 \in -1 .. 3
      OBVIOUS
    <3>6. v8 \in BOOLEAN /\ v10 \in BOOLEAN
      BY Zenon
    <3>. HIDE DEF Pacing!Init
    <3>. QED
      BY <3>1, <3>2, <3>3, <3>4, <3>5, <3>6 DEF Pacing!TypeOK
  <2>2. Pacing!AttemptsCounted
    BY DEF Pacing!AttemptsCounted
  <2>3. Pacing!PaceFollows
    BY DEF Pacing!PaceFollows, Pacing!Recording
  <2>. QED
    BY <2>1, <2>2, <2>3 DEF Pacing!PacingInv
<1>2. Pacing!PacingInv /\ [Pacing!Next]_Pacing!vars => Pacing!PacingInv'
  BY PacingTyped, PacingAttempts, PacingFollows DEF Pacing!PacingInv
<1>. QED
  BY <1>1, <1>2, PTL DEF Pacing!Spec

(* Delay and batch size are those of the health that is reported whenever  *)
(* no thread is recording and none has met another doing so; and no worker *)
(* is lost to its backoff before the server has failed more often than a   *)
(* float has powers of two.                                                *)
THEOREM PacingIsRight == Pacing!Spec => []PacingIsSound
<1>1. ASSUME Pacing!PacingInv PROVE Pacing!PacingIsSound
  <2>1. Pacing!SettledPace
    BY <1>1 DEF Pacing!PacingInv, Pacing!PaceFollows, Pacing!Applying, Pacing!SettledPace
  <2>2. Pacing!BackoffHolds
    BY <1>1 DEF Pacing!PacingInv, Pacing!AttemptsCounted, Pacing!BackoffHolds
  <2>. QED
    BY <1>1, <2>1, <2>2 DEF Pacing!PacingInv, Pacing!PacingIsSound
<1>2. Pacing!PacingIsSound => PacingIsSound
  BY DEF PacingIsSound
<1>. QED
  BY <1>1, <1>2, PaceFollowsHealth, PTL

(***************************************************************************)
(* ExportCommand                                                           *)
(***************************************************************************)
(* All steps but the passes and the edits leave the records, their history *)
(* and the frame alone, and name the languages only at the start.          *)
ExportQuiet ==
    /\ UNCHANGED <<v1, v6, v10>>
    /\ v4' = v4 \/ (v5 = "start" /\ v4' \subseteq ExportLang)
    /\ Export!Fetched' => Export!Fetched

LEMMA ExportSteps ==
    ASSUME [Export!Next]_Export!vars, Export!Order
    PROVE  \/ ExportQuiet \/ Export!BasePass \/ Export!Edit
           \/ \E l \in ExportLang : Export!LangPass(l)
<1>. USE DEF Export!Fetched, Export!End
<1>1. CASE Export!Reject
  BY <1>1 DEF Export!Reject, ExportQuiet, Export!Order
<1>2. CASE Export!Plan
  BY <1>2 DEF Export!Plan, ExportQuiet, Export!Order
<1>3. CASE Export!PlanBlind
  BY <1>3 DEF Export!PlanBlind, ExportQuiet, Export!Order
<1>4. CASE Export!PassFails
  BY <1>4 DEF Export!PassFails, ExportQuiet, Export!Order
<1>5. CASE Export!Write
  BY <1>5 DEF Export!Write, ExportQuiet
<1>6. CASE Export!Import
  BY <1>6 DEF Export!Import, ExportQuiet
<1>7. CASE UNCHANGED Export!vars
  BY <1>7 DEF Export!vars, ExportQuiet
<1>. QED
  BY <1>1, <1>2, <1>3, <1>4, <1>5, <1>6, <1>7 DEF Export!Next

(* What an edit does to the records and to their history.                  *)
LEMMA ExportEdited ==
    ASSUME Export!TypeOK, Export!RecordsAreWhole, Export!Remembered, Export!Edit
    PROVE  /\ v1' \in [ExportRecord -> [Export!Columns -> ExportText \cup {"gone"}]]
           /\ Export!RecordsAreWhole' /\ Export!Remembered'
           /\ \A r \in ExportRecord : \A c \in Export!Columns : v10[r][c] \subseteq v10'[r][c]
           /\ UNCHANGED <<v2, v3, v4, v5, v6, v7, v8, v9, v11>>
<1>. USE DEF Export!Gone, Export!Exists
<1>1. PICK r \in ExportRecord, c \in Export!Columns, t \in ExportText :
         /\ Export!Exists(r)
         /\ \/ v1' = [v1 EXCEPT ![r][c] = t]
            \/ v1' = [v1 EXCEPT ![r] = [k \in Export!Columns |-> "gone"]]
  BY DEF Export!Edit
<1>2. v1 \in [ExportRecord -> [Export!Columns -> ExportText \cup {"gone"}]]
  BY DEF Export!TypeOK
<1>3. v1' \in [ExportRecord -> [Export!Columns -> ExportText \cup {"gone"}]]
  BY <1>1, <1>2
<1>4. \A k \in Export!Columns : v1[r][k] \in ExportText
  BY <1>1, ExportAssumption DEF Export!RecordsAreWhole, Export!Columns
<1>5. Export!RecordsAreWhole'
  <2>1. ASSUME NEW q \in ExportRecord, q # r PROVE v1'[q] = v1[q]
    BY <1>1, <1>2, <2>1
  <2>2. \/ \A k \in Export!Columns : v1'[r][k] \in ExportText
        \/ \A k \in Export!Columns : v1'[r][k] = "gone"
    BY <1>1, <1>2, <1>4
  <2>. QED
    BY <2>1, <2>2 DEF Export!RecordsAreWhole
<1>6. v10' = [q \in ExportRecord |-> [k \in Export!Columns |-> v10[q][k] \cup {v1'[q][k]}]]
  BY DEF Export!Edit
<1>7. \A q \in ExportRecord : \A k \in Export!Columns :
         v10'[q][k] = v10[q][k] \cup {v1'[q][k]}
  BY <1>6
<1>8. UNCHANGED <<v2, v3, v4, v5, v6, v7, v8, v9, v11>>
  BY DEF Export!Edit
<1>. QED
  BY <1>3, <1>5, <1>7, <1>8 DEF Export!Remembered

(* What the pass of the base language puts into the frame.                 *)
LEMMA ExportBase ==
    ASSUME Export!TypeOK, Export!Remembered, Export!BasePass
    PROVE  /\ DOMAIN v6' \subseteq ExportRecord
           /\ \A r \in DOMAIN v6' :
                 /\ v6'[r] \in [Export!Columns -> ExportText \cup {"empty"}]
                 /\ v6'[r]["base"] \in v10[r]["base"] \ {"gone"}
                 /\ \A c \in ExportLang : v6'[r][c] = "empty"
<1> DEFINE S == Export!Selected("base")
<1>1. v6' = [r \in S |-> [Export!Blank EXCEPT !["base"] = v1[r]["base"]]]
  BY DEF Export!BasePass
<1>2. \A r \in S : r \in ExportRecord /\ v1[r]["base"] # "gone"
  BY DEF Export!Selected, Export!Exists, Export!Gone
<1>3. "base" \in Export!Columns /\ ExportLang \subseteq Export!Columns \ {"base"}
  BY ExportAssumption DEF Export!Columns
<1> HIDE DEF S
<1>4. Export!Blank = [c \in Export!Columns |-> "empty"]
  BY DEF Export!Blank, Export!Empty
<1>5. v1 \in [ExportRecord -> [Export!Columns -> ExportText \cup {"gone"}]]
  BY DEF Export!TypeOK, Export!Gone
<1>6. DOMAIN v6' = S
  BY <1>1
<1>7. ASSUME NEW r \in S
      PROVE  /\ v6'[r] \in [Export!Columns -> ExportText \cup {"empty"}]
             /\ v6'[r]["base"] \in v10[r]["base"] \ {"gone"}
             /\ \A c \in ExportLang : v6'[r][c] = "empty"
  <2>1. v6'[r] = [Export!Blank EXCEPT !["base"] = v1[r]["base"]]
    BY <1>1
  <2>2. v1[r]["base"] \in ExportText /\ v1[r]["base"] \in v10[r]["base"]
    BY <1>2, <1>3, <1>5 DEF Export!Remembered
  <2>. QED
    BY <2>1, <2>2, <1>2, <1>3, <1>4
<1>. QED
  BY <1>2, <1>6, <1>7

(* What the pass of a language puts into the frame.                        *)
LEMMA ExportLanguage ==
    ASSUME Export!TypeOK, Export!RecordsAreWhole, Export!Remembered,
           NEW l \in ExportLang, Export!LangPass(l)
    PROVE  /\ DOMAIN v6' = DOMAIN v6
           /\ \A r \in DOMAIN v6 :
                 /\ v6'[r] \in [Export!Columns -> ExportText \cup {"empty"}]
                 /\ \A c \in Export!Columns \ {l} : v6'[r][c] = v6[r][c]
                 /\ \/ v6'[r][l] \in (v10[r][l] \ {"gone"}) \cap ExportText
                    \/ v6'[r][l] = v6[r][l] /\ "gone" \in v10[r][l]
<1>. USE DEF Export!Gone, Export!Exists, Export!Empty
<1>1. v6' = [r \in DOMAIN v6 |->
               IF r \in Export!ByIds(l) THEN [v6[r] EXCEPT ![l] = v1[r][l]] ELSE v6[r]]
  BY DEF Export!LangPass
<1>2. l \in Export!Columns /\ "base" \in Export!Columns
  BY DEF Export!Columns
<1>3. ASSUME NEW r \in DOMAIN v6
      PROVE  /\ v6'[r] \in [Export!Columns -> ExportText \cup {"empty"}]
             /\ \A c \in Export!Columns \ {l} : v6'[r][c] = v6[r][c]
             /\ \/ v6'[r][l] \in (v10[r][l] \ {"gone"}) \cap ExportText
                \/ v6'[r][l] = v6[r][l] /\ "gone" \in v10[r][l]
  <2>1. r \in ExportRecord /\ v6[r] \in [Export!Columns -> ExportText \cup {"empty"}]
    BY DEF Export!TypeOK
  <2>2. v1[r][l] \in v10[r][l]
    BY <1>2, <2>1 DEF Export!Remembered
  <2>3. CASE r \in Export!ByIds(l)
    <3>1. v1[r][l] \in ExportText
      BY <1>2, <2>1, <2>3, ExportAssumption DEF Export!ByIds, Export!RecordsAreWhole
    <3>2. v6'[r] = [v6[r] EXCEPT ![l] = v1[r][l]]
      BY <1>1, <2>3
    <3>. QED
      BY <1>2, <2>1, <2>2, <3>1, <3>2, ExportAssumption
  <2>4. CASE r \notin Export!ByIds(l)
    <3>1. v1[r][l] = "gone"
      BY <1>2, <2>1, <2>4, ExportAssumption DEF Export!ByIds, Export!RecordsAreWhole
    <3>2. v6'[r] = v6[r]
      BY <1>1, <2>4
    <3>. QED
      BY <2>1, <2>2, <3>1, <3>2
  <2>. QED
    BY <2>3, <2>4
<1>4. DOMAIN v6' = DOMAIN v6
  BY <1>1
<1>. QED
  BY <1>3, <1>4

(* The server's records keep a text in the base language, and the history  *)
(* keeps what they had.                                                    *)
LEMMA ExportServer ==
    ASSUME Export!TypeOK, Export!RecordsAreWhole, Export!Remembered,
           Export!Order, [Export!Next]_Export!vars
    PROVE  Export!RecordsAreWhole' /\ Export!Remembered'
<1>1. CASE Export!Edit
  BY <1>1, ExportEdited
<1>2. CASE UNCHANGED <<v1, v10>>
  BY <1>2 DEF Export!RecordsAreWhole, Export!Remembered
<1>. QED
  BY <1>1, <1>2, ExportSteps DEF ExportQuiet, Export!BasePass, Export!LangPass

(* Every cell of the frame is a text its record had, or says that it has   *)
(* none.                                                                   *)
LEMMA ExportCells ==
    ASSUME Export!TypeOK, Export!RecordsAreWhole, Export!Remembered, Export!CellsAreTrue,
           Export!Order, [Export!Next]_Export!vars
    PROVE  Export!CellsAreTrue'
<1>. USE DEF Export!CellsAreTrue, Export!Gone, Export!Empty
<1>1. CASE ExportQuiet
  BY <1>1 DEF ExportQuiet
<1>2. CASE Export!BasePass
  <2>1. v10' = v10
    BY <1>2 DEF Export!BasePass
  <2>. QED
    BY <1>2, <2>1, ExportBase DEF Export!Columns
<1>3. ASSUME NEW l \in ExportLang, Export!LangPass(l) PROVE Export!CellsAreTrue'
  <2>1. v10' = v10 /\ l # "base"
    BY <1>3, ExportAssumption DEF Export!LangPass
  <2>. QED
    BY <1>3, <2>1, ExportLanguage
<1>4. CASE Export!Edit
  <2>1. DOMAIN v6 \subseteq ExportRecord
    BY DEF Export!TypeOK
  <2>. QED
    BY <1>4, <2>1, ExportEdited
<1>. QED
  BY <1>1, <1>2, <1>3, <1>4, ExportSteps

(* A language is fetched for every record that is left or for none.        *)
LEMMA ExportColumns ==
    ASSUME Export!TypeOK, Export!RecordsAreWhole, Export!Remembered, Export!ColumnsAreWhole,
           Export!Order, [Export!Next]_Export!vars
    PROVE  Export!ColumnsAreWhole'
<1>. USE DEF Export!ColumnsAreWhole, Export!Gone, Export!Empty
<1>1. CASE ExportQuiet
  <2>1. CASE v4' = v4
    BY <1>1, <2>1 DEF ExportQuiet
  <2>2. CASE v5 = "start"
    <3>1. DOMAIN v6 = {}
      BY <2>2 DEF Export!Order
    <3>. QED
      BY <1>1, <3>1 DEF ExportQuiet
  <2>. QED
    BY <1>1, <2>1, <2>2 DEF ExportQuiet
<1>2. CASE Export!BasePass
  BY <1>2, ExportBase
<1>3. ASSUME NEW l \in ExportLang, Export!LangPass(l) PROVE Export!ColumnsAreWhole'
  <2>1. v10' = v10 /\ v4' = v4 \ {l}
    BY <1>3 DEF Export!LangPass
  <2>2. \A r \in DOMAIN v6' : v6'[r][l] # "empty" \/ "gone" \in v10'[r][l]
    BY <1>3, <2>1, ExportLanguage, ExportAssumption
  <2>3. ASSUME NEW k \in ExportLang \ {l}, NEW r \in DOMAIN v6' PROVE v6'[r][k] = v6[r][k]
    BY <1>3, ExportLanguage DEF Export!Columns
  <2>4. DOMAIN v6' = DOMAIN v6
    BY <1>3, ExportLanguage
  <2>. QED
    BY <2>1, <2>2, <2>3, <2>4
<1>4. CASE Export!Edit
  <2>1. DOMAIN v6 \subseteq ExportRecord /\ ExportLang \subseteq Export!Columns
    BY DEF Export!TypeOK, Export!Columns
  <2>. QED
    BY <1>4, <2>1, ExportEdited
<1>. QED
  BY <1>1, <1>2, <1>3, <1>4, ExportSteps

(* Once there is a frame, it is of the records the domain selects: an edit  *)
(* only ever adds to the texts a record has had.                           *)
LEMMA ExportSelection ==
    ASSUME Export!TypeOK, Export!RecordsAreWhole, Export!Remembered, Export!Order,
           Export!SelectionIsKept, [Export!Next]_Export!vars
    PROVE  Export!SelectionIsKept'
<1>. USE DEF Export!SelectionIsKept, Export!IsSelection
<1>1. CASE ExportQuiet
  BY <1>1 DEF ExportQuiet
<1>2. CASE Export!BasePass
  <2>1. UNCHANGED <<v1, v10>> /\ DOMAIN v6' = Export!Selected("base")
    BY <1>2 DEF Export!BasePass
  <2>2. ASSUME NEW r \in ExportRecord
        PROVE  /\ v1[r]["base"] \in v10[r]["base"]
               /\ v10[r]["base"] = {ExportWanted} => v1[r]["base"] # Export!Gone
    <3>1. v1[r]["base"] \in v10[r]["base"]
      BY DEF Export!Remembered, Export!Columns
    <3>. QED
      BY <3>1, ExportAssumption DEF Export!Gone
  <2>3. ASSUME NEW r \in DOMAIN v6' PROVE ExportWanted \in v10'[r]["base"]
    <3>1. r \in ExportRecord /\ v1[r]["base"] = ExportWanted
      BY <2>1, <2>3 DEF Export!Selected
    <3>. QED
      BY <2>1, <2>2, <3>1
  <2>4. ASSUME NEW r \in ExportRecord, v10'[r]["base"] = {ExportWanted}
        PROVE  r \in DOMAIN v6'
    <3>1. v1[r]["base"] = ExportWanted /\ v1[r]["base"] # Export!Gone
      BY <2>1, <2>2, <2>4
    <3>. QED
      BY <2>1, <3>1 DEF Export!Selected, Export!Exists
  <2>. QED
    BY <2>3, <2>4
<1>3. ASSUME NEW l \in ExportLang, Export!LangPass(l) PROVE Export!SelectionIsKept'
  <2>1. v10' = v10 /\ DOMAIN v6' = DOMAIN v6 /\ v5 = "langs"
    BY <1>3, ExportLanguage DEF Export!LangPass
  <2>. QED
    BY <2>1 DEF Export!Fetched
<1>4. CASE Export!Edit
  <2>1. UNCHANGED <<v5, v6, v8>>
    BY <1>4, ExportEdited
  <2>2. ASSUME NEW r \in ExportRecord
        PROVE  /\ v10[r]["base"] \subseteq v10'[r]["base"]
               /\ v10'[r]["base"] = {ExportWanted} => v10[r]["base"] = {ExportWanted}
    <3>1. v1[r]["base"] \in v10[r]["base"] /\ v10[r]["base"] \subseteq v10'[r]["base"]
      BY <1>4, ExportEdited DEF Export!Remembered, Export!Columns
    <3>. QED
      BY <3>1
  <2>3. DOMAIN v6 \subseteq ExportRecord
    BY DEF Export!TypeOK
  <2>. QED
    BY <2>1, <2>2, <2>3 DEF Export!Fetched
<1>. QED
  BY <1>1, <1>2, <1>3, <1>4, ExportSteps

(* Every step keeps the order of plan, frame, output and exit code.        *)
LEMMA ExportOrder ==
    ASSUME Export!TypeOK, Export!Order, [Export!Next]_Export!vars
    PROVE  Export!Order'
<1>. USE DEF Export!Order, Export!End, Export!AllFetched, Export!FailureLeavesNothing
<1>1. CASE Export!Reject
  BY <1>1 DEF Export!Reject
<1>2. CASE Export!Plan
  BY <1>2 DEF Export!Plan
<1>3. CASE Export!PlanBlind
  BY <1>3 DEF Export!PlanBlind
<1>4. CASE Export!PassFails
  BY <1>4 DEF Export!PassFails
<1>5. CASE Export!Write
  BY <1>5 DEF Export!Write
<1>6. CASE Export!Import
  <2>1. CASE v7' = v6
    BY <1>6, <2>1 DEF Export!Import
  <2>2. CASE v7' # v6
    <3>1. ASSUME NEW some \in SUBSET DOMAIN v6, v7' = [r \in some |-> v6[r]],
                 Export!End(IF v6 = << >> THEN 0 ELSE 1)
          PROVE  v9' = 1
      <4>1. CASE v6 = << >>
        <5>1. some = {}
          BY <4>1
        <5>2. [r \in {} |-> v6[r]] = << >>
          OBVIOUS
        <5>. QED
          BY <2>2, <3>1, <4>1, <5>1, <5>2
      <4>. QED
        BY <3>1, <4>1
    <3>. QED
      BY <1>6, <2>2, <3>1 DEF Export!Import
  <2>. QED
    BY <2>1, <2>2
<1>7. CASE Export!BasePass
  BY <1>7 DEF Export!BasePass
<1>8. ASSUME NEW l \in ExportLang, Export!LangPass(l) PROVE Export!Order'
  BY <1>8 DEF Export!LangPass
<1>9. CASE Export!Edit
  BY <1>9 DEF Export!Edit
<1>10. CASE UNCHANGED Export!vars
  BY <1>10 DEF Export!vars
<1>. QED
  BY <1>1, <1>2, <1>3, <1>4, <1>5, <1>6, <1>7, <1>8, <1>9, <1>10 DEF Export!Next

(* Types, step by step.                                                    *)
LEMMA ExportTyped ==
    ASSUME Export!TypeOK, Export!RecordsAreWhole, Export!Remembered, [Export!Next]_Export!vars
    PROVE  Export!TypeOK'
<1>. USE ExportAssumption DEF Export!End, Export!Fault, Export!Gone, Export!Empty
<1>1. CASE Export!Reject
  BY <1>1 DEF Export!Reject, Export!TypeOK
<1>2. CASE Export!Plan
  BY <1>2 DEF Export!Plan, Export!TypeOK
<1>3. CASE Export!PlanBlind
  BY <1>3 DEF Export!PlanBlind, Export!TypeOK
<1>4. CASE Export!PassFails
  BY <1>4 DEF Export!PassFails, Export!TypeOK
<1>5. CASE Export!Write
  BY <1>5 DEF Export!Write, Export!TypeOK
<1>6. CASE Export!Import
  BY <1>6 DEF Export!Import, Export!TypeOK
<1>7. CASE Export!BasePass
  BY <1>7, ExportBase DEF Export!BasePass, Export!TypeOK
<1>8. ASSUME NEW l \in ExportLang, Export!LangPass(l) PROVE Export!TypeOK'
  BY <1>8, ExportLanguage DEF Export!LangPass, Export!TypeOK
<1>9. CASE Export!Edit
  <2>1. v12' \in 0 .. ExportEdits
    BY <1>9 DEF Export!Edit, Export!TypeOK
  <2>. QED
    BY <1>9, <2>1, ExportEdited DEF Export!TypeOK
<1>10. CASE UNCHANGED Export!vars
  BY <1>10 DEF Export!vars, Export!TypeOK
<1>. QED
  BY <1>1, <1>2, <1>3, <1>4, <1>5, <1>6, <1>7, <1>8, <1>9, <1>10 DEF Export!Next

(* The export invariant: whole records whose past texts are remembered, a  *)
(* frame of the records selected, with such texts in whole columns, and    *)
(* the order of the steps.                                                 *)
THEOREM FramesAreTrue == Export!Spec => []Export!ExportInv
<1>1. Export!Init => Export!ExportInv
  <2>. SUFFICES ASSUME Export!Init PROVE Export!ExportInv
    OBVIOUS
  <2>. USE ExportAssumption DEF Export!Init, Export!Gone, Export!Empty
  <2>1. DOMAIN v6 = {} /\ DOMAIN v7 = {}
    OBVIOUS
  <2>2. Export!TypeOK
    <3>1. v1 \in [ExportRecord -> [Export!Columns -> ExportText \cup {"gone"}]]
      OBVIOUS
    <3>2. v8 \in BOOLEAN
      BY Zenon
    <3>3. v9 \in -1 .. 1 /\ v11 \in 0 .. ExportFaults /\ v12 \in 0 .. ExportEdits
      OBVIOUS
    <3>. QED
      BY <2>1, <3>1, <3>2, <3>3 DEF Export!TypeOK
  <2>3. Export!RecordsAreWhole /\ Export!Remembered
    BY DEF Export!RecordsAreWhole, Export!Remembered
  <2>4. Export!CellsAreTrue /\ Export!ColumnsAreWhole
    BY <2>1 DEF Export!CellsAreTrue, Export!ColumnsAreWhole
  <2>5. Export!Order /\ Export!SelectionIsKept
    BY DEF Export!Order, Export!FailureLeavesNothing, Export!SelectionIsKept, Export!Fetched
  <2>. QED
    BY <2>2, <2>3, <2>4, <2>5 DEF Export!ExportInv
<1>2. Export!ExportInv /\ [Export!Next]_Export!vars => Export!ExportInv'
  BY ExportTyped, ExportServer, ExportCells, ExportColumns, ExportOrder, ExportSelection
  DEF Export!ExportInv
<1>. QED
  BY <1>1, <1>2, PTL DEF Export!Spec

(* However users edit and delete records and calls fail meanwhile: the     *)
(* output of a command that exits with 0 has the records of the domain,    *)
(* with texts they had, in every exported language; and there is none of   *)
(* an export of which a pass failed.                                       *)
THEOREM ExportsAreWhole == Export!Spec => []ExportIsWhole
<1>1. ASSUME Export!ExportInv PROVE Export!ExportIsWhole
  <2>1. Export!FileIsWhole
    <3>. SUFFICES ASSUME v8, v9 = 0
                  PROVE  /\ v7 = v6 /\ Export!IsSelection(v6)
                         /\ Export!CellsAreTrue /\ Export!ColumnsAreWhole
      BY DEF Export!FileIsWhole, Export!CellsAreTrue, Export!ColumnsAreWhole
    <3>. QED
      BY <1>1 DEF Export!ExportInv, Export!Order, Export!SelectionIsKept, Export!Fetched
  <2>2. Export!FailureLeavesNothing
    BY <1>1 DEF Export!ExportInv, Export!Order, Export!FailureLeavesNothing
  <2>. QED
    BY <1>1, <2>1, <2>2 DEF Export!ExportInv, Export!ExportIsWhole
<1>2. Export!ExportIsWhole => ExportIsWhole
  BY DEF ExportIsWhole
<1>. QED
  BY <1>1, <1>2, FramesAreTrue, PTL

(***************************************************************************)
(* RowFilter                                                               *)
(***************************************************************************)
(* The rows of the file, and what is known of the variables they index.    *)
LEMMA FilterRows ==
    ASSUME Filter!TypeOK
    PROVE  /\ Filter!Rows = 1 .. Len(v1) /\ Len(v1) \in Nat
           /\ \A i \in Filter!Rows : /\ v1[i].id \in Filter!Id /\ v1[i].val \in FilterVal
                                     /\ v1[i].link \in BOOLEAN
           /\ v2 \in [Filter!Id -> [val : FilterVal \cup {""}, link : BOOLEAN]]
           /\ v9 \in 1 .. Len(v1) + 1
           /\ 1 \in 1 .. Len(v1) + 1
           /\ v9 \in Filter!Rows => v9 + 1 \in 1 .. Len(v1) + 1
           /\ \A i \in Filter!Rows : ~(i < 1) /\ (i < v9 + 1 => i < v9 \/ i = v9)
           /\ v5 \subseteq Filter!Rows
<1>1. v1 \in Seq([id : Filter!Id, val : FilterVal, link : BOOLEAN])
  BY FilterAssumption DEF Filter!TypeOK, Filter!Id
<1>2. DOMAIN v1 = 1 .. Len(v1) /\ Len(v1) \in Nat
  BY <1>1
<1>3. ASSUME NEW i \in 1 .. Len(v1) PROVE v1[i] \in [id : Filter!Id, val : FilterVal, link : BOOLEAN]
  <2> DEFINE Row == [id : Filter!Id, val : FilterVal, link : BOOLEAN]
  <2>1. v1 \in Seq(Row)
    BY <1>1
  <2> HIDE DEF Row
  <2>2. v1[i] \in Row
    BY <2>1
  <2>. QED
    BY <2>2 DEF Row
<1>4. 1 \in 1 .. Len(v1) + 1 /\ \A k \in 1 .. Len(v1) : k + 1 \in 1 .. Len(v1) + 1
  <2>1. \A n \in Nat : 1 \in 1 .. n + 1 /\ \A k \in 1 .. n : k + 1 \in 1 .. n + 1
    OBVIOUS
  <2>. QED
    BY <1>2, <2>1
<1>5. ASSUME NEW i \in 1 .. Len(v1)
      PROVE  ~(i < 1) /\ (i < v9 + 1 => i < v9 \/ i = v9)
  <2>1. \A n \in Nat : \A j \in 1 .. n : \A k \in 1 .. n + 1 :
           ~(j < 1) /\ (j < k + 1 => j < k \/ j = k)
    OBVIOUS
  <2>2. v9 \in 1 .. Len(v1) + 1
    BY DEF Filter!TypeOK
  <2>. QED
    BY <1>2, <2>1, <2>2
<1>. QED
  BY <1>2, <1>3, <1>4, <1>5 DEF Filter!TypeOK, Filter!Rows, Filter!Record

(* A row that Pass 1 loads gives its record its values; no other changes.  *)
LEMMA FilterLoads ==
    ASSUME Filter!TypeOK, Filter!Pass1
    PROVE  /\ v2' \in [Filter!Id -> [val : FilterVal \cup {""}, link : BOOLEAN]]
           /\ \A x \in Filter!Id :
                 \/ v2'[x] = v2[x] /\ (v9 \notin v5 \/ x # v1[v9].id)
                 \/ /\ v9 \in v5 /\ x = v1[v9].id
                    /\ v2'[x].val = v1[v9].val /\ v2'[x] # Filter!None
           /\ v9' = v9 + 1 /\ v9 \in Filter!Rows /\ v8 = "pass1" /\ v6 = Filter!NoCheckpoint
           /\ UNCHANGED <<v1, v3, v4, v5, v6, v7, v8, v10, v11, v12, v13, v14>>
<1>1. /\ v9' = v9 + 1 /\ v9 \in Filter!Rows /\ v8 = "pass1" /\ v6 = Filter!NoCheckpoint
      /\ v2' = IF v9 \in v5 THEN Filter!Load(v9) ELSE v2
      /\ UNCHANGED <<v1, v3, v4, v5, v6, v7, v8, v10, v11, v12, v13, v14>>
  BY DEF Filter!Pass1
<1>2. CASE v9 \notin v5
  BY <1>1, <1>2, FilterRows
<1>3. CASE v9 \in v5
  <2> DEFINE y == v1[v9].id
             record == [val |-> v1[v9].val, link |-> v2[v1[v9].id].link]
  <2>1. v2' = [v2 EXCEPT ![y] = record]
    BY <1>1, <1>3 DEF Filter!Load
  <2>2. y \in Filter!Id /\ v1[v9].val \in FilterVal
    BY <1>1, FilterRows
  <2>3. record \in [val : FilterVal \cup {""}, link : BOOLEAN]
    BY <2>2, FilterRows
  <2>4. record.val = v1[v9].val /\ record # Filter!None
    BY <2>2, FilterAssumption DEF Filter!None
  <2> HIDE DEF y, record
  <2>5. v2'[y] = record /\ \A x \in Filter!Id \ {y} : v2'[x] = v2[x]
    BY <2>1, <2>2, FilterRows
  <2>6. v2' \in [Filter!Id -> [val : FilterVal \cup {""}, link : BOOLEAN]]
    BY <2>1, <2>3, FilterRows
  <2>. QED
    BY <1>1, <1>3, <2>4, <2>5, <2>6 DEF y
<1>. QED
  BY <1>2, <1>3

(* A row that Pass 2 links gives its record its relation; no value changes.*)
LEMMA FilterLinks ==
    ASSUME Filter!TypeOK, Filter!Pass2
    PROVE  /\ v2' \in [Filter!Id -> [val : FilterVal \cup {""}, link : BOOLEAN]]
           /\ \A x \in Filter!Id :
                 /\ v2'[x].val = v2[x].val /\ (v2[x].link => v2'[x].link)
                 /\ v2[x] # Filter!None => v2'[x] # Filter!None
                 /\ Filter!Linked(v9) /\ x = v1[v9].id /\ v2[x] # Filter!None => v2'[x].link
           /\ v9' = v9 + 1 /\ v9 \in Filter!Rows /\ v8 = "pass2"
           /\ UNCHANGED <<v1, v3, v4, v5, v6, v7, v8, v10, v11, v12, v13, v14>>
<1> DEFINE linking == Filter!Linked(v9) /\ v2[v1[v9].id] # Filter!None
<1>1. /\ v9' = v9 + 1 /\ v9 \in Filter!Rows /\ v8 = "pass2"
      /\ v2' = IF linking THEN [v2 EXCEPT ![v1[v9].id].link = TRUE] ELSE v2
      /\ UNCHANGED <<v1, v3, v4, v5, v6, v7, v8, v10, v11, v12, v13, v14>>
  BY DEF Filter!Pass2
<1>2. CASE ~linking
  BY <1>1, <1>2, FilterRows
<1>3. CASE linking
  <2> DEFINE y == v1[v9].id
  <2>1. v2' = [v2 EXCEPT ![y].link = TRUE] /\ v2[y] # Filter!None
    BY <1>1, <1>3
  <2>2. y \in Filter!Id
    BY <1>1, FilterRows
  <2> HIDE DEF y
  <2>3. \A x \in Filter!Id \ {y} : v2'[x] = v2[x]
    BY <2>1, <2>2, FilterRows
  <2>4. v2'[y].val = v2[y].val /\ v2'[y].link = TRUE
    BY <2>1, <2>2, FilterRows
  <2>5. v2' \in [Filter!Id -> [val : FilterVal \cup {""}, link : BOOLEAN]]
    BY <2>1, <2>2, FilterRows
  <2>6. v2'[y] # Filter!None
    <3>1. Filter!None.link = FALSE
      BY DEF Filter!None
    <3>. QED
      BY <2>4, <3>1
  <2>. QED
    BY <1>1, <2>3, <2>4, <2>5, <2>6 DEF y
<1>. QED
  BY <1>2, <1>3

(* An edit changes one record that is there, and is remembered.            *)
LEMMA FilterEdited ==
    ASSUME Filter!TypeOK, Filter!Edit
    PROVE  /\ v2' \in [Filter!Id -> [val : FilterVal \cup {""}, link : BOOLEAN]]
           /\ \A x \in Filter!Id : /\ v2'[x] = v2[x] \/ x \in v10'
                                   /\ v2[x] # Filter!None => v2'[x] # Filter!None
           /\ v10 \subseteq v10' /\ v10' \subseteq Filter!Id
           /\ UNCHANGED <<v1, v3, v4, v5, v6, v7, v8, v9, v11, v12, v13>>
<1>1. PICK x \in Filter!Id :
         /\ v2[x] # Filter!None
         /\ \E record \in [val : FilterVal, link : BOOLEAN] : v2' = [v2 EXCEPT ![x] = record]
         /\ v10' = v10 \cup {x}
  BY DEF Filter!Edit
<1>2. PICK record \in [val : FilterVal, link : BOOLEAN] : v2' = [v2 EXCEPT ![x] = record]
  BY <1>1
<1>3. record # Filter!None /\ record \in [val : FilterVal \cup {""}, link : BOOLEAN]
  <2>1. Filter!None.val = "" /\ record.val \in FilterVal
    BY DEF Filter!None
  <2>. QED
    BY <2>1, FilterAssumption
<1>4. v2'[x] = record /\ \A y \in Filter!Id \ {x} : v2'[y] = v2[y]
  BY <1>2, FilterRows
<1>5. v2' \in [Filter!Id -> [val : FilterVal \cup {""}, link : BOOLEAN]]
  BY <1>2, <1>3, FilterRows
<1>6. UNCHANGED <<v1, v3, v4, v5, v6, v7, v8, v9, v11, v12, v13>>
  BY DEF Filter!Edit
<1>. QED
  BY <1>1, <1>3, <1>4, <1>5, <1>6 DEF Filter!TypeOK

(* The steps that leave the records of the server alone.                   *)
FilterQuiet ==
    \/ Filter!Start \/ Filter!SkipUnchanged \/ Filter!SkipExisting \/ Filter!Pass1Over
    \/ Filter!Finish \/ Filter!Crash \/ UNCHANGED Filter!vars

LEMMA FilterSteps ==
    ASSUME [Filter!Next]_Filter!vars
    PROVE  /\ v1' = v1
           /\ FilterQuiet \/ Filter!Pass1 \/ Filter!Pass2 \/ Filter!Edit
           /\ FilterQuiet => v2' = v2
<1>1. CASE Filter!Start
  BY <1>1 DEF Filter!Start, FilterQuiet
<1>2. CASE Filter!SkipUnchanged
  BY <1>2 DEF Filter!SkipUnchanged, FilterQuiet
<1>3. CASE Filter!SkipExisting
  BY <1>3 DEF Filter!SkipExisting, FilterQuiet
<1>4. CASE Filter!Pass1Over
  BY <1>4 DEF Filter!Pass1Over, FilterQuiet
<1>5. CASE Filter!Finish
  BY <1>5 DEF Filter!Finish, FilterQuiet
<1>6. CASE Filter!Crash
  BY <1>6 DEF Filter!Crash, FilterQuiet
<1>7. CASE UNCHANGED Filter!vars
  BY <1>7 DEF Filter!vars, FilterQuiet
<1>8. CASE Filter!Pass1 /\ ~FilterQuiet
  BY <1>8 DEF Filter!Pass1
<1>9. CASE Filter!Pass2 /\ ~FilterQuiet
  BY <1>9 DEF Filter!Pass2
<1>10. CASE Filter!Edit /\ ~FilterQuiet
  BY <1>10 DEF Filter!Edit
<1>. QED
  BY <1>1, <1>2, <1>3, <1>4, <1>5, <1>6, <1>7, <1>8, <1>9, <1>10 DEF Filter!Next, FilterQuiet

(* No record disappears.                                                   *)
LEMMA FilterStay ==
    ASSUME Filter!TypeOK, [Filter!Next]_Filter!vars
    PROVE  \A i \in Filter!Rows : Filter!Made(i) => Filter!Made(i)'
<1>1. \A x \in Filter!Id : v2[x] # Filter!None => v2'[x] # Filter!None
  <2>1. CASE FilterQuiet
    BY <2>1, FilterSteps
  <2>2. CASE Filter!Pass1
    BY <2>2, FilterLoads
  <2>3. CASE Filter!Pass2
    BY <2>3, FilterLinks
  <2>4. CASE Filter!Edit
    BY <2>4, FilterEdited
  <2>. QED
    BY <2>1, <2>2, <2>3, <2>4, FilterSteps
<1>2. v1' = v1 /\ \A i \in Filter!Rows : v1[i].id \in Filter!Id
  BY FilterSteps, FilterRows
<1>. QED
  BY <1>1, <1>2 DEF Filter!Made, Filter!None

(* A value that is as in its row, or has been edited, stays so, until Pass *)
(* 1 begins from the file again.                                           *)
LEMMA FilterSettled ==
    ASSUME Filter!TypeOK, [Filter!Next]_Filter!vars, Filter!Distinct,
           v10 \subseteq v10', NEW i \in Filter!Rows, Filter!ValueSettled(i)
    PROVE  Filter!ValueSettled(i)'
<1>. USE DEF Filter!ValueSettled
<1>1. v1' = v1 /\ v1[i].id \in Filter!Id
  BY FilterSteps, FilterRows
<1>2. CASE FilterQuiet
  BY <1>1, <1>2, FilterSteps
<1>3. CASE Filter!Pass1
  <2>1. i # v9 => v1[i].id # v1[v9].id
    BY <1>3, FilterLoads DEF Filter!Distinct
  <2>2. \/ v2'[v1[i].id] = v2[v1[i].id]
        \/ v2'[v1[i].id].val = v1[i].val
    BY <1>1, <1>3, <2>1, FilterLoads
  <2>. QED
    BY <1>1, <1>3, <2>2
<1>4. CASE Filter!Pass2
  <2>1. v2'[v1[i].id].val = v2[v1[i].id].val
    BY <1>1, <1>4, FilterLinks
  <2>. QED
    BY <1>1, <1>4, <2>1
<1>5. CASE Filter!Edit
  <2>1. v2'[v1[i].id] = v2[v1[i].id] \/ v1[i].id \in v10'
    BY <1>1, <1>5, FilterEdited
  <2>. QED
    BY <1>1, <2>1
<1>. QED
  BY <1>2, <1>3, <1>4, <1>5, FilterSteps

(* The types.                                                              *)
LEMMA FilterTyped ==
    ASSUME Filter!TypeOK, [Filter!Next]_Filter!vars
    PROVE  Filter!TypeOK'
<1>. FilterFaults \in Nat /\ FilterEdits \in Nat
  BY FilterAssumption
<1>0. \A i \in DOMAIN v1 : v1[i].id \in Filter!Id
  BY FilterRows DEF Filter!Rows
<1>1. CASE Filter!Start
  BY <1>1 DEF Filter!Start, Filter!TypeOK, Filter!Rows
<1>2. CASE Filter!SkipUnchanged
  <2>1. v5' \subseteq v5 /\ v13' \in 0 .. FilterFaults
    BY <1>2 DEF Filter!SkipUnchanged, Filter!TypeOK
  <2>2. v11' = v11 \/ v11' = (v11 \/ Filter!HasLinks)
    BY <1>2 DEF Filter!SkipUnchanged
  <2>3. v11' \in BOOLEAN
    BY <2>2 DEF Filter!TypeOK
  <2>4. v8' = "existing" /\ UNCHANGED <<v1, v2, v3, v4, v6, v7, v9, v10, v12, v14>>
    BY <1>2 DEF Filter!SkipUnchanged
  <2>. QED
    BY <2>1, <2>3, <2>4 DEF Filter!TypeOK, Filter!Rows
<1>3. CASE Filter!SkipExisting
  <2>1. v5' \subseteq v5 /\ v13' \in 0 .. FilterFaults
    BY <1>3 DEF Filter!SkipExisting, Filter!TypeOK
  <2>2. v11' = v11 \/ v11' = TRUE
    BY <1>3 DEF Filter!SkipExisting
  <2>3. v11' \in BOOLEAN
    BY <2>2 DEF Filter!TypeOK
  <2>4. v8' = "pass1" /\ v9' = 1 /\ UNCHANGED <<v1, v2, v3, v4, v6, v7, v10, v12, v14>>
    BY <1>3 DEF Filter!SkipExisting
  <2>5. 1 \in 1 .. Len(v1) + 1
    BY FilterRows
  <2>. QED
    BY <2>1, <2>3, <2>4, <2>5 DEF Filter!TypeOK, Filter!Rows
<1>4. CASE Filter!Pass1Over
  <2>1. Filter!MapOfRun \subseteq Filter!Id
    BY <1>0, FilterRows DEF Filter!MapOfRun, Filter!Rows
  <2>2. v12' = v12 \/ v12' = (v4.existing \/ v11)
    BY <1>4 DEF Filter!Pass1Over
  <2>3. v12' \in BOOLEAN
    BY <2>2 DEF Filter!TypeOK
  <2>4. /\ v6' = v6 \/ v6' = Filter!MapOfRun
        /\ (v7' = v6' /\ v7' # Filter!NoCheckpoint) \/ v7' \subseteq Filter!Id
    BY <1>4, <2>1 DEF Filter!Pass1Over
  <2>5. (v6' = Filter!NoCheckpoint \/ v6' \subseteq Filter!Id) /\ v7' \subseteq Filter!Id
    BY <1>4, <2>1, <2>4 DEF Filter!Pass1Over, Filter!TypeOK
  <2>6. v8' = "pass2" /\ v9' = 1 /\ UNCHANGED <<v1, v2, v3, v4, v5, v10, v11, v13, v14>>
    BY <1>4 DEF Filter!Pass1Over
  <2>7. 1 \in 1 .. Len(v1) + 1
    BY FilterRows
  <2>. QED
    BY <2>3, <2>5, <2>6, <2>7 DEF Filter!TypeOK, Filter!Rows
<1>5. CASE Filter!Finish
  BY <1>5 DEF Filter!Finish, Filter!TypeOK, Filter!Rows
<1>6. CASE Filter!Crash
  <2>1. v4' \in [unchanged : BOOLEAN, existing : BOOLEAN]
    BY <1>6 DEF Filter!Crash
  <2>2. v13' \in 0 .. FilterFaults /\ v3' = v2
    BY <1>6 DEF Filter!Crash, Filter!TypeOK
  <2>3. /\ v8' = "idle" /\ v9' = 1 /\ v5' = {} /\ v7' = {}
        /\ UNCHANGED <<v1, v2, v6, v10, v11, v12, v14>>
    BY <1>6 DEF Filter!Crash
  <2>4. 1 \in 1 .. Len(v1) + 1
    BY FilterRows
  <2>. QED
    BY <2>1, <2>2, <2>3, <2>4 DEF Filter!TypeOK, Filter!Rows
<1>7. CASE UNCHANGED Filter!vars
  BY <1>7 DEF Filter!vars, Filter!TypeOK, Filter!Rows
<1>8. CASE Filter!Pass1
  <2>1. v2' \in [Filter!Id -> Filter!Record]
    BY <1>8, FilterLoads DEF Filter!Record
  <2>2. v9' \in 1 .. Len(v1) + 1
    BY <1>8, FilterLoads, FilterRows
  <2>3. UNCHANGED <<v1, v3, v4, v5, v6, v7, v8, v10, v11, v12, v13, v14>>
    BY <1>8, FilterLoads
  <2>. QED
    BY <2>1, <2>2, <2>3 DEF Filter!TypeOK, Filter!Rows
<1>9. CASE Filter!Pass2
  <2>1. v2' \in [Filter!Id -> Filter!Record]
    BY <1>9, FilterLinks DEF Filter!Record
  <2>2. v9' \in 1 .. Len(v1) + 1
    BY <1>9, FilterLinks, FilterRows
  <2>3. UNCHANGED <<v1, v3, v4, v5, v6, v7, v8, v10, v11, v12, v13, v14>>
    BY <1>9, FilterLinks
  <2>. QED
    BY <2>1, <2>2, <2>3 DEF Filter!TypeOK, Filter!Rows
<1>10. CASE Filter!Edit
  <2>1. v14' \in 0 .. FilterEdits
    <3>1. v14' = v14 + 1 /\ v14 < FilterEdits
      BY <1>10 DEF Filter!Edit
    <3>2. v14 \in 0 .. FilterEdits
      BY DEF Filter!TypeOK
    <3>. QED
      BY <3>1, <3>2
  <2>2. v2' \in [Filter!Id -> Filter!Record]
    BY <1>10, FilterEdited DEF Filter!Record
  <2>3. /\ v10' \subseteq Filter!Id
        /\ UNCHANGED <<v1, v3, v4, v5, v6, v7, v8, v9, v11, v12, v13>>
    BY <1>10, FilterEdited
  <2>. QED
    BY <2>1, <2>2, <2>3 DEF Filter!TypeOK, Filter!Rows
<1>. QED
  BY <1>1, <1>2, <1>3, <1>4, <1>5, <1>6, <1>7, <1>8, <1>9, <1>10 DEF Filter!Next

(* A pass that is beyond the last row is beyond every row.                 *)
LEMMA FilterBeyond ==
    ASSUME Filter!TypeOK, v9 \notin Filter!Rows
    PROVE  \A i \in Filter!Rows : i < v9
<1>1. \A n \in Nat : \A k \in 1 .. n + 1 : k \notin 1 .. n => \A i \in 1 .. n : i < k
  OBVIOUS
<1>. QED
  BY <1>1, FilterRows

(* Which rows are left out as unchanged, and as existing.                  *)
LEMMA FilterUnchanged ==
    ASSUME Filter!TypeOK, Filter!SkipUnchanged
    PROVE  /\ v8 = "unchanged" /\ v8' = "existing"
           /\ v5' \subseteq v5 /\ (v11 => v11')
           /\ \A i \in v5 \ v5' : /\ v1[i].id \in FilterDotted /\ Filter!Made(i)
                                  /\ v2[v1[i].id].val = v1[i].val
           /\ ~v11' /\ Filter!HasLinks => v5' = v5
           /\ UNCHANGED <<v1, v2, v3, v4, v6, v7, v9, v10, v12>>
<1>1. /\ v8 = "unchanged" /\ v8' = "existing"
      /\ UNCHANGED <<v1, v2, v3, v4, v6, v7, v9, v10, v12>>
  BY DEF Filter!SkipUnchanged
<1>2. \A i : Filter!Changed(i, Filter!Nothing)
  BY DEF Filter!Changed, Filter!Nothing
<1>3. ASSUME NEW i \in v5, ~Filter!Changed(i, Filter!Found)
      PROVE  /\ v1[i].id \in FilterDotted /\ v2[v1[i].id] # Filter!None
             /\ v2[v1[i].id].val = v1[i].val
  BY <1>3 DEF Filter!Changed, Filter!Found
<1>4. \/ v5' = v5 /\ v11' = v11
      \/ v5' = {i \in v5 : Filter!Changed(i, Filter!Found)} /\ v11' = (v11 \/ Filter!HasLinks)
      \/ v5' = {i \in v5 : Filter!Changed(i, Filter!Nothing)} /\ v11' = v11
  BY DEF Filter!SkipUnchanged
<1>5. CASE v5' = v5 /\ v11' = v11
  BY <1>1, <1>5
<1>6. CASE v5' = {i \in v5 : Filter!Changed(i, Filter!Found)} /\ v11' = (v11 \/ Filter!HasLinks)
  BY <1>1, <1>3, <1>6 DEF Filter!Made
<1>7. CASE v5' = {i \in v5 : Filter!Changed(i, Filter!Nothing)} /\ v11' = v11
  <2>1. v5' = v5
    BY <1>2, <1>7
  <2>. QED
    BY <1>1, <1>7, <2>1
<1>. QED
  BY <1>4, <1>5, <1>6, <1>7

(* What --skip-existing does: it leaves out rows that are there, and only  *)
(* those.                                                                  *)
LEMMA FilterExists ==
    ASSUME Filter!TypeOK, Filter!SkipExisting
    PROVE  /\ v8 = "existing" /\ v8' = "pass1" /\ v9' = 1
           /\ v5' \subseteq v5 /\ (v11 => v11')
           /\ \A i \in v5 \ v5' : Filter!Made(i)
           /\ ~v4.existing => v5' = v5 /\ v11' = v11
           /\ v4.existing /\ ~v11' =>
                 v5' = {i \in v5 : ~(v1[i].id \in FilterDotted /\ Filter!Made(i))}
           /\ UNCHANGED <<v1, v2, v3, v4, v6, v7, v10, v12>>
<1>1. /\ v8 = "existing" /\ v8' = "pass1" /\ v9' = 1
      /\ UNCHANGED <<v1, v2, v3, v4, v6, v7, v10, v12>>
  BY DEF Filter!SkipExisting
<1>2. \A i \in v5 : v1[i].id \in Filter!ExistingIds <=> v1[i].id \in FilterDotted /\ Filter!Made(i)
  BY DEF Filter!ExistingIds, Filter!Made
<1>3. \/ ~v4.existing /\ v5' = v5 /\ v11' = v11
      \/ v4.existing /\ v5' = {i \in v5 : v1[i].id \notin Filter!ExistingIds} /\ v11' = v11
      \/ v4.existing /\ v11' = TRUE /\ v5' = v5
  BY DEF Filter!SkipExisting
<1>. QED
  BY <1>1, <1>2, <1>3

(* While there is a checkpoint, the rows have their records and values.    *)
LEMMA FilterCheckpoint ==
    ASSUME Filter!TypeOK, [Filter!Next]_Filter!vars,
           Filter!CheckpointHolds, Filter!LeftOutHolds, Filter!PassesHold
    PROVE  Filter!CheckpointHolds'
<1>1. v1' = v1
  BY FilterSteps
<1>2. ASSUME v6' = v6, v12' = v12, v6 # Filter!NoCheckpoint => v10 \subseteq v10'
      PROVE  Filter!CheckpointHolds'
  <2>. SUFFICES ASSUME v6 # Filter!NoCheckpoint PROVE Filter!CheckpointHolds'
    BY <1>2 DEF Filter!CheckpointHolds, Filter!NoCheckpoint
  <2>1. \A i \in Filter!Rows : Filter!Made(i)'
    BY FilterStay DEF Filter!CheckpointHolds
  <2>2. ~v12 /\ Filter!Distinct => \A i \in Filter!Rows : Filter!ValueSettled(i)'
    BY <1>2, FilterSettled DEF Filter!CheckpointHolds
  <2>3. ~v12 /\ Filter!HasLinks => \A i \in Filter!Rows : v1[i].id \in v6
    BY DEF Filter!CheckpointHolds
  <2>. QED
    BY <1>1, <1>2, <2>1, <2>2, <2>3
    DEF Filter!CheckpointHolds, Filter!Rows, Filter!Distinct, Filter!HasLinks
<1>3. CASE Filter!Pass1Over /\ v6 = Filter!NoCheckpoint
  <2>1. /\ v8 = "pass1" /\ v9 \notin Filter!Rows /\ v6' = Filter!MapOfRun
        /\ v12' = (v4.existing \/ v11) /\ v2' = v2 /\ v10' = v10
    BY <1>3 DEF Filter!Pass1Over
  <2>2. \A i \in Filter!Rows : i < v9
    BY <2>1, FilterBeyond
  <2>3. \A i \in Filter!Rows : Filter!Made(i)
    BY <1>3, <2>1, <2>2 DEF Filter!LeftOutHolds, Filter!PassesHold
  <2>4. ~v12' /\ Filter!Distinct => \A i \in Filter!Rows : Filter!ValueSettled(i)
    BY <1>3, <2>1, <2>2 DEF Filter!LeftOutHolds, Filter!PassesHold
  <2>5. ~v12' /\ Filter!HasLinks => \A i \in Filter!Rows : v1[i].id \in v6'
    BY <2>1 DEF Filter!LeftOutHolds, Filter!MapOfRun
  <2>. QED
    BY <1>1, <2>1, <2>3, <2>4, <2>5
    DEF Filter!CheckpointHolds, Filter!Rows, Filter!Distinct, Filter!HasLinks, Filter!Made,
        Filter!ValueSettled, Filter!None
<1>4. CASE Filter!Pass1Over /\ v6 # Filter!NoCheckpoint
  BY <1>2, <1>4 DEF Filter!Pass1Over
<1>5. CASE Filter!Finish
  BY <1>5 DEF Filter!Finish, Filter!CheckpointHolds, Filter!NoCheckpoint
<1>6. CASE Filter!Start
  BY <1>2, <1>6 DEF Filter!Start
<1>7. CASE Filter!SkipUnchanged
  BY <1>2, <1>7 DEF Filter!SkipUnchanged
<1>8. CASE Filter!SkipExisting
  BY <1>2, <1>8 DEF Filter!SkipExisting
<1>9. CASE Filter!Crash
  BY <1>2, <1>9 DEF Filter!Crash
<1>10. CASE UNCHANGED Filter!vars
  BY <1>2, <1>10 DEF Filter!vars
<1>11. CASE Filter!Pass1
  BY <1>2, <1>11, FilterLoads
<1>12. CASE Filter!Pass2
  BY <1>2, <1>12, FilterLinks
<1>13. CASE Filter!Edit
  BY <1>2, <1>13, FilterEdited
<1>. QED
  BY <1>3, <1>4, <1>5, <1>6, <1>7, <1>8, <1>9, <1>10, <1>11, <1>12, <1>13 DEF Filter!Next

(* What a run leaves out needs no load.                                    *)
LEMMA FilterLeftOut ==
    ASSUME Filter!TypeOK, [Filter!Next]_Filter!vars, Filter!LeftOutHolds
    PROVE  Filter!LeftOutHolds'
<1>1. v1' = v1
  BY FilterSteps
<1>2. ASSUME v5' = v5, v11' = v11, v4' = v4, v10 \subseteq v10', v8' \in {v8, "pass2"},
             v8' = "pass2" => v8 \in {"pass1", "pass2"}
      PROVE  Filter!LeftOutHolds'
  <2>1. v8' = "unchanged" => v5' = Filter!Rows
    BY <1>2 DEF Filter!LeftOutHolds
  <2>. SUFFICES ASSUME v8' \in {"existing", "pass1", "pass2"} PROVE Filter!LeftOutHolds'
    BY <1>1, <2>1 DEF Filter!LeftOutHolds, Filter!Rows
  <2>2. v8 \in {"existing", "pass1", "pass2"}
    BY <1>2
  <2>3. \A i \in Filter!Rows \ v5 : Filter!Made(i)'
    BY <2>2, FilterStay DEF Filter!LeftOutHolds
  <2>4. ~v11 /\ (v8' = "existing" \/ ~v4.existing) => (Filter!HasLinks => v5 = Filter!Rows)
    BY <1>2, <2>2 DEF Filter!LeftOutHolds
  <2>5. ~v11 /\ (v8' = "existing" \/ ~v4.existing) /\ v8' # "pass2" /\ Filter!Distinct =>
           \A i \in Filter!Rows \ v5 : Filter!ValueSettled(i)'
    BY <1>2, <2>2, FilterSettled DEF Filter!LeftOutHolds
  <2>. QED
    BY <1>1, <1>2, <2>1, <2>3, <2>4, <2>5
    DEF Filter!LeftOutHolds, Filter!Rows, Filter!HasLinks, Filter!Distinct
<1>3. CASE Filter!Start
  BY <1>3 DEF Filter!Start, Filter!LeftOutHolds, Filter!Rows
<1>4. CASE Filter!SkipUnchanged
  <2>1. v5 = Filter!Rows /\ v2' = v2 /\ v10' = v10 /\ v8' = "existing"
    BY <1>4, FilterUnchanged DEF Filter!LeftOutHolds
  <2>2. \A i \in Filter!Rows \ v5' : Filter!Made(i) /\ Filter!ValueSettled(i)
    BY <1>4, <2>1, FilterUnchanged DEF Filter!ValueSettled
  <2>3. ~v11' /\ Filter!HasLinks => v5' = Filter!Rows
    BY <1>4, <2>1, FilterUnchanged
  <2>. QED
    BY <1>1, <2>1, <2>2, <2>3 DEF Filter!LeftOutHolds, Filter!Rows, Filter!HasLinks,
       Filter!Distinct, Filter!Made, Filter!ValueSettled, Filter!None
<1>5. CASE Filter!SkipExisting
  <2>1. UNCHANGED <<v2, v4, v10>> /\ v8 = "existing" /\ v8' = "pass1"
    BY <1>5, FilterExists
  <2>2. \A i \in Filter!Rows \ v5' : Filter!Made(i)
    BY <1>5, <2>1, FilterExists DEF Filter!LeftOutHolds
  <2>3. ~v11' /\ ~v4.existing =>
           /\ Filter!HasLinks => v5' = Filter!Rows
           /\ Filter!Distinct => \A i \in Filter!Rows \ v5' : Filter!ValueSettled(i)
    BY <1>5, <2>1, FilterExists DEF Filter!LeftOutHolds
  <2>. QED
    BY <1>1, <2>1, <2>2, <2>3 DEF Filter!LeftOutHolds, Filter!Rows, Filter!HasLinks,
       Filter!Distinct, Filter!Made, Filter!ValueSettled, Filter!None
<1>6. CASE Filter!Pass1Over
  BY <1>2, <1>6 DEF Filter!Pass1Over
<1>7. CASE Filter!Finish
  BY <1>7 DEF Filter!Finish, Filter!LeftOutHolds
<1>8. CASE Filter!Crash
  BY <1>8 DEF Filter!Crash, Filter!LeftOutHolds
<1>9. CASE UNCHANGED Filter!vars
  BY <1>2, <1>9 DEF Filter!vars
<1>10. CASE Filter!Pass1
  BY <1>2, <1>10, FilterLoads
<1>11. CASE Filter!Pass2
  BY <1>2, <1>11, FilterLinks
<1>12. CASE Filter!Edit
  BY <1>2, <1>12, FilterEdited
<1>. QED
  BY <1>3, <1>4, <1>5, <1>6, <1>7, <1>8, <1>9, <1>10, <1>11, <1>12 DEF Filter!Next

(* The rows a pass has done hold the values of the file.                   *)
LEMMA FilterPasses ==
    ASSUME Filter!TypeOK, [Filter!Next]_Filter!vars,
           Filter!CheckpointHolds, Filter!LeftOutHolds, Filter!PassesHold
    PROVE  Filter!PassesHold'
<1>1. v1' = v1 /\ v5 \subseteq Filter!Rows
  BY FilterSteps, FilterRows
<1>2. ASSUME v8' \notin {"pass1", "pass2"} PROVE Filter!PassesHold'
  BY <1>2 DEF Filter!PassesHold
<1>3. CASE Filter!SkipExisting
  <2>1. v8' = "pass1" /\ v9' = 1 /\ v5' \subseteq v5
    BY <1>3, FilterExists
  <2>2. \A i \in v5' : ~(i < 1)
    BY <1>1, <2>1, FilterRows
  <2>. QED
    BY <2>1, <2>2 DEF Filter!PassesHold
<1>4. CASE Filter!Pass1
  <2>1. /\ v8 = "pass1" /\ v6 = Filter!NoCheckpoint /\ v9' = v9 + 1 /\ v9 \in Filter!Rows
        /\ UNCHANGED <<v5, v6, v8, v10>>
    BY <1>4, FilterLoads
  <2>2. ASSUME NEW i \in v5, i < v9
        PROVE  Filter!Made(i)' /\ (Filter!Distinct => Filter!ValueSettled(i)')
    BY <1>1, <2>1, <2>2, FilterStay, FilterSettled DEF Filter!PassesHold
  <2>3. ASSUME NEW i \in v5, i = v9
        PROVE  Filter!Made(i)' /\ Filter!ValueSettled(i)'
    <3>1. v1[i].id \in Filter!Id
      BY <1>1, FilterRows
    <3>2. v2'[v1[i].id].val = v1[i].val /\ v2'[v1[i].id] # Filter!None
      BY <1>4, <2>3, <3>1, FilterLoads
    <3>. QED
      BY <1>1, <3>2 DEF Filter!Made, Filter!ValueSettled, Filter!None
  <2>4. ASSUME NEW i \in v5, i < v9' PROVE i < v9 \/ i = v9
    BY <1>1, <2>1, <2>4, FilterRows
  <2>. QED
    BY <1>1, <2>1, <2>2, <2>3, <2>4 DEF Filter!PassesHold, Filter!Distinct, Filter!Rows
<1>5. CASE Filter!Pass1Over
  <2>1. v8' = "pass2" /\ v9' = 1 /\ v7' = v6'
    BY <1>5 DEF Filter!Pass1Over
  <2>2. Filter!MapOfRun # Filter!NoCheckpoint
    <3>1. Filter!MapOfRun \subseteq Filter!Id
      BY <1>1, FilterRows DEF Filter!MapOfRun
    <3>2. "no checkpoint" \notin Filter!Id
      BY FilterAssumption DEF Filter!Id
    <3>. QED
      BY <3>1, <3>2 DEF Filter!NoCheckpoint
  <2>3. v6' # Filter!NoCheckpoint
    BY <1>5, <2>2 DEF Filter!Pass1Over
  <2>4. \A i \in Filter!Rows : ~(i < 1)
    BY FilterRows
  <2>. QED
    BY <1>1, <2>1, <2>3, <2>4 DEF Filter!PassesHold, Filter!NoCheckpoint, Filter!Rows
<1>6. CASE Filter!Pass2
  <2>1. /\ v8 = "pass2" /\ v9' = v9 + 1 /\ v9 \in Filter!Rows
        /\ UNCHANGED <<v4, v5, v6, v7, v8, v10, v11, v12>>
    BY <1>6, FilterLinks
  <2>2. v6 # Filter!NoCheckpoint /\ v7 = v6
    BY <2>1 DEF Filter!PassesHold
  <2>3. ASSUME Filter!Distinct, ~v11, ~v12, ~v4.existing,
               NEW i \in Filter!Rows, i < v9', v1[i].link
        PROVE  v1[i].id \in v10 \/ v2'[v1[i].id].link
    <3>1. v1[i].id \in Filter!Id
      BY FilterRows
    <3>2. CASE i < v9
      <4>1. v1[i].id \in v10 \/ v2[v1[i].id].link
        BY <2>1, <2>3, <3>2 DEF Filter!PassesHold
      <4>. QED
        BY <1>6, <3>1, <4>1, FilterLinks
    <3>3. CASE i = v9
      <4>1. Filter!HasLinks
        BY <2>3 DEF Filter!HasLinks
      <4>2. i \in v5
        BY <2>1, <2>3, <4>1 DEF Filter!LeftOutHolds
      <4>3. v1[i].id \in v7 /\ v2[v1[i].id] # Filter!None
        BY <2>2, <2>3, <4>1 DEF Filter!CheckpointHolds, Filter!Made
      <4>4. Filter!Linked(v9)
        BY <2>3, <3>3, <4>2, <4>3 DEF Filter!Linked
      <4>. QED
        BY <1>6, <3>1, <3>3, <4>3, <4>4, FilterLinks
    <3>4. i < v9 \/ i = v9
      BY <2>1, <2>3, FilterRows
    <3>. QED
      BY <3>2, <3>3, <3>4
  <2>. QED
    BY <1>1, <2>1, <2>2, <2>3 DEF Filter!PassesHold, Filter!NoCheckpoint, Filter!Rows,
       Filter!Distinct
<1>7. CASE Filter!Edit
  <2>1. /\ v10 \subseteq v10' /\ UNCHANGED <<v4, v5, v6, v7, v8, v9, v11, v12>>
        /\ \A x \in Filter!Id : v2'[x] = v2[x] \/ x \in v10'
    BY <1>7, FilterEdited
  <2>2. \A i \in v5 : /\ Filter!Made(i) => Filter!Made(i)'
                      /\ Filter!Distinct /\ Filter!ValueSettled(i) => Filter!ValueSettled(i)'
    BY <1>1, <2>1, FilterStay, FilterSettled
  <2>3. \A i \in Filter!Rows : v1[i].id \in Filter!Id
    BY FilterRows
  <2>4. v8 = "pass1" /\ v6 = Filter!NoCheckpoint =>
           \A i \in v5 : i < v9 => Filter!Made(i)' /\ (Filter!Distinct => Filter!ValueSettled(i)')
    BY <2>2 DEF Filter!PassesHold
  <2>5. v8 = "pass2" => /\ v6 # Filter!NoCheckpoint /\ v7 = v6
                        /\ Filter!Distinct /\ ~v11 /\ ~v12 /\ ~v4.existing =>
                              \A i \in Filter!Rows : i < v9 /\ v1[i].link =>
                                  v1[i].id \in v10' \/ v2'[v1[i].id].link
    BY <2>1, <2>3 DEF Filter!PassesHold
  <2>. QED
    BY <1>1, <2>1, <2>4, <2>5 DEF Filter!PassesHold, Filter!NoCheckpoint, Filter!Rows,
       Filter!Distinct
<1>8. CASE UNCHANGED Filter!vars
  BY <1>8 DEF Filter!vars, Filter!PassesHold, Filter!NoCheckpoint, Filter!Rows,
     Filter!Distinct, Filter!Made, Filter!ValueSettled, Filter!None
<1>9. CASE Filter!Start
  BY <1>2, <1>9 DEF Filter!Start
<1>10. CASE Filter!SkipUnchanged
  BY <1>2, <1>10 DEF Filter!SkipUnchanged
<1>11. CASE Filter!Finish
  BY <1>2, <1>11 DEF Filter!Finish
<1>12. CASE Filter!Crash
  BY <1>2, <1>12 DEF Filter!Crash
<1>. QED
  BY <1>3, <1>4, <1>5, <1>6, <1>7, <1>8, <1>9, <1>10, <1>11, <1>12 DEF Filter!Next

(* With --skip-existing, row by row.                                       *)
LEMMA FilterExistingRow ==
    ASSUME Filter!TypeOK, [Filter!Next]_Filter!vars, Filter!Distinct,
           Filter!CheckpointHolds, Filter!LeftOutHolds, Filter!PassesHold,
           Filter!ExistingHolds,
           NEW i \in Filter!Rows, v1[i].id \notin v10' \cup FilterUndotted
    PROVE  /\ v8' \in {"unchanged", "existing"} => v2'[v1[i].id] = v3'[v1[i].id]
           /\ v8' = "existing" /\ v3'[v1[i].id] = Filter!None => i \in v5'
           /\ v8' \in {"pass1", "pass2"} /\ v4'.existing /\ ~v11' =>
                 /\ v3'[v1[i].id] = Filter!None => Filter!NewOneHolds(i)'
                 /\ v3'[v1[i].id] # Filter!None => Filter!OldOneHolds(i)'
<1> DEFINE x == v1[i].id
<1>1. v1' = v1 /\ x \in Filter!Id /\ x \in FilterDotted
  BY FilterSteps, FilterRows DEF Filter!Id
<1>2. CASE Filter!Start
  BY <1>2 DEF Filter!Start
<1>. SUFFICES ASSUME ~Filter!Start PROVE
           /\ v8' \in {"unchanged", "existing"} => v2'[x] = v3'[x]
           /\ v8' = "existing" /\ v3'[x] = Filter!None => i \in v5'
           /\ v8' \in {"pass1", "pass2"} /\ v4'.existing /\ ~v11' =>
                 /\ v3'[x] = Filter!None => Filter!NewOneHolds(i)'
                 /\ v3'[x] # Filter!None => Filter!OldOneHolds(i)'
  BY <1>2
<1>3. v10 \subseteq v10'
  <2>1. CASE Filter!Edit
    BY <2>1, FilterEdited
  <2>2. CASE ~Filter!Edit
    BY <2>2 DEF Filter!Next, Filter!vars, Filter!Start, Filter!SkipUnchanged,
       Filter!SkipExisting, Filter!Pass1, Filter!Pass1Over, Filter!Pass2, Filter!Finish,
       Filter!Crash
  <2>. QED
    BY <2>1, <2>2
<1>4. /\ v8 \in {"unchanged", "existing"} => v2[x] = v3[x]
      /\ v8 = "existing" /\ v3[x] = Filter!None => i \in v5
      /\ v8 \in {"pass1", "pass2"} /\ v4.existing /\ ~v11 =>
            /\ v3[x] = Filter!None => Filter!NewOneHolds(i)
            /\ v3[x] # Filter!None => Filter!OldOneHolds(i)
  BY <1>3 DEF Filter!ExistingHolds
<1> HIDE DEF x
<1>5. CASE Filter!SkipUnchanged
  <2>1. /\ v8 = "unchanged" /\ v8' = "existing" /\ v2' = v2 /\ v3' = v3 /\ v5 = Filter!Rows
        /\ \A j \in v5 \ v5' : Filter!Made(j)
    BY <1>5, FilterUnchanged DEF Filter!LeftOutHolds
  <2>2. i \notin v5' => v2[x] # Filter!None
    BY <2>1 DEF Filter!Made, x
  <2>. QED
    BY <1>4, <2>1, <2>2
<1>6. CASE Filter!SkipExisting
  <2>1. v8 = "existing" /\ v8' = "pass1" /\ UNCHANGED <<v2, v3, v4, v6>>
    BY <1>6, FilterExists
  <2>2. v2[x] = v3[x] /\ (v3[x] = Filter!None => i \in v5)
    BY <1>4, <2>1
  <2>3. ASSUME v4.existing, ~v11'
        PROVE  i \in v5' <=> i \in v5 /\ v2[x] = Filter!None
    BY <1>1, <1>6, <2>3, FilterExists DEF Filter!Made, x
  <2>4. v2[x] = Filter!None => v6 = Filter!NoCheckpoint
    BY DEF Filter!CheckpointHolds, Filter!Made, x
  <2>. QED
    BY <1>1, <2>1, <2>2, <2>3, <2>4
    DEF Filter!NewOneHolds, Filter!OldOneHolds, Filter!NoCheckpoint, x
<1>7. CASE Filter!Pass1
  <2>1. v8 = "pass1" /\ v8' = "pass1" /\ UNCHANGED <<v3, v4, v5, v6, v11>>
    BY <1>7, FilterLoads
  <2>2. i \notin v5 => v2'[x] = v2[x]
    <3>1. v9 \in Filter!Rows /\ (i # v9 => x # v1[v9].id)
      BY <1>7, FilterLoads DEF Filter!Distinct, x
    <3>2. v2'[x] = v2[x] \/ (v9 \in v5 /\ x = v1[v9].id)
      BY <1>1, <1>7, FilterLoads
    <3>. QED
      BY <3>1, <3>2
  <2>. QED
    BY <1>1, <1>4, <2>1, <2>2
    DEF Filter!NewOneHolds, Filter!OldOneHolds, Filter!NoCheckpoint, x
<1>8. CASE Filter!Pass1Over
  <2>1. /\ v8 = "pass1" /\ v8' = "pass2" /\ v9' = 1 /\ v7' = v6'
        /\ UNCHANGED <<v2, v3, v4, v5, v11>>
    BY <1>8 DEF Filter!Pass1Over
  <2>2. ASSUME v4.existing, ~v11, v3[x] = Filter!None
        PROVE  i \in v5 /\ x \in v6' /\ v2[x].val = v1[i].val
    <3>1. i \in v5 /\ v6 = Filter!NoCheckpoint
      BY <1>4, <2>1, <2>2 DEF Filter!NewOneHolds
    <3>2. v9 \notin Filter!Rows /\ v6' = Filter!MapOfRun
      BY <1>8, <3>1 DEF Filter!Pass1Over
    <3>3. i < v9
      BY <3>2, FilterBeyond
    <3>4. Filter!ValueSettled(i)
      BY <2>1, <3>1, <3>3 DEF Filter!PassesHold
    <3>5. x \notin v10
      BY <1>3 DEF x
    <3>. QED
      BY <3>1, <3>2, <3>4, <3>5 DEF Filter!ValueSettled, Filter!MapOfRun, x
  <2>3. ~(i < 1)
    BY FilterRows
  <2>. QED
    BY <1>1, <1>4, <2>1, <2>2, <2>3 DEF Filter!NewOneHolds, Filter!OldOneHolds, x
<1>9. CASE Filter!Pass2
  <2>1. /\ v8 = "pass2" /\ v8' = "pass2" /\ v9' = v9 + 1 /\ v9 \in Filter!Rows
        /\ UNCHANGED <<v3, v4, v5, v6, v7, v11>>
    BY <1>9, FilterLinks
  <2>2. /\ v2'[x].val = v2[x].val /\ (v2[x].link => v2'[x].link)
        /\ Filter!Linked(v9) /\ x = v1[v9].id /\ v2[x] # Filter!None => v2'[x].link
    BY <1>1, <1>9, FilterLinks
  <2>3. v1[i].val # Filter!None.val
    BY FilterRows, FilterAssumption DEF Filter!None
  <2>4. ASSUME v4.existing, ~v11, v3[x] = Filter!None, i < v9', v1[i].link
        PROVE  v2'[x].link
    <3>1. /\ i \in v5 /\ x \in v7 /\ v2[x].val = v1[i].val
          /\ i < v9 /\ v1[i].link => v2[x].link
      BY <1>4, <2>1, <2>4 DEF Filter!NewOneHolds, x
    <3>2. v2[x] # Filter!None
      BY <2>3, <3>1
    <3>3. i = v9 => Filter!Linked(v9) /\ x = v1[v9].id
      BY <2>4, <3>1 DEF Filter!Linked, x
    <3>4. i < v9 \/ i = v9
      BY <2>1, <2>4, FilterRows
    <3>. QED
      BY <2>2, <2>4, <3>1, <3>2, <3>3, <3>4
  <2>. QED
    BY <1>1, <1>4, <2>1, <2>2, <2>4 DEF Filter!NewOneHolds, Filter!OldOneHolds, x
<1>10. CASE Filter!Edit
  <2>1. v2'[x] = v2[x] /\ UNCHANGED <<v3, v4, v5, v6, v7, v8, v9, v11>>
    BY <1>1, <1>10, FilterEdited DEF x
  <2>. QED
    BY <1>1, <1>4, <2>1
    DEF Filter!NewOneHolds, Filter!OldOneHolds, Filter!NoCheckpoint, x
<1>11. CASE UNCHANGED Filter!vars
  BY <1>1, <1>4, <1>11
  DEF Filter!vars, Filter!NewOneHolds, Filter!OldOneHolds, Filter!NoCheckpoint, x
<1>12. CASE Filter!Finish
  BY <1>12 DEF Filter!Finish
<1>13. CASE Filter!Crash
  BY <1>13 DEF Filter!Crash
<1>. QED
  BY <1>5, <1>6, <1>7, <1>8, <1>9, <1>10, <1>11, <1>12, <1>13 DEF Filter!Next

(* Records that were there before --skip-existing keep what they had.      *)
LEMMA FilterExisting ==
    ASSUME Filter!TypeOK, [Filter!Next]_Filter!vars,
           Filter!CheckpointHolds, Filter!LeftOutHolds, Filter!PassesHold,
           Filter!ExistingHolds
    PROVE  Filter!ExistingHolds'
<1>1. v1' = v1
  BY FilterSteps
<1>. QED
  BY <1>1, FilterExistingRow
  DEF Filter!ExistingHolds, Filter!Rows, Filter!Distinct, Filter!None

(* What a run that ends now, or has ended, has done.                       *)
LEMMA FilterDone ==
    ASSUME Filter!FilterInv, [Filter!Next]_Filter!vars
    PROVE  Filter!SkippingChangesNothing' /\ Filter!OnlyMissingAreMade'
<1>. USE DEF Filter!FilterInv
<1>1. v1' = v1 /\ \A i \in Filter!Rows : v1[i].id \in Filter!Id
  BY FilterSteps, FilterRows
<1>2. ASSUME v8' # "done"
      PROVE  Filter!SkippingChangesNothing' /\ Filter!OnlyMissingAreMade'
  BY <1>2 DEF Filter!SkippingChangesNothing, Filter!OnlyMissingAreMade
<1>3. CASE Filter!Finish
  <2>1. /\ v8 = "pass2" /\ v9 \notin Filter!Rows
        /\ UNCHANGED <<v2, v3, v4, v10, v11, v12>>
    BY <1>3 DEF Filter!Finish
  <2>2. \A i \in Filter!Rows : i < v9
    BY <2>1, FilterBeyond
  <2>3. ASSUME ~v4.existing, ~v11, ~v12, Filter!Distinct, NEW i \in Filter!Rows
        PROVE  v1[i].id \in v10 \/ Filter!AsInRow(i)
    <3>1. Filter!ValueSettled(i)
      BY <2>1, <2>3 DEF Filter!PassesHold, Filter!CheckpointHolds
    <3>2. v1[i].link => v1[i].id \in v10 \/ v2[v1[i].id].link
      BY <2>1, <2>2, <2>3 DEF Filter!PassesHold
    <3>. QED
      BY <3>1, <3>2 DEF Filter!ValueSettled, Filter!AsInRow
  <2>4. Filter!SkippingChangesNothing'
    BY <1>1, <2>1, <2>3 DEF Filter!SkippingChangesNothing, Filter!Rows, Filter!Distinct,
       Filter!AsInRow
  <2>5. ASSUME v4.existing, ~v11, Filter!Distinct, NEW i \in Filter!Rows,
               v1[i].id \notin v10 \cup FilterUndotted
        PROVE  \/ /\ v1[i].id \in FilterDotted /\ v3[v1[i].id] # Filter!None
                  /\ v3[v1[i].id].val = v2[v1[i].id].val
               \/ v3[v1[i].id] = Filter!None /\ Filter!AsInRow(i)
    <3>1. v1[i].id \in FilterDotted
      BY <1>1, <2>5 DEF Filter!Id
    <3>2. CASE v3[v1[i].id] = Filter!None
      <4>1. Filter!NewOneHolds(i)
        BY <2>1, <2>5, <3>2 DEF Filter!ExistingHolds
      <4>. QED
        BY <2>1, <2>2, <3>2, <4>1 DEF Filter!NewOneHolds, Filter!AsInRow
    <3>3. CASE v3[v1[i].id] # Filter!None
      <4>1. Filter!OldOneHolds(i)
        BY <2>1, <2>5, <3>3 DEF Filter!ExistingHolds
      <4>. QED
        BY <3>1, <3>3, <4>1 DEF Filter!OldOneHolds
    <3>. QED
      BY <3>2, <3>3
  <2>6. Filter!OnlyMissingAreMade'
    BY <1>1, <2>1, <2>5 DEF Filter!OnlyMissingAreMade, Filter!Rows, Filter!Distinct,
       Filter!AsInRow, Filter!None
  <2>. QED
    BY <2>4, <2>6
<1>4. CASE Filter!Edit
  <2>1. /\ v10 \subseteq v10' /\ UNCHANGED <<v3, v4, v8, v11, v12>>
        /\ \A x \in Filter!Id : v2'[x] = v2[x] \/ x \in v10'
    BY <1>4, FilterEdited
  <2>2. \A i \in Filter!Rows : \/ v1[i].id \in v10'
                               \/ v1[i].id \notin v10 /\ v2'[v1[i].id] = v2[v1[i].id]
    BY <1>1, <2>1
  <2>3. Filter!SkippingChangesNothing'
    BY <1>1, <2>1, <2>2 DEF Filter!SkippingChangesNothing, Filter!Rows, Filter!Distinct,
       Filter!AsInRow
  <2>4. Filter!OnlyMissingAreMade'
    BY <1>1, <2>1, <2>2 DEF Filter!OnlyMissingAreMade, Filter!Rows, Filter!Distinct,
       Filter!AsInRow, Filter!None
  <2>. QED
    BY <2>3, <2>4
<1>5. CASE UNCHANGED Filter!vars
  BY <1>5 DEF Filter!vars, Filter!SkippingChangesNothing, Filter!OnlyMissingAreMade,
     Filter!Rows, Filter!Distinct, Filter!AsInRow, Filter!None
<1>6. CASE Filter!Start
  BY <1>2, <1>6 DEF Filter!Start
<1>7. CASE Filter!SkipUnchanged
  BY <1>2, <1>7 DEF Filter!SkipUnchanged
<1>8. CASE Filter!SkipExisting
  BY <1>2, <1>8 DEF Filter!SkipExisting
<1>9. CASE Filter!Pass1
  <2>1. v8' = "pass1"
    BY <1>9, FilterLoads
  <2>. QED
    BY <1>2, <2>1
<1>10. CASE Filter!Pass1Over
  BY <1>2, <1>10 DEF Filter!Pass1Over
<1>11. CASE Filter!Pass2
  <2>1. v8' = "pass2"
    BY <1>11, FilterLinks
  <2>. QED
    BY <1>2, <2>1
<1>12. CASE Filter!Crash
  BY <1>2, <1>12 DEF Filter!Crash
<1>. QED
  BY <1>3, <1>4, <1>5, <1>6, <1>7, <1>8, <1>9, <1>10, <1>11, <1>12 DEF Filter!Next

(* The filter invariant: what a checkpoint, the rows left out and the      *)
(* passes mean for each row's record, over any runs, crashes and edits.    *)
THEOREM FiltersKeepTheirPromise == Filter!Spec => []Filter!FilterInv
<1>1. Filter!Init => Filter!FilterInv
  <2>. SUFFICES ASSUME Filter!Init PROVE Filter!FilterInv
    OBVIOUS
  <2>1. /\ v8 = "idle" /\ v6 = Filter!NoCheckpoint /\ v5 = {} /\ v7 = {} /\ v9 = 1
        /\ v10 = {} /\ v3 = v2 /\ v1 \in FilterFiles
    BY DEF Filter!Init
  <2>2. Filter!TypeOK
    <3>1. v2 \in [Filter!Id -> Filter!Record]
      <4>1. {Filter!None, [val |-> FilterBefore, link |-> FALSE]} \subseteq Filter!Record
        <5>1. FilterBefore \in FilterVal
          BY FilterAssumption
        <5>2. [val |-> FilterBefore, link |-> FALSE] \in Filter!Record
          BY <5>1, Zenon DEF Filter!Record
        <5>3. Filter!None \in Filter!Record
          BY Zenon DEF Filter!None, Filter!Record
        <5>. QED
          BY <5>2, <5>3
      <4>. QED
        BY <4>1 DEF Filter!Init
    <3>2. v4 \in [unchanged : BOOLEAN, existing : BOOLEAN]
      BY DEF Filter!Init
    <3>3. 1 \in 1 .. Len(v1) + 1
      <4>1. v1 \in Seq([id : FilterDotted \cup FilterUndotted, val : FilterVal, link : BOOLEAN])
        BY <2>1, FilterAssumption
      <4>2. Len(v1) \in Nat
        BY <4>1
      <4>3. \A n \in Nat : 1 \in 1 .. n + 1
        OBVIOUS
      <4>. QED
        BY <4>2, <4>3
    <3>4. v11 \in BOOLEAN /\ v12 \in BOOLEAN
      BY Zenon DEF Filter!Init
    <3>5. FilterFaults \in Nat /\ FilterEdits \in Nat
      BY FilterAssumption
    <3>6. v13 \in 0 .. FilterFaults /\ v14 \in 0 .. FilterEdits
      BY <3>5 DEF Filter!Init
    <3>. QED
      BY <2>1, <3>1, <3>2, <3>3, <3>4, <3>6 DEF Filter!TypeOK
  <2>3. Filter!CheckpointHolds /\ Filter!LeftOutHolds /\ Filter!PassesHold
    BY <2>1 DEF Filter!CheckpointHolds, Filter!LeftOutHolds, Filter!PassesHold
  <2>4. Filter!ExistingHolds
    BY <2>1 DEF Filter!ExistingHolds
  <2>5. Filter!SkippingChangesNothing /\ Filter!OnlyMissingAreMade
    BY <2>1 DEF Filter!SkippingChangesNothing, Filter!OnlyMissingAreMade
  <2>. QED
    BY <2>2, <2>3, <2>4, <2>5 DEF Filter!FilterInv
<1>2. Filter!FilterInv /\ [Filter!Next]_Filter!vars => Filter!FilterInv'
  BY FilterTyped, FilterCheckpoint, FilterLeftOut, FilterPasses, FilterExisting, FilterDone
  DEF Filter!FilterInv
<1>. QED
  BY <1>1, <1>2, PTL DEF Filter!Spec

(* Over any number of runs that die or are resumed: skipping unchanged     *)
(* rows changes nothing, and skipping existing ones makes and links what   *)
(* is missing and leaves the rest, for any file and any edits meanwhile.   *)
THEOREM FiltersAreRight == Filter!Spec => []FiltersAreSound
<1>1. Filter!FilterInv => FiltersAreSound
  BY DEF Filter!FilterInv, Filter!FiltersAreSound, FiltersAreSound
<1>. QED
  BY <1>1, FiltersKeepTheirPromise, PTL

(***************************************************************************)
(* ImportCommand                                                           *)
(***************************************************************************)
(* What is used of the assumption, one by one.                              *)
LEMMA ImportConstants ==
    /\ ImportRuns \in Nat /\ ImportFaults \in Nat
    /\ \A o \in ImportOwner : o \in Nat /\ o > 0 /\ ImportAsked[o] \subseteq ImportTarget
    /\ ImportOptions # {} /\ ImportOptions \subseteq Import!Option
BY ImportAssumption DEF Import!Option

(* The number of elements is the library's.                                *)
LEMMA ImportCardinality == \A S : Import!Cardinality(S) = Cardinality(S)
BY DEF Import!Cardinality, Cardinality

(* What a run is given, and what the files of the row numbers may be.      *)
LEMMA ImportRun ==
    ASSUME Import!TypeOK
    PROVE  /\ v1 \in [ImportOwner -> ImportOwner \cup {0}]
           /\ v5 \in [ImportOwner -> SUBSET (ImportTarget \cup {Import!Stranger})]
           /\ v12 \in ImportOptions
           /\ v13 \subseteq ImportOwner /\ v16 \subseteq ImportOwner /\ v9 \subseteq ImportOwner
BY ImportAssumption DEF Import!TypeOK

(* What no step changes while a run is under way.                          *)
ImportFixed ==
    UNCHANGED <<v1, v2, v3, v8, v12, v13>>

(* Then nothing that depends on them alone changes.                        *)
LEMMA ImportStays ==
    ASSUME ImportFixed
    PROVE  /\ Import!Sorted' = Import!Sorted /\ Import!Planned' = Import!Planned
           /\ Import!ParentDeferred' = Import!ParentDeferred
           /\ Import!LinksDeferred' = Import!LinksDeferred
           /\ Import!LinesDeferred' = Import!LinesDeferred
           /\ Import!RelatedIds' = Import!RelatedIds
           /\ \A o \in ImportOwner : Import!Resolved(o)' = Import!Resolved(o)
BY DEF ImportFixed, Import!Sorted, Import!Planned, Import!ParentDeferred,
       Import!LinksDeferred, Import!LinesDeferred, Import!RelatedIds, Import!Resolved

(* Types, step by step: places and verdicts, numbers, sets of rows, then   *)
(* what is kept for each row or pass.                                      *)
ImportPlaces ==
    /\ v14 \in {"idle", "load", "resolve", "m2m", "o2m", "passes"}
    /\ v19 \in {"none", "nothing to retry", "failed", "partial",
                "complete with failures", "complete"}
ImportNumbers == v21 \in 0 .. ImportRuns /\ v22 \in 0 .. ImportFaults
ImportSets ==
    /\ v2 \subseteq ImportOwner /\ v3 \subseteq ImportTarget /\ v4 \subseteq ImportOwner
    /\ v8 = Import!NoCache \/ v8 \subseteq v3
    /\ v9 \subseteq ImportOwner /\ v10 \subseteq ImportOwner
    /\ v13 \subseteq ImportOwner /\ v16 \subseteq v13
    /\ v15 \subseteq ImportOwner \cup Import!Pass /\ v17 \subseteq v3
    /\ v18 \subseteq Import!Pass
    /\ v1 \in ImportParents /\ v12 \in ImportOptions
ImportMaps ==
    /\ v5 \in [ImportOwner -> SUBSET (ImportTarget \cup {Import!Stranger})]
    /\ v6 \in [ImportOwner -> 0 .. ImportRuns]
    /\ v7 \in [Import!Pass -> SUBSET ImportOwner] /\ v11 \in [Import!Pass -> SUBSET ImportOwner]

(* TypeOK is these parts.                                                  *)
LEMMA ImportTypes ==
    Import!TypeOK <=>
        ImportPlaces /\ ImportNumbers /\ ImportSets /\ ImportMaps /\ v20 \in BOOLEAN
BY ImportConstants DEF Import!TypeOK, ImportPlaces, ImportNumbers, ImportSets, ImportMaps

(* Every step keeps each of the parts.                                     *)
LEMMA ImportPlacesTyped ==
    ASSUME ImportPlaces, [Import!Next]_Import!vars
    PROVE  ImportPlaces'
<1>. USE DEF ImportPlaces, Import!server, Import!disk, Import!work
<1>1. ASSUME NEW S \in SUBSET ImportTarget, Import!ImportTargets(S) PROVE ImportPlaces'
  BY <1>1 DEF Import!ImportTargets
<1>2. ASSUME NEW o \in ImportOwner, Import!Correct(o) PROVE ImportPlaces'
  BY <1>2 DEF Import!Correct
<1>3. ASSUME NEW o \in ImportOwner, Import!LoadRow(o) PROVE ImportPlaces'
  BY <1>3 DEF Import!LoadRow
<1>4. ASSUME NEW options \in ImportOptions, Import!Start(options) PROVE ImportPlaces'
  BY <1>4 DEF Import!Start
<1>5. CASE Import!AbortLoad
  BY <1>5 DEF Import!AbortLoad, Import!Failed, Import!Fault
<1>6. CASE Import!LoadDone
  BY <1>6 DEF Import!LoadDone, Import!Pass2, Import!Failed, Import!Fault
<1>7. CASE Import!Resolve
  BY <1>7 DEF Import!Resolve, Import!Fault
<1>8. ASSUME NEW o \in ImportOwner, Import!WriteTuple(o) PROVE ImportPlaces'
  BY <1>8 DEF Import!WriteTuple, Import!Refused, Import!Fault
<1>9. CASE Import!TuplesDone
  BY <1>9 DEF Import!TuplesDone
<1>10. ASSUME NEW o \in ImportOwner, Import!WriteO2m(o) PROVE ImportPlaces'
  BY <1>10 DEF Import!WriteO2m, Import!Refused, Import!Fault
<1>11. CASE Import!LinesDone
  BY <1>11 DEF Import!LinesDone
<1>12. ASSUME NEW p \in Import!Pass, Import!UpdatePass(p) PROVE ImportPlaces'
  BY <1>12 DEF Import!UpdatePass, Import!Summary, Import!Fault
<1>13. CASE Import!Report
  BY <1>13 DEF Import!Report
<1>14. CASE UNCHANGED Import!vars
  BY <1>14 DEF Import!vars, Import!server, Import!disk, Import!work
<1>. QED
  BY <1>1, <1>2, <1>3, <1>4, <1>5, <1>6, <1>7,
     <1>8, <1>9, <1>10, <1>11, <1>12, <1>13, <1>14
  DEF Import!Next

(* The bounds of the counters.                                             *)
LEMMA ImportNumbersTyped ==
    ASSUME ImportNumbers, [Import!Next]_Import!vars
    PROVE  ImportNumbers'
<1>. USE ImportConstants DEF ImportNumbers, Import!server, Import!disk, Import!work
<1>1. ASSUME NEW S \in SUBSET ImportTarget, Import!ImportTargets(S) PROVE ImportNumbers'
  BY <1>1 DEF Import!ImportTargets
<1>2. ASSUME NEW o \in ImportOwner, Import!Correct(o) PROVE ImportNumbers'
  BY <1>2 DEF Import!Correct
<1>3. ASSUME NEW o \in ImportOwner, Import!LoadRow(o) PROVE ImportNumbers'
  BY <1>3 DEF Import!LoadRow
<1>4. ASSUME NEW options \in ImportOptions, Import!Start(options) PROVE ImportNumbers'
  <2>1. v21 < ImportRuns /\ v21' = v21 + 1 /\ v22' = v22
    BY <1>4 DEF Import!Start
  <2>. QED
    BY <2>1
<1>5. CASE Import!AbortLoad
  BY <1>5 DEF Import!AbortLoad, Import!Failed, Import!Fault
<1>6. CASE Import!LoadDone
  BY <1>6 DEF Import!LoadDone, Import!Pass2, Import!Failed, Import!Fault
<1>7. CASE Import!Resolve
  BY <1>7 DEF Import!Resolve, Import!Fault
<1>8. ASSUME NEW o \in ImportOwner, Import!WriteTuple(o) PROVE ImportNumbers'
  BY <1>8 DEF Import!WriteTuple, Import!Refused, Import!Fault
<1>9. CASE Import!TuplesDone
  BY <1>9 DEF Import!TuplesDone
<1>10. ASSUME NEW o \in ImportOwner, Import!WriteO2m(o) PROVE ImportNumbers'
  BY <1>10 DEF Import!WriteO2m, Import!Refused, Import!Fault
<1>11. CASE Import!LinesDone
  BY <1>11 DEF Import!LinesDone
<1>12. ASSUME NEW p \in Import!Pass, Import!UpdatePass(p) PROVE ImportNumbers'
  BY <1>12 DEF Import!UpdatePass, Import!Summary, Import!Fault
<1>13. CASE Import!Report
  BY <1>13 DEF Import!Report
<1>14. CASE UNCHANGED Import!vars
  BY <1>14 DEF Import!vars, Import!server, Import!disk, Import!work
<1>. QED
  BY <1>1, <1>2, <1>3, <1>4, <1>5, <1>6, <1>7,
     <1>8, <1>9, <1>10, <1>11, <1>12, <1>13, <1>14
  DEF Import!Next

(* What has been quiet or not.                                             *)
LEMMA ImportQuietTyped ==
    ASSUME v20 \in BOOLEAN, [Import!Next]_Import!vars
    PROVE  v20' \in BOOLEAN
<1>. USE Zenon DEF Import!server, Import!disk, Import!work
<1>1. ASSUME NEW S \in SUBSET ImportTarget, Import!ImportTargets(S) PROVE v20' \in BOOLEAN
  BY <1>1 DEF Import!ImportTargets
<1>2. ASSUME NEW o \in ImportOwner, Import!Correct(o) PROVE v20' \in BOOLEAN
  BY <1>2 DEF Import!Correct
<1>3. ASSUME NEW o \in ImportOwner, Import!LoadRow(o) PROVE v20' \in BOOLEAN
  BY <1>3 DEF Import!LoadRow
<1>4. ASSUME NEW options \in ImportOptions, Import!Start(options) PROVE v20' \in BOOLEAN
  BY <1>4 DEF Import!Start
<1>5. CASE Import!AbortLoad
  BY <1>5 DEF Import!AbortLoad, Import!Failed, Import!Fault
<1>6. CASE Import!LoadDone
  BY <1>6 DEF Import!LoadDone, Import!Pass2, Import!Failed, Import!Fault
<1>7. CASE Import!Resolve
  BY <1>7 DEF Import!Resolve, Import!Fault
<1>8. ASSUME NEW o \in ImportOwner, Import!WriteTuple(o) PROVE v20' \in BOOLEAN
  BY <1>8 DEF Import!WriteTuple, Import!Refused, Import!Fault
<1>9. CASE Import!TuplesDone
  BY <1>9 DEF Import!TuplesDone
<1>10. ASSUME NEW o \in ImportOwner, Import!WriteO2m(o) PROVE v20' \in BOOLEAN
  BY <1>10 DEF Import!WriteO2m, Import!Refused, Import!Fault
<1>11. CASE Import!LinesDone
  BY <1>11 DEF Import!LinesDone
<1>12. ASSUME NEW p \in Import!Pass, Import!UpdatePass(p) PROVE v20' \in BOOLEAN
  BY <1>12 DEF Import!UpdatePass, Import!Summary, Import!Fault
<1>13. CASE Import!Report
  BY <1>13 DEF Import!Report
<1>14. CASE UNCHANGED Import!vars
  BY <1>14 DEF Import!vars, Import!server, Import!disk, Import!work
<1>. QED
  BY <1>1, <1>2, <1>3, <1>4, <1>5, <1>6, <1>7,
     <1>8, <1>9, <1>10, <1>11, <1>12, <1>13, <1>14
  DEF Import!Next

(* The id map stays within the rows, as a row is loaded from those to do.  *)
LEMMA ImportSetsTyped ==
    ASSUME ImportSets, Import!RowsHold, [Import!Next]_Import!vars
    PROVE  ImportSets'
<1>. USE DEF ImportSets, Import!server, Import!disk, Import!work
<1>1. ASSUME NEW S \in SUBSET ImportTarget, Import!ImportTargets(S) PROVE ImportSets'
  BY <1>1 DEF Import!ImportTargets
<1>2. ASSUME NEW o \in ImportOwner, Import!Correct(o) PROVE ImportSets'
  BY <1>2 DEF Import!Correct
<1>3. ASSUME NEW o \in ImportOwner, Import!LoadRow(o) PROVE ImportSets'
  <2>1. v15 \subseteq v13 /\ o \in v15
    BY <1>3 DEF Import!LoadRow, Import!RowsHold
  <2>2. v16' \subseteq v16 \cup {o} /\ v4' \subseteq v4 \cup {o} /\ v9' \subseteq v9 \cup {o}
    BY <1>3 DEF Import!LoadRow
  <2>3. UNCHANGED <<v1, v2, v3, v8, v10, v12, v13, v17, v18>> /\ v15' \subseteq v15
    BY <1>3 DEF Import!LoadRow
  <2>. QED
    BY <2>1, <2>2, <2>3
<1>4. ASSUME NEW options \in ImportOptions, Import!Start(options) PROVE ImportSets'
  BY <1>4 DEF Import!Start
<1>5. CASE Import!AbortLoad
  BY <1>5 DEF Import!AbortLoad, Import!Failed, Import!Fault
<1>6. CASE Import!LoadDone
  BY <1>6 DEF Import!LoadDone, Import!Pass2, Import!Failed, Import!PlainLines, Import!FailFile
<1>7. CASE Import!Resolve
  BY <1>7 DEF Import!Resolve, Import!Fault, Import!RelatedIds, Import!Found
<1>8. ASSUME NEW o \in ImportOwner, Import!WriteTuple(o) PROVE ImportSets'
  BY <1>8 DEF Import!WriteTuple, Import!Refused, Import!Fault
<1>9. CASE Import!TuplesDone
  BY <1>9 DEF Import!TuplesDone, Import!Found
<1>10. ASSUME NEW o \in ImportOwner, Import!WriteO2m(o) PROVE ImportSets'
  BY <1>10 DEF Import!WriteO2m, Import!Refused, Import!Fault
<1>11. CASE Import!LinesDone
  BY <1>11 DEF Import!LinesDone
<1>12. ASSUME NEW p \in Import!Pass, Import!UpdatePass(p) PROVE ImportSets'
  BY <1>12 DEF Import!UpdatePass, Import!Summary, Import!Fault
<1>13. CASE Import!Report
  BY <1>13 DEF Import!Report
<1>14. CASE UNCHANGED Import!vars
  BY <1>14 DEF Import!vars, Import!server, Import!disk, Import!work
<1>. QED
  BY <1>1, <1>2, <1>3, <1>4, <1>5, <1>6, <1>7,
     <1>8, <1>9, <1>10, <1>11, <1>12, <1>13, <1>14
  DEF Import!Next

(* Links, children and passes.                                             *)
LEMMA ImportMapsTyped ==
    ASSUME ImportSets, ImportMaps, ImportNumbers, Import!LinesHold, [Import!Next]_Import!vars
    PROVE  ImportMaps'
<1>. USE ImportConstants DEF ImportMaps, Import!server, Import!disk, Import!work
<1>1. ASSUME NEW S \in SUBSET ImportTarget, Import!ImportTargets(S) PROVE ImportMaps'
  BY <1>1 DEF Import!ImportTargets
<1>2. ASSUME NEW o \in ImportOwner, Import!Correct(o) PROVE ImportMaps'
  BY <1>2 DEF Import!Correct
<1>3. ASSUME NEW o \in ImportOwner, Import!LoadRow(o) PROVE ImportMaps'
  BY <1>3 DEF Import!LoadRow
<1>4. ASSUME NEW options \in ImportOptions, Import!Start(options) PROVE ImportMaps'
  BY <1>4 DEF Import!Start
<1>5. CASE Import!AbortLoad
  BY <1>5 DEF Import!AbortLoad, Import!Failed
<1>6. CASE Import!LoadDone
  BY <1>6 DEF Import!LoadDone, Import!Pass2, Import!Failed, Import!Resolved
<1>7. CASE Import!Resolve
  BY <1>7 DEF Import!Resolve
<1>8. ASSUME NEW o \in ImportOwner, Import!WriteTuple(o) PROVE ImportMaps'
  BY <1>8 DEF Import!WriteTuple, Import!Written
<1>9. CASE Import!TuplesDone
  BY <1>9 DEF Import!TuplesDone
<1>10. ASSUME NEW o \in ImportOwner, Import!WriteO2m(o) PROVE ImportMaps'
  <2>1. v6[o] \in 0 .. ImportRuns /\ v6[o] < v21 /\ v21 \in 0 .. ImportRuns
    BY <1>10 DEF Import!WriteO2m, Import!LinesHold, ImportNumbers
  <2>2. v6[o] + 1 \in 0 .. ImportRuns
    BY <2>1, ImportConstants
  <2>3. v6' = v6 \/ v6' = [v6 EXCEPT ![o] = v6[o] + 1]
    BY <1>10 DEF Import!WriteO2m
  <2>4. UNCHANGED <<v5, v7, v11>>
    BY <1>10 DEF Import!WriteO2m
  <2>. QED
    BY <2>2, <2>3, <2>4
<1>11. CASE Import!LinesDone
  BY <1>11 DEF Import!LinesDone
<1>12. ASSUME NEW p \in Import!Pass, Import!UpdatePass(p) PROVE ImportMaps'
  <2>1. Import!PassRows(p) \subseteq ImportOwner
    BY DEF Import!PassRows, Import!Found, ImportSets
  <2>2. UNCHANGED <<v5, v6>>
    BY <1>12 DEF Import!UpdatePass
  <2>3. v7' = v7 \/ \E some \in SUBSET Import!PassRows(p) : v7' = [v7 EXCEPT ![p] = v7[p] \cup some]
    BY <1>12 DEF Import!UpdatePass
  <2>4. v11' = v11 \/ \E some \in SUBSET Import!PassRows(p) : v11' = [v11 EXCEPT ![p] = some]
    BY <1>12 DEF Import!UpdatePass
  <2>. QED
    BY <2>1, <2>2, <2>3, <2>4
<1>13. CASE Import!Report
  BY <1>13 DEF Import!Report
<1>14. CASE UNCHANGED Import!vars
  BY <1>14 DEF Import!vars, Import!server, Import!disk, Import!work
<1>. QED
  BY <1>1, <1>2, <1>3, <1>4, <1>5, <1>6, <1>7,
     <1>8, <1>9, <1>10, <1>11, <1>12, <1>13, <1>14
  DEF Import!Next

(* No step loses a row of the run.                                         *)
LEMMA ImportRows ==
    ASSUME Import!TypeOK, Import!RowsHold, [Import!Next]_Import!vars
    PROVE  Import!RowsHold'
<1>. USE DEF Import!RowsHold, Import!Later, Import!server, Import!disk, Import!work
<1>1. ASSUME NEW S \in SUBSET ImportTarget, Import!ImportTargets(S) PROVE Import!RowsHold'
  BY <1>1 DEF Import!ImportTargets
<1>2. ASSUME NEW o \in ImportOwner, Import!Correct(o) PROVE Import!RowsHold'
  BY <1>2 DEF Import!Correct
<1>3. ASSUME NEW o \in ImportOwner, Import!LoadRow(o) PROVE Import!RowsHold'
  BY <1>3 DEF Import!LoadRow
<1>4. ASSUME NEW options \in ImportOptions, Import!Start(options) PROVE Import!RowsHold'
  BY <1>4, ImportRun DEF Import!Start
<1>5. CASE Import!AbortLoad
  BY <1>5 DEF Import!AbortLoad, Import!Failed
<1>6. CASE Import!LoadDone
  BY <1>6 DEF Import!LoadDone, Import!Pass2, Import!Failed, Import!FailFile
<1>7. CASE Import!Resolve
  BY <1>7 DEF Import!Resolve
<1>8. ASSUME NEW o \in ImportOwner, Import!WriteTuple(o) PROVE Import!RowsHold'
  BY <1>8 DEF Import!WriteTuple
<1>9. CASE Import!TuplesDone
  BY <1>9 DEF Import!TuplesDone
<1>10. ASSUME NEW o \in ImportOwner, Import!WriteO2m(o) PROVE Import!RowsHold'
  BY <1>10 DEF Import!WriteO2m
<1>11. CASE Import!LinesDone
  BY <1>11 DEF Import!LinesDone
<1>12. ASSUME NEW p \in Import!Pass, Import!UpdatePass(p) PROVE Import!RowsHold'
  BY <1>12 DEF Import!UpdatePass
<1>13. CASE Import!Report
  BY <1>13 DEF Import!Report
<1>14. CASE UNCHANGED Import!vars
  BY <1>14 DEF Import!vars, Import!server, Import!disk, Import!work
<1>. QED
  BY <1>1, <1>2, <1>3, <1>4, <1>5, <1>6, <1>7,
     <1>8, <1>9, <1>10, <1>11, <1>12, <1>13, <1>14
  DEF Import!Next

(* "complete" is said when everything is stored, and nothing is taken      *)
(* back.                                                                   *)
LEMMA ImportGreen ==
    ASSUME Import!TypeOK, Import!RowsHold, Import!LinesHold, Import!PassesHold, Import!GreenIsTrue, [Import!Next]_Import!vars
    PROVE  Import!GreenIsTrue'
<1>. USE DEF Import!GreenIsTrue, Import!Planned, Import!server, Import!disk, Import!work
<1>1. ASSUME NEW S \in SUBSET ImportTarget, Import!ImportTargets(S) PROVE Import!GreenIsTrue'
  BY <1>1 DEF Import!ImportTargets
<1>2. ASSUME NEW o \in ImportOwner, Import!Correct(o) PROVE Import!GreenIsTrue'
  BY <1>2 DEF Import!Correct
<1>3. ASSUME NEW o \in ImportOwner, Import!LoadRow(o) PROVE Import!GreenIsTrue'
  BY <1>3 DEF Import!LoadRow
<1>4. ASSUME NEW options \in ImportOptions, Import!Start(options) PROVE Import!GreenIsTrue'
  BY <1>4, ImportRun DEF Import!Start
<1>5. CASE Import!AbortLoad
  BY <1>5 DEF Import!AbortLoad, Import!Failed
<1>6. CASE Import!LoadDone
  BY <1>6 DEF Import!LoadDone, Import!Pass2, Import!Failed, Import!FailFile
<1>7. CASE Import!Resolve
  BY <1>7 DEF Import!Resolve
<1>8. ASSUME NEW o \in ImportOwner, Import!WriteTuple(o) PROVE Import!GreenIsTrue'
  BY <1>8 DEF Import!WriteTuple
<1>9. CASE Import!TuplesDone
  BY <1>9 DEF Import!TuplesDone
<1>10. ASSUME NEW o \in ImportOwner, Import!WriteO2m(o) PROVE Import!GreenIsTrue'
  BY <1>10 DEF Import!WriteO2m
<1>11. CASE Import!LinesDone
  BY <1>11 DEF Import!LinesDone
<1>12. ASSUME NEW p \in Import!Pass, Import!UpdatePass(p) PROVE Import!GreenIsTrue'
  BY <1>12 DEF Import!UpdatePass
<1>13. CASE Import!Report
  <2>. SUFFICES ASSUME v19' = "complete", v20 PROVE Import!GreenIsTrue'
    BY <1>13 DEF Import!Report
  <2>1. v9 = {} /\ v18 = {} /\ v14 = "passes" /\ v15 = {}
    BY <1>13 DEF Import!Report
  <2>2. v16 = v13
    BY <2>1, ImportTypes DEF Import!RowsHold, Import!Later, ImportSets
  <2>3. \A p \in Import!Pass : ImportQualified[p] \cap v13 \subseteq v7[p] \cup ImportSpaced
    BY <2>1, <2>2 DEF Import!PassesHold, Import!PassRows, Import!Found
  <2>4. Import!Planned => \A o \in (ImportHasLines \cap v13) \ ImportSpaced : v6[o] > 0
    BY <2>1, <2>2 DEF Import!LinesHold, Import!Found
  <2>. QED
    BY <1>13, <2>2, <2>3, <2>4 DEF Import!Report
<1>14. CASE UNCHANGED Import!vars
  BY <1>14 DEF Import!vars, Import!server, Import!disk, Import!work
<1>. QED
  BY <1>1, <1>2, <1>3, <1>4, <1>5, <1>6, <1>7,
     <1>8, <1>9, <1>10, <1>11, <1>12, <1>13, <1>14
  DEF Import!Next

(* Each step of the update passes.                                         *)
LEMMA ImportPasses ==
    ASSUME Import!TypeOK, Import!PassesHold, [Import!Next]_Import!vars
    PROVE  Import!PassesHold'
<1>. USE DEF Import!PassesHold, Import!PassRows, Import!Found, Import!server, Import!disk, Import!work
<1>1. ASSUME NEW S \in SUBSET ImportTarget, Import!ImportTargets(S) PROVE Import!PassesHold'
  BY <1>1 DEF Import!ImportTargets
<1>2. ASSUME NEW o \in ImportOwner, Import!Correct(o) PROVE Import!PassesHold'
  BY <1>2 DEF Import!Correct
<1>3. ASSUME NEW o \in ImportOwner, Import!LoadRow(o) PROVE Import!PassesHold'
  BY <1>3 DEF Import!LoadRow
<1>4. ASSUME NEW options \in ImportOptions, Import!Start(options) PROVE Import!PassesHold'
  BY <1>4, ImportRun DEF Import!Start
<1>5. CASE Import!AbortLoad
  BY <1>5 DEF Import!AbortLoad, Import!Failed
<1>6. CASE Import!LoadDone
  BY <1>6 DEF Import!LoadDone, Import!Pass2, Import!Failed, Import!FailFile
<1>7. CASE Import!Resolve
  BY <1>7 DEF Import!Resolve
<1>8. ASSUME NEW o \in ImportOwner, Import!WriteTuple(o) PROVE Import!PassesHold'
  BY <1>8 DEF Import!WriteTuple
<1>9. CASE Import!TuplesDone
  BY <1>9 DEF Import!TuplesDone
<1>10. ASSUME NEW o \in ImportOwner, Import!WriteO2m(o) PROVE Import!PassesHold'
  BY <1>10 DEF Import!WriteO2m
<1>11. CASE Import!LinesDone
  BY <1>11 DEF Import!LinesDone
<1>12. ASSUME NEW p \in Import!Pass, Import!UpdatePass(p) PROVE Import!PassesHold'
  <2>. SUFFICES ASSUME v20', NEW q \in Import!Pass, q \notin v15'
                PROVE  q \in v18' \/ Import!PassRows(q) \subseteq v7'[q]
    BY <1>12 DEF Import!UpdatePass
  <2>1. v20 /\ v14 = "passes" /\ v16' = v16 /\ v15' = v15 \ {p}
    BY <1>12 DEF Import!UpdatePass
  <2>2. v7 \in [Import!Pass -> SUBSET ImportOwner]
    BY ImportTypes DEF ImportMaps
  <2>3. CASE q # p
    <3>1. q \in v18 \/ Import!PassRows(q) \subseteq v7[q]
      BY <2>1, <2>3
    <3>2. v18 \subseteq v18' /\ v7'[q] = v7[q]
      BY <1>12, <2>2, <2>3 DEF Import!UpdatePass, Import!Summary
    <3>. QED
      BY <3>1, <3>2
  <2>4. CASE q = p
    BY <1>12, <2>1, <2>2, <2>4 DEF Import!UpdatePass, Import!Summary
  <2>. QED
    BY <2>3, <2>4
<1>13. CASE Import!Report
  BY <1>13 DEF Import!Report
<1>14. CASE UNCHANGED Import!vars
  BY <1>14 DEF Import!vars, Import!server, Import!disk, Import!work
<1>. QED
  BY <1>1, <1>2, <1>3, <1>4, <1>5, <1>6, <1>7,
     <1>8, <1>9, <1>10, <1>11, <1>12, <1>13, <1>14
  DEF Import!Next

(* A row is refused while its parent is stored, failed or not in the file. *)
LEMMA ImportReasons ==
    ASSUME Import!TypeOK, Import!RowsHold, Import!ReasonsHold, [Import!Next]_Import!vars
    PROVE  Import!ReasonsHold'
<1>. USE DEF Import!server, Import!disk, Import!work
<1>1. ASSUME NEW S \in SUBSET ImportTarget, Import!ImportTargets(S) PROVE Import!ReasonsHold'
  BY <1>1 DEF Import!ImportTargets, Import!ReasonsHold
<1>2. ASSUME NEW o \in ImportOwner, Import!Correct(o) PROVE Import!ReasonsHold'
  BY <1>2 DEF Import!Correct, Import!ReasonsHold
<1>3. ASSUME NEW o \in ImportOwner, Import!LoadRow(o) PROVE Import!ReasonsHold'
  <2>. SUFFICES ASSUME ImportWorker = 1, Import!Sorted, NEW q \in v9', Import!OneLevel(q)
                PROVE  Import!Excused(q)'
    BY <1>3 DEF Import!LoadRow, Import!ReasonsHold, Import!Sorted, Import!OneLevel
  <2>1. ImportFixed /\ v14 = "load" /\ o \in v15 /\ v9 \subseteq v9' /\ v4 \subseteq v4'
    BY <1>3 DEF Import!LoadRow, ImportFixed
  <2>2. Import!Excused(q) => Import!Excused(q)'
    BY <2>1, ImportStays DEF Import!Excused, ImportFixed
  <2>3. CASE q \in v9
    BY <2>1, <2>2, <2>3 DEF Import!ReasonsHold
  <2>4. CASE q \notin v9
    <3>1. q = o /\ ~Import!Accepted(o)
      BY <1>3, <2>4 DEF Import!LoadRow
    <3>2. SUFFICES ASSUME ~Import!Excused(o) PROVE FALSE
      BY <3>1, <2>2
    <3>3. v1[o] # 0 /\ v1[o] \notin v4 /\ v1[o] \in v13 /\ v1[o] \notin v9
      BY <3>1, <3>2 DEF Import!Accepted, Import!Excused
    <3>4. v1[v1[o]] = 0
      BY <3>1, <3>3 DEF Import!OneLevel
    <3>5. v1[o] \in v15
      BY <3>3, <2>1 DEF Import!RowsHold
    <3>6. v1[o] \in Nat /\ v1[o] > 0
      BY <3>3, ImportRun, ImportConstants
    <3>7. Import!Key(v1[o]) < Import!Key(o)
      BY <3>4, <3>6 DEF Import!Key
    <3>8. {r \in v15 : Import!Key(r) < Import!Key(o)} = {}
      <4>1. Import!Cardinality({r \in v15 : Import!Key(r) < Import!Key(o)}) < 1
        BY <1>3 DEF Import!LoadRow, Import!MayLoad, Import!Workers
      <4>2. IsFiniteSet({r \in v15 : Import!Key(r) < Import!Key(o)})
        <5>1. v15 \subseteq ImportOwner
          BY <2>1, ImportRun DEF Import!RowsHold
        <5>. QED
          BY <5>1, ImportAssumption, FS_Subset
      <4>3. Cardinality({r \in v15 : Import!Key(r) < Import!Key(o)}) \in Nat
        BY <4>2, FS_CardinalityType
      <4>4. Cardinality({r \in v15 : Import!Key(r) < Import!Key(o)}) = 0
        BY <4>1, <4>3, ImportCardinality
      <4>. QED
        BY <4>2, <4>4, FS_EmptySet
    <3>. QED
      BY <3>5, <3>7, <3>8
  <2>. QED
    BY <2>3, <2>4
<1>4. ASSUME NEW options \in ImportOptions, Import!Start(options) PROVE Import!ReasonsHold'
  BY <1>4, ImportRun DEF Import!Start, Import!ReasonsHold
<1>5. CASE Import!AbortLoad
  BY <1>5 DEF Import!AbortLoad, Import!Failed, Import!ReasonsHold
<1>6. CASE Import!LoadDone
  BY <1>6 DEF Import!LoadDone, Import!Pass2, Import!Failed, Import!ReasonsHold
<1>7. CASE Import!Resolve
  BY <1>7 DEF Import!Resolve, Import!ReasonsHold
<1>8. ASSUME NEW o \in ImportOwner, Import!WriteTuple(o) PROVE Import!ReasonsHold'
  BY <1>8 DEF Import!WriteTuple, Import!ReasonsHold
<1>9. CASE Import!TuplesDone
  BY <1>9 DEF Import!TuplesDone, Import!ReasonsHold
<1>10. ASSUME NEW o \in ImportOwner, Import!WriteO2m(o) PROVE Import!ReasonsHold'
  BY <1>10 DEF Import!WriteO2m, Import!ReasonsHold
<1>11. CASE Import!LinesDone
  BY <1>11 DEF Import!LinesDone, Import!ReasonsHold
<1>12. ASSUME NEW p \in Import!Pass, Import!UpdatePass(p) PROVE Import!ReasonsHold'
  BY <1>12 DEF Import!UpdatePass, Import!ReasonsHold
<1>13. CASE Import!Report
  BY <1>13 DEF Import!Report, Import!ReasonsHold
<1>14. CASE UNCHANGED Import!vars
  BY <1>14 DEF Import!vars, Import!ReasonsHold, Import!Sorted, Import!OneLevel, Import!Excused,
          Import!LinksDeferred, Import!LinesDeferred, Import!ParentDeferred, Import!Planned
<1>. QED
  BY <1>1, <1>2, <1>3, <1>4, <1>5, <1>6, <1>7,
     <1>8, <1>9, <1>10, <1>11, <1>12, <1>13, <1>14
  DEF Import!Next

(* What is counted of the children of a row, when the row's count stays or *)
(* goes up by one.                                                         *)
ImportCounted ==
    \A o \in ImportOwner :
        /\ v6[o] <= v21
        /\ v14 \in {"load", "resolve", "m2m"} \/ (v14 = "o2m" /\ o \in v15) => v6[o] < v21

(* Only WriteO2m counts, and takes the row from those to do.               *)
LEMMA ImportCounts ==
    ASSUME Import!TypeOK, ImportCounted, [Import!Next]_Import!vars
    PROVE  ImportCounted'
<1>. USE DEF ImportCounted, Import!server, Import!disk, Import!work
<1>1. ASSUME NEW S \in SUBSET ImportTarget, Import!ImportTargets(S) PROVE ImportCounted'
  BY <1>1 DEF Import!ImportTargets
<1>2. ASSUME NEW o \in ImportOwner, Import!Correct(o) PROVE ImportCounted'
  BY <1>2 DEF Import!Correct
<1>3. ASSUME NEW o \in ImportOwner, Import!LoadRow(o) PROVE ImportCounted'
  BY <1>3 DEF Import!LoadRow
<1>4. ASSUME NEW options \in ImportOptions, Import!Start(options) PROVE ImportCounted'
  <2>0. \A r \in ImportOwner : v6[r] \in Nat
    BY ImportTypes, ImportConstants DEF ImportMaps
  <2>1. v6' = v6 /\ v21' = v21 + 1 /\ \A r \in ImportOwner : v6[r] \in Nat /\ v6[r] <= v21
    BY <1>4, <2>0 DEF Import!Start
  <2>2. v21 \in Nat
    BY ImportTypes DEF ImportNumbers
  <2>3. \A m, n \in Nat : m <= n => m <= n + 1 /\ m < n + 1
    OBVIOUS
  <2>. QED
    BY <2>1, <2>2, <2>3
<1>5. CASE Import!AbortLoad
  BY <1>5 DEF Import!AbortLoad, Import!Failed
<1>6. CASE Import!LoadDone
  BY <1>6 DEF Import!LoadDone, Import!Pass2, Import!Failed
<1>7. CASE Import!Resolve
  BY <1>7 DEF Import!Resolve
<1>8. ASSUME NEW o \in ImportOwner, Import!WriteTuple(o) PROVE ImportCounted'
  BY <1>8 DEF Import!WriteTuple
<1>9. CASE Import!TuplesDone
  BY <1>9 DEF Import!TuplesDone
<1>10. ASSUME NEW o \in ImportOwner, Import!WriteO2m(o) PROVE ImportCounted'
  <2>1. v14 = "o2m" /\ v14' = v14 /\ v21' = v21 /\ o \in v15 /\ v15' = v15 \ {o}
    BY <1>10 DEF Import!WriteO2m
  <2>2. v6 \in [ImportOwner -> Nat] /\ v21 \in Nat
    BY ImportTypes DEF ImportNumbers, ImportMaps
  <2>3. v6' = v6 \/ v6' = [v6 EXCEPT ![o] = v6[o] + 1]
    BY <1>10 DEF Import!WriteO2m
  <2>4. v6[o] < v21
    BY <2>1
  <2>5. v6[o] + 1 <= v21
    BY <2>2, <2>4
  <2>6. \A r \in ImportOwner : v6'[r] <= v21 /\ (r # o => v6'[r] = v6[r])
    BY <2>2, <2>3, <2>5
  <2>. QED
    BY <2>1, <2>6
<1>11. CASE Import!LinesDone
  BY <1>11 DEF Import!LinesDone
<1>12. ASSUME NEW p \in Import!Pass, Import!UpdatePass(p) PROVE ImportCounted'
  BY <1>12 DEF Import!UpdatePass
<1>13. CASE Import!Report
  BY <1>13 DEF Import!Report
<1>14. CASE UNCHANGED Import!vars
  BY <1>14 DEF Import!vars, Import!server, Import!disk, Import!work
<1>. QED
  BY <1>1, <1>2, <1>3, <1>4, <1>5, <1>6, <1>7,
     <1>8, <1>9, <1>10, <1>11, <1>12, <1>13, <1>14
  DEF Import!Next

(* And what has been created of them.                                      *)
ImportWritten ==
    /\ v14 = "o2m" /\ v20 => \A o \in (Import!Found \cap ImportHasLines) \ v15 : v6[o] > 0
    /\ v14 = "passes" /\ v20 /\ Import!Planned =>
          \A o \in Import!Found \cap ImportHasLines : v6[o] > 0

(* Only WriteO2m creates children, and every row of the stage has its      *)
(* turn.                                                                   *)
LEMMA ImportChildren ==
    ASSUME Import!TypeOK, ImportWritten, [Import!Next]_Import!vars
    PROVE  ImportWritten'
<1>. USE DEF ImportWritten, Import!Found, Import!Planned, Import!server, Import!disk, Import!work
<1>1. ASSUME NEW S \in SUBSET ImportTarget, Import!ImportTargets(S) PROVE ImportWritten'
  BY <1>1 DEF Import!ImportTargets
<1>2. ASSUME NEW o \in ImportOwner, Import!Correct(o) PROVE ImportWritten'
  BY <1>2 DEF Import!Correct
<1>3. ASSUME NEW o \in ImportOwner, Import!LoadRow(o) PROVE ImportWritten'
  BY <1>3 DEF Import!LoadRow
<1>4. ASSUME NEW options \in ImportOptions, Import!Start(options) PROVE ImportWritten'
  BY <1>4, ImportRun DEF Import!Start
<1>5. CASE Import!AbortLoad
  BY <1>5 DEF Import!AbortLoad, Import!Failed
<1>6. CASE Import!LoadDone
  BY <1>6 DEF Import!LoadDone, Import!Pass2, Import!Failed
<1>7. CASE Import!Resolve
  BY <1>7 DEF Import!Resolve
<1>8. ASSUME NEW o \in ImportOwner, Import!WriteTuple(o) PROVE ImportWritten'
  BY <1>8 DEF Import!WriteTuple, Import!Refused
<1>9. CASE Import!TuplesDone
  BY <1>9 DEF Import!TuplesDone
<1>10. ASSUME NEW o \in ImportOwner, Import!WriteO2m(o) PROVE ImportWritten'
  <2>. SUFFICES ASSUME v20', NEW r \in (Import!Found \cap ImportHasLines) \ v15'
                PROVE  v6'[r] > 0
    BY <1>10 DEF Import!WriteO2m
  <2>1. /\ v14 = "o2m" /\ v14' = v14 /\ v15' = v15 \ {o} /\ v20
        /\ v6' = [v6 EXCEPT ![o] = v6[o] + 1]
    BY <1>10 DEF Import!WriteO2m, Import!Refused
  <2>2. v6 \in [ImportOwner -> Nat] /\ r \in ImportOwner
    BY ImportTypes, ImportRun DEF ImportMaps
  <2>3. CASE r = o
    BY <2>1, <2>2, <2>3
  <2>4. CASE r # o
    BY <2>1, <2>2, <2>4
  <2>. QED
    BY <2>3, <2>4
<1>11. CASE Import!LinesDone
  BY <1>11 DEF Import!LinesDone
<1>12. ASSUME NEW p \in Import!Pass, Import!UpdatePass(p) PROVE ImportWritten'
  BY <1>12 DEF Import!UpdatePass
<1>13. CASE Import!Report
  BY <1>13 DEF Import!Report
<1>14. CASE UNCHANGED Import!vars
  BY <1>14 DEF Import!vars, Import!server, Import!disk, Import!work
<1>. QED
  BY <1>1, <1>2, <1>3, <1>4, <1>5, <1>6, <1>7,
     <1>8, <1>9, <1>10, <1>11, <1>12, <1>13, <1>14
  DEF Import!Next

(* The two together are LinesHold.                                         *)
LEMMA ImportLines ==
    Import!LinesHold <=> ImportCounted /\ ImportWritten
BY DEF Import!LinesHold, ImportCounted, ImportWritten, Import!Found

(* The id map, the targets and their cache rest while links are written.   *)
LEMMA ImportLinks ==
    ASSUME Import!TypeOK, Import!LinksHold, [Import!Next]_Import!vars
    PROVE  Import!LinksHold'
<1>1. ASSUME NEW S \in SUBSET ImportTarget, Import!ImportTargets(S) PROVE Import!LinksHold'
  BY <1>1 DEF Import!ImportTargets, Import!work, Import!LinksHold, Import!Later
<1>2. ASSUME NEW o \in ImportOwner, Import!Correct(o) PROVE Import!LinksHold'
  BY <1>2 DEF Import!Correct, Import!work, Import!LinksHold, Import!Later
<1>3. ASSUME NEW o \in ImportOwner, Import!LoadRow(o) PROVE Import!LinksHold'
  <2>1. ImportFixed /\ v14 = "load" /\ v14' = "load" /\ v17' = v17
    BY <1>3 DEF Import!LoadRow, ImportFixed
  <2>2. SUFFICES ASSUME ~Import!LinksDeferred, NEW q \in v16'
                 PROVE  ImportAsked[q] \subseteq v3 /\ v5'[q] = ImportAsked[q]
    BY <2>1, ImportStays DEF Import!LinksHold, Import!Later, ImportFixed
  <2>3. q \in v16 => ImportAsked[q] \subseteq v3 /\ v5[q] = ImportAsked[q]
    BY <2>1, <2>2 DEF Import!LinksHold
  <2>4. CASE Import!Accepted(o)
    <3>1. ImportAsked[o] \subseteq v3
      BY <2>2, <2>4 DEF Import!Accepted
    <3>2. v16' = v16 \cup {o} /\ v5' = [v5 EXCEPT ![o] = ImportAsked[o]]
      BY <1>3, <2>2, <2>4 DEF Import!LoadRow
    <3>. QED
      BY <3>1, <3>2, <2>2, <2>3, ImportRun
  <2>5. CASE ~Import!Accepted(o)
    BY <1>3, <2>2, <2>3, <2>5 DEF Import!LoadRow
  <2>. QED
    BY <2>4, <2>5
<1>4. ASSUME NEW options \in ImportOptions, Import!Start(options) PROVE Import!LinksHold'
  BY <1>4 DEF Import!Start, Import!LinksHold, Import!Later
<1>5. CASE Import!AbortLoad
  BY <1>5 DEF Import!AbortLoad, Import!Failed, Import!LinksHold, Import!Later
<1>6. CASE Import!LoadDone
  <2>1. v14 = "load" /\ ImportFixed /\ v16' = v16 /\ v14' \in {"idle", "resolve"}
    BY <1>6 DEF Import!LoadDone, Import!Pass2, Import!Failed, ImportFixed
  <2>2. SUFFICES ASSUME v14' = "resolve", NEW o \in v16, Import!Resolved(o) # {}
                 PROVE  v5'[o] = Import!Resolved(o)
    BY <2>1, ImportStays, ImportRun DEF Import!LinksHold, Import!Later
  <2>3. Import!Pass2({})
    <3>1. PICK refused : Import!Pass2(refused)
      BY <1>6, <2>2 DEF Import!LoadDone, Import!Failed
    <3>2. refused = {}
      BY <3>1, <2>2 DEF Import!Pass2, Import!Failed
    <3>. QED
      BY <3>1, <3>2
  <2>4. o \in ImportOwner
    BY ImportRun
  <2>5. v5'[o] = IF Import!LinksDeferred /\ Import!Resolved(o) # {}
                 THEN Import!Resolved(o) ELSE v5[o]
    BY <2>3, <2>4 DEF Import!Pass2
  <2>6. ~Import!LinksDeferred => v5[o] = Import!Resolved(o)
    BY <2>1 DEF Import!LinksHold, Import!Resolved
  <2>. QED
    BY <2>2, <2>5, <2>6
<1>7. CASE Import!Resolve
  <2>1. ImportFixed /\ UNCHANGED <<v5, v16>>
    BY <1>7 DEF Import!Resolve, ImportFixed, Import!server, Import!disk, Import!work
  <2>2. v14 \in Import!Later /\ v14' \in Import!Later /\ (v14' = "m2m" => v17' = Import!RelatedIds)
    BY <1>7 DEF Import!Resolve, Import!Later, Import!LinksHold
  <2>. QED
    BY <2>1, <2>2, ImportStays, ImportRun
    DEF Import!LinksHold, Import!Later, ImportFixed
<1>8. ASSUME NEW o \in ImportOwner, Import!WriteTuple(o) PROVE Import!LinksHold'
  <2>1. ImportFixed /\ UNCHANGED <<v16, v17>> /\ v14 = "m2m" /\ v14' = "m2m"
    BY <1>8 DEF Import!WriteTuple, ImportFixed, Import!server, Import!disk, Import!work
  <2>2. v17 = Import!RelatedIds
    BY <2>1 DEF Import!LinksHold
  <2>3. SUFFICES ASSUME ~v12.add, v8 = Import!NoCache \/ v8 = v3, NEW q \in v16,
                        Import!Resolved(q) # {}
                 PROVE  v5'[q] = Import!Resolved(q)
    BY <2>1, <2>2, ImportStays, ImportRun DEF Import!LinksHold, Import!Later, ImportFixed
  <2>4. v5[q] = Import!Resolved(q)
    BY <2>1, <2>3 DEF Import!LinksHold, Import!Later
  <2>5. Import!Written(o) = Import!Resolved(o)
    BY <2>2, <2>3 DEF Import!Written, Import!Resolved, Import!RelatedIds
  <2>6. v5' = v5 \/ v5' = [v5 EXCEPT ![o] = Import!Resolved(o)]
    BY <1>8, <2>3, <2>5 DEF Import!WriteTuple
  <2>. QED
    BY <2>4, <2>6, ImportRun
<1>9. CASE Import!TuplesDone
  <2>1. ImportFixed /\ UNCHANGED <<v5, v16>>
    BY <1>9 DEF Import!TuplesDone, ImportFixed, Import!server, Import!disk, Import!work
  <2>2. v14 \in Import!Later /\ v14' \in Import!Later /\ (v14' = "m2m" => v17' = Import!RelatedIds)
    BY <1>9 DEF Import!TuplesDone, Import!Later, Import!LinksHold
  <2>. QED
    BY <2>1, <2>2, ImportStays, ImportRun
    DEF Import!LinksHold, Import!Later, ImportFixed
<1>10. ASSUME NEW o \in ImportOwner, Import!WriteO2m(o) PROVE Import!LinksHold'
  <2>1. ImportFixed /\ UNCHANGED <<v5, v16>>
    BY <1>10 DEF Import!WriteO2m, ImportFixed, Import!server, Import!disk, Import!work
  <2>2. v14 \in Import!Later /\ v14' \in Import!Later /\ (v14' = "m2m" => v17' = Import!RelatedIds)
    BY <1>10 DEF Import!WriteO2m, Import!Later, Import!LinksHold
  <2>. QED
    BY <2>1, <2>2, ImportStays, ImportRun
    DEF Import!LinksHold, Import!Later, ImportFixed
<1>11. CASE Import!LinesDone
  <2>1. ImportFixed /\ UNCHANGED <<v5, v16>>
    BY <1>11 DEF Import!LinesDone, ImportFixed, Import!server, Import!disk, Import!work
  <2>2. v14 \in Import!Later /\ v14' \in Import!Later /\ (v14' = "m2m" => v17' = Import!RelatedIds)
    BY <1>11 DEF Import!LinesDone, Import!Later, Import!LinksHold
  <2>. QED
    BY <2>1, <2>2, ImportStays, ImportRun
    DEF Import!LinksHold, Import!Later, ImportFixed
<1>12. ASSUME NEW p \in Import!Pass, Import!UpdatePass(p) PROVE Import!LinksHold'
  <2>1. ImportFixed /\ UNCHANGED <<v5, v16>>
    BY <1>12 DEF Import!UpdatePass, ImportFixed, Import!server, Import!disk, Import!work
  <2>2. v14 \in Import!Later /\ v14' \in Import!Later /\ (v14' = "m2m" => v17' = Import!RelatedIds)
    BY <1>12 DEF Import!UpdatePass, Import!Later, Import!LinksHold
  <2>. QED
    BY <2>1, <2>2, ImportStays, ImportRun
    DEF Import!LinksHold, Import!Later, ImportFixed
<1>13. CASE Import!Report
  BY <1>13 DEF Import!Report, Import!LinksHold, Import!Later
<1>14. CASE UNCHANGED Import!vars
  BY <1>14 DEF Import!vars, Import!server, Import!disk, Import!work, Import!LinksHold, Import!Later,
          Import!Sorted, Import!Planned, Import!LinksDeferred, Import!RelatedIds, Import!Resolved
<1>. QED
  BY <1>1, <1>2, <1>3, <1>4, <1>5, <1>6, <1>7,
     <1>8, <1>9, <1>10, <1>11, <1>12, <1>13, <1>14
  DEF Import!Next

(* CommandInv holds in the first state and is kept by every step.           *)
THEOREM RunsKeepTheirBooks == Import!Spec => []Import!CommandInv
<1>1. Import!Init => Import!CommandInv
  <2>. SUFFICES ASSUME Import!Init PROVE Import!CommandInv
    OBVIOUS
  <2>1. /\ v14 = "idle" /\ v16 = {} /\ v13 = {} /\ v15 = {} /\ v19 = "none" /\ v21 = 0
        /\ v6 = [o \in ImportOwner |-> 0]
    BY DEF Import!Init
  <2>2. ImportPlaces
    BY <2>1 DEF ImportPlaces
  <2>3. ImportNumbers
    BY ImportConstants DEF Import!Init, ImportNumbers
  <2>4. v20 \in BOOLEAN
    BY Zenon DEF Import!Init
  <2>5. ImportSets
    BY ImportConstants DEF Import!Init, ImportSets
  <2>6. ImportMaps
    BY ImportConstants DEF Import!Init, ImportMaps
  <2>7. Import!LinesHold
    BY <2>1, ImportLines DEF ImportCounted, ImportWritten
  <2>. QED
    BY <2>1, <2>2, <2>3, <2>4, <2>5, <2>6, <2>7, ImportTypes
    DEF Import!CommandInv, Import!RowsHold, Import!ReasonsHold, Import!LinksHold, Import!Later,
        Import!PassesHold, Import!GreenIsTrue
<1>2. Import!CommandInv /\ [Import!Next]_Import!vars => Import!CommandInv'
  <2>. SUFFICES ASSUME Import!CommandInv, [Import!Next]_Import!vars PROVE Import!CommandInv'
    OBVIOUS
  <2>1. /\ Import!TypeOK /\ Import!RowsHold /\ Import!ReasonsHold /\ Import!LinksHold
        /\ Import!LinesHold /\ Import!PassesHold /\ Import!GreenIsTrue
    BY DEF Import!CommandInv
  <2>2. ImportPlaces' /\ ImportNumbers' /\ ImportSets' /\ ImportMaps' /\ v20' \in BOOLEAN
    BY <2>1, ImportTypes, ImportPlacesTyped, ImportNumbersTyped, ImportSetsTyped,
       ImportMapsTyped, ImportQuietTyped
  <2>3. Import!TypeOK'
    BY <2>2, ImportConstants
    DEF Import!TypeOK, ImportPlaces, ImportNumbers, ImportSets, ImportMaps
  <2>4. ImportCounted' /\ ImportWritten'
    BY <2>1, ImportLines, ImportCounts, ImportChildren
  <2>5. Import!LinesHold'
    BY <2>4 DEF Import!LinesHold, ImportCounted, ImportWritten, Import!Found
  <2>. QED
    BY <2>1, <2>3, <2>5, ImportRows, ImportReasons, ImportLinks, ImportPasses, ImportGreen
    DEF Import!CommandInv
<1>. QED
  BY <1>1, <1>2, PTL DEF Import!Spec

(* The import command keeps what it says of a run: refused rows have their *)
(* reason, links are those asked for, and green means stored (importer.py, *)
(* relational_import.py).                                                  *)
THEOREM CommandsAreRight == Import!Spec => []CommandIsSound
<1>1. Import!CommandInv => Import!HierarchyLoads
  BY DEF Import!CommandInv, Import!ReasonsHold, Import!HierarchyLoads, Import!OneLevel
<1>2. Import!CommandInv => Import!LinksAsAsked
  BY DEF Import!CommandInv, Import!LinksHold, Import!LinksAsAsked, Import!Later
<1>3. Import!CommandInv => CommandIsSound
  BY <1>1, <1>2 DEF Import!CommandInv, Import!CommandIsSound, CommandIsSound
<1>. QED
  BY <1>3, RunsKeepTheirBooks, PTL

(***************************************************************************)
(* Preflight                                                               *)
(***************************************************************************)
(* What is used of the assumption, one by one.                             *)
LEMMA ChecksConstants ==
    /\ ChecksRuns \in Nat /\ ChecksChanges \in Nat /\ ChecksFaults \in Nat
    /\ ChecksOptions # {} /\ ChecksOptions \subseteq Checks!Option
    /\ ChecksSpoken \subseteq ChecksLang
    /\ Checks!Cardinality(ChecksCompany) \in Nat
    /\ \A S \in SUBSET ChecksCompany :
          Checks!Cardinality(S) \in Checks!Several .. Checks!Cardinality(ChecksCompany)
<1>1. \A S : Checks!Cardinality(S) = Cardinality(S)
  BY DEF Checks!Cardinality, Cardinality
<1>2. \A S \in SUBSET ChecksCompany :
          IsFiniteSet(S) /\ Cardinality(S) <= Cardinality(ChecksCompany)
  BY ChecksAssumption, FS_Subset
<1>3. \A S \in SUBSET ChecksCompany : Cardinality(S) \in Nat
  BY <1>2, FS_CardinalityType
<1>4. Cardinality(ChecksCompany) \in Nat
  BY <1>3
<1>5. \A m, n \in Nat : m <= n => m \in -1 .. n
  OBVIOUS
<1>6. \A S \in SUBSET ChecksCompany :
          Checks!Cardinality(S) \in Checks!Several .. Checks!Cardinality(ChecksCompany)
  BY <1>1, <1>2, <1>3, <1>4, <1>5 DEF Checks!Several
<1>. QED
  BY ChecksAssumption, <1>1, <1>4, <1>6 DEF Checks!Option

(* The checks and their places.                                            *)
LEMMA ChecksCount ==
    /\ \A k : k \in DOMAIN Checks!Checks <=> k \in 1 .. 11
    /\ Checks!Ready = 12 /\ Len(Checks!Checks) = 11
BY DEF Checks!Checks, Checks!Ready

(* The list of the checks, read off one by one.                            *)
LEMMA ChecksOrder ==
    /\ Checks!Checks[1] = "connection"
    /\ Checks!Checks[2] = "company context"
    /\ Checks!Checks[3] = "self reference"
    /\ Checks!Checks[4] = "language"
    /\ Checks!Checks[5] = "deferral"
    /\ Checks!Checks[6] = "collision"
    /\ Checks!Checks[7] = "reference"
    /\ Checks!Checks[8] = "structured"
    /\ Checks!Checks[9] = "translation"
    /\ Checks!Checks[10] = "company"
    /\ Checks!Checks[11] = "use"
BY DEF Checks!Checks

(* No two of them have one name.                                           *)
LEMMA ChecksNamed ==
    ASSUME NEW k \in DOMAIN Checks!Checks, NEW i \in DOMAIN Checks!Checks,
           Checks!Checks[k] = Checks!Checks[i]
    PROVE  k = i
<1>1. k \in 1 .. 11 /\ i \in 1 .. 11
  BY ChecksCount
<1>2. \A n \in 1 .. 11 :
          \/ n = 1 \/ n = 2 \/ n = 3 \/ n = 4 \/ n = 5 \/ n = 6
          \/ n = 7 \/ n = 8 \/ n = 9 \/ n = 10 \/ n = 11
  OBVIOUS
<1>. QED
  BY <1>1, <1>2, ChecksOrder

(* Where a run is, now and after a step, by the place of a check.          *)
LEMMA ChecksPlaces ==
    ASSUME NEW i \in DOMAIN Checks!Checks
    PROVE  /\ v7 \in Int => Checks!At(Checks!Checks[i]) <=> v7 = i
           /\ v7 \in Int => Checks!StoppedAt(Checks!Checks[i]) <=> v7 = -i
           /\ v7 \in Int => Checks!Until(Checks!Checks[i]) <=> v7 \in 1 .. i
           /\ v7 \in Int => Checks!Past(Checks!Checks[i]) <=> v7 > i
           /\ v7' \in Int => Checks!StoppedAt(Checks!Checks[i])' <=> v7' = -i
           /\ v7' \in Int => Checks!Until(Checks!Checks[i])' <=> v7' \in 1 .. i
           /\ v7' \in Int => Checks!Past(Checks!Checks[i])' <=> v7' > i
<1>1. \A k \in DOMAIN Checks!Checks : Checks!Checks[k] = Checks!Checks[i] => k = i
  BY ChecksNamed
<1>2. i \in Int
  BY ChecksCount
<1>. QED
  BY <1>1, <1>2 DEF Checks!At, Checks!StoppedAt, Checks!Until, Checks!Past

(* The same by name.                                                       *)
LEMMA ChecksAt ==
    ASSUME v7 \in Int
    PROVE  /\ Checks!At("connection") <=> v7 = 1
           /\ Checks!At("company context") <=> v7 = 2
           /\ Checks!At("self reference") <=> v7 = 3
           /\ Checks!At("language") <=> v7 = 4
           /\ Checks!At("deferral") <=> v7 = 5
           /\ Checks!At("collision") <=> v7 = 6
           /\ Checks!At("reference") <=> v7 = 7
           /\ Checks!At("structured") <=> v7 = 8
           /\ Checks!At("translation") <=> v7 = 9
           /\ Checks!At("company") <=> v7 = 10
           /\ Checks!At("use") <=> v7 = 11
           /\ v7 \in DOMAIN Checks!Checks <=> v7 \in 1 .. 11
<1>1. \A i \in 1 .. 11 : Checks!At(Checks!Checks[i]) <=> v7 = i
  BY ChecksPlaces, ChecksCount
<1>2. Checks!At("connection") <=> v7 = 1
  <2>1. Checks!At(Checks!Checks[1]) <=> v7 = 1
    BY <1>1
  <2>. QED
    BY <2>1, ChecksOrder
<1>3. Checks!At("company context") <=> v7 = 2
  <2>1. Checks!At(Checks!Checks[2]) <=> v7 = 2
    BY <1>1
  <2>. QED
    BY <2>1, ChecksOrder
<1>4. Checks!At("self reference") <=> v7 = 3
  <2>1. Checks!At(Checks!Checks[3]) <=> v7 = 3
    BY <1>1
  <2>. QED
    BY <2>1, ChecksOrder
<1>5. Checks!At("language") <=> v7 = 4
  <2>1. Checks!At(Checks!Checks[4]) <=> v7 = 4
    BY <1>1
  <2>. QED
    BY <2>1, ChecksOrder
<1>6. Checks!At("deferral") <=> v7 = 5
  <2>1. Checks!At(Checks!Checks[5]) <=> v7 = 5
    BY <1>1
  <2>. QED
    BY <2>1, ChecksOrder
<1>7. Checks!At("collision") <=> v7 = 6
  <2>1. Checks!At(Checks!Checks[6]) <=> v7 = 6
    BY <1>1
  <2>. QED
    BY <2>1, ChecksOrder
<1>8. Checks!At("reference") <=> v7 = 7
  <2>1. Checks!At(Checks!Checks[7]) <=> v7 = 7
    BY <1>1
  <2>. QED
    BY <2>1, ChecksOrder
<1>9. Checks!At("structured") <=> v7 = 8
  <2>1. Checks!At(Checks!Checks[8]) <=> v7 = 8
    BY <1>1
  <2>. QED
    BY <2>1, ChecksOrder
<1>10. Checks!At("translation") <=> v7 = 9
  <2>1. Checks!At(Checks!Checks[9]) <=> v7 = 9
    BY <1>1
  <2>. QED
    BY <2>1, ChecksOrder
<1>11. Checks!At("company") <=> v7 = 10
  <2>1. Checks!At(Checks!Checks[10]) <=> v7 = 10
    BY <1>1
  <2>. QED
    BY <2>1, ChecksOrder
<1>12. Checks!At("use") <=> v7 = 11
  <2>1. Checks!At(Checks!Checks[11]) <=> v7 = 11
    BY <1>1
  <2>. QED
    BY <2>1, ChecksOrder
<1>13. v7 \in DOMAIN Checks!Checks <=> v7 \in 1 .. 11
  BY ChecksCount
<1>. QED
  BY <1>2, <1>3, <1>4, <1>5, <1>6, <1>7, <1>8, <1>9, <1>10, <1>11, <1>12, <1>13

(* Where a run is, for the checks the invariant names.                     *)
LEMMA ChecksWhere ==
    ASSUME v7 \in Int
    PROVE  /\ Checks!StoppedAt("reference") <=> v7 = -7
           /\ Checks!Until("company context") <=> v7 \in 1 .. 2
           /\ Checks!Until("translation") <=> v7 \in 1 .. 9
           /\ Checks!Until("company") <=> v7 \in 1 .. 10
           /\ Checks!Until("reference") <=> v7 \in 1 .. 7
           /\ Checks!Past("company context") <=> v7 > 2
           /\ Checks!Past("translation") <=> v7 > 9
           /\ Checks!Past("company") <=> v7 > 10
<1>1. Checks!StoppedAt(Checks!Checks[7]) <=> v7 = -7
  BY ChecksPlaces, ChecksCount
<1>2. Checks!Until(Checks!Checks[2]) <=> v7 \in 1 .. 2
  BY ChecksPlaces, ChecksCount
<1>3. Checks!Until(Checks!Checks[9]) <=> v7 \in 1 .. 9
  BY ChecksPlaces, ChecksCount
<1>4. Checks!Until(Checks!Checks[10]) <=> v7 \in 1 .. 10
  BY ChecksPlaces, ChecksCount
<1>5. Checks!Until(Checks!Checks[7]) <=> v7 \in 1 .. 7
  BY ChecksPlaces, ChecksCount
<1>6. Checks!Past(Checks!Checks[2]) <=> v7 > 2
  BY ChecksPlaces, ChecksCount
<1>7. Checks!Past(Checks!Checks[9]) <=> v7 > 9
  BY ChecksPlaces, ChecksCount
<1>8. Checks!Past(Checks!Checks[10]) <=> v7 > 10
  BY ChecksPlaces, ChecksCount
<1>. QED
  BY <1>1, <1>2, <1>3, <1>4, <1>5, <1>6, <1>7, <1>8, ChecksOrder

(* And where a step leaves it.                                             *)
LEMMA ChecksWhereNext ==
    ASSUME v7' \in Int
    PROVE  /\ Checks!StoppedAt("reference")' <=> v7' = -7
           /\ Checks!Until("company context")' <=> v7' \in 1 .. 2
           /\ Checks!Until("translation")' <=> v7' \in 1 .. 9
           /\ Checks!Until("company")' <=> v7' \in 1 .. 10
           /\ Checks!Until("reference")' <=> v7' \in 1 .. 7
           /\ Checks!Past("company context")' <=> v7' > 2
           /\ Checks!Past("translation")' <=> v7' > 9
           /\ Checks!Past("company")' <=> v7' > 10
<1>1. Checks!StoppedAt(Checks!Checks[7])' <=> v7' = -7
  BY ChecksPlaces, ChecksCount
<1>2. Checks!Until(Checks!Checks[2])' <=> v7' \in 1 .. 2
  BY ChecksPlaces, ChecksCount
<1>3. Checks!Until(Checks!Checks[9])' <=> v7' \in 1 .. 9
  BY ChecksPlaces, ChecksCount
<1>4. Checks!Until(Checks!Checks[10])' <=> v7' \in 1 .. 10
  BY ChecksPlaces, ChecksCount
<1>5. Checks!Until(Checks!Checks[7])' <=> v7' \in 1 .. 7
  BY ChecksPlaces, ChecksCount
<1>6. Checks!Past(Checks!Checks[2])' <=> v7' > 2
  BY ChecksPlaces, ChecksCount
<1>7. Checks!Past(Checks!Checks[9])' <=> v7' > 9
  BY ChecksPlaces, ChecksCount
<1>8. Checks!Past(Checks!Checks[10])' <=> v7' > 10
  BY ChecksPlaces, ChecksCount
<1>. QED
  BY <1>1, <1>2, <1>3, <1>4, <1>5, <1>6, <1>7, <1>8, ChecksOrder

(* What the invariant says when its conjuncts are read one by one.         *)
LEMMA ChecksTypes ==
    ASSUME Checks!TypeOK
    PROVE  /\ v1 \in ChecksSchemas /\ v2 \subseteq ChecksLang
           /\ v3 \subseteq ChecksCompany /\ v4 \subseteq ChecksRef
           /\ v5 \in ChecksSchemas \cup {Checks!NoSchema} /\ v6 \in ChecksOptions
           /\ v7 \in -11 .. 12
           /\ v10.schemas \subseteq ChecksSchemas
           /\ v10.count \in Checks!Several .. Checks!Cardinality(ChecksCompany)
           /\ v11 \in 0 .. ChecksRuns /\ v12 \in 0 .. ChecksChanges
           /\ v13 \in 0 .. ChecksFaults
BY ChecksCount DEF Checks!TypeOK

(* The fields that a check reads are some the model has had.               *)
LEMMA ChecksFields ==
    ASSUME Checks!TypeOK
    PROVE  /\ Checks!Fields \in ChecksSchemas
           /\ Checks!Renewed \in ChecksSchemas \cup {Checks!NoSchema}
BY ChecksTypes DEF Checks!Fields, Checks!Renewed, Checks!Cached

(* The records of a run have the same fields always.                       *)
LEMMA ChecksRecords ==
    ASSUME Checks!TypeOK
    PROVE  /\ DOMAIN v8 = {"sort", "deferred", "strategies", "required", "grouped", "lang",
                           "company"}
           /\ DOMAIN v9 = {"ignored", "deferred", "grouped"}
           /\ DOMAIN v10 = {"schemas", "guard", "count", "answer", "smooth"}
<1>1. DOMAIN v8 = DOMAIN Checks!NoPlan /\ DOMAIN v9 = DOMAIN Checks!NoBase
      /\ DOMAIN v10 = DOMAIN Checks!Unseen
  BY DEF Checks!TypeOK
<1>2. DOMAIN Checks!NoPlan = {"sort", "deferred", "strategies", "required", "grouped", "lang",
                           "company"}
  BY DEF Checks!NoPlan
<1>3. DOMAIN Checks!NoBase = {"ignored", "deferred", "grouped"}
  BY DEF Checks!NoBase
<1>4. DOMAIN Checks!Unseen = {"schemas", "guard", "count", "answer", "smooth"}
  BY DEF Checks!Unseen
<1>. QED
  BY <1>1, <1>2, <1>3, <1>4

(* What a check that reads the fields of the model leaves in seen.         *)
LEMMA ChecksSeen ==
    ASSUME Checks!TypeOK
    PROVE  /\ Checks!SeenFields.schemas = v10.schemas \cup {Checks!Fields}
           /\ Checks!SeenFields.guard = v10.guard /\ Checks!SeenFields.count = v10.count
           /\ Checks!SeenFields.answer = v10.answer
           /\ Checks!SeenFields.smooth = v10.smooth
           /\ DOMAIN Checks!SeenFields = DOMAIN v10
BY ChecksRecords DEF Checks!SeenFields

(* What may be read, noted and lost on the way.                            *)
ChecksNote ==
    /\ v5' \in ChecksSchemas \cup {Checks!NoSchema}
    /\ DOMAIN v10' = DOMAIN v10 /\ v10.schemas \subseteq v10'.schemas
    /\ v10'.schemas \subseteq v10.schemas \cup {Checks!Fields}
    /\ v10'.guard = v10.guard /\ v10'.count = v10.count /\ v10'.answer = v10.answer
    /\ v13' \in 0 .. ChecksFaults

(* A failure is counted and noted and changes nothing else that is seen.   *)
LEMMA ChecksFault ==
    ASSUME Checks!TypeOK, Checks!Fault, v5' = v5
    PROVE  ChecksNote /\ ~v10'.smooth
<1>1. v13' \in 0 .. ChecksFaults
  <2>1. v13 < ChecksFaults /\ v13' = v13 + 1
    BY DEF Checks!Fault
  <2>. QED
    BY <2>1, ChecksTypes, ChecksConstants
<1>2. v10' = [v10 EXCEPT !.smooth = FALSE]
  BY DEF Checks!Fault
<1>. QED
  BY <1>1, <1>2, ChecksTypes, ChecksRecords DEF ChecksNote

(* A check that reads the fields has seen them.                            *)
LEMMA ChecksRead ==
    ASSUME Checks!TypeOK, Checks!Read
    PROVE  ChecksNote /\ Checks!Fields \in v10'.schemas /\ (v10'.smooth <=> v10.smooth)
BY ChecksTypes, ChecksFields, ChecksSeen DEF Checks!Read, ChecksNote

(* One that fails after reading them has, too, and is not smooth.          *)
LEMMA ChecksReadAndFault ==
    ASSUME Checks!TypeOK, Checks!ReadAndFault
    PROVE  ChecksNote /\ ~v10'.smooth
<1>1. v13' \in 0 .. ChecksFaults
  <2>1. v13 < ChecksFaults /\ v13' = v13 + 1
    BY DEF Checks!ReadAndFault
  <2>. QED
    BY <2>1, ChecksTypes, ChecksConstants
<1>2. v10' = [Checks!SeenFields EXCEPT !.smooth = FALSE] /\ v5' = Checks!Renewed
  BY DEF Checks!ReadAndFault
<1>. QED
  BY <1>1, <1>2, ChecksTypes, ChecksRecords, ChecksFields, ChecksSeen DEF ChecksNote
(* What every check does to the rest.                                      *)
ChecksFrame ==
    /\ v7 \in 1 .. 10 /\ v7' \in {v7 + 1, -v7}
    /\ UNCHANGED <<v1, v3, v4, v6, v9, v11, v12>>
    /\ v2 \subseteq v2' /\ v2' \subseteq ChecksLang
    /\ v5' \in ChecksSchemas \cup {Checks!NoSchema}
    /\ DOMAIN v8' = DOMAIN v8
    /\ DOMAIN v10' = DOMAIN v10 /\ v10.schemas \subseteq v10'.schemas
    /\ v10'.schemas \subseteq v10.schemas \cup {Checks!Fields}
    /\ v10'.smooth => v10.smooth
    /\ v13' \in 0 .. ChecksFaults

(* Where a check may lead.                                                 *)
LEMMA ChecksNext ==
    ASSUME ChecksFrame
    PROVE  /\ v7 \in Int /\ v7' \in Int /\ v7' \in -11 .. 12 /\ v7' # 12
           /\ \A n \in 2 .. 10 : v7' \in 1 .. n => v7 \in 1 .. n
           /\ \A n \in 2 .. 10 : v7 # n /\ v7' > n => v7 > n
           /\ \A n \in 2 .. 10 : v7 # n => v7' # -n
BY DEF ChecksFrame

(* The types, when the plan is still of columns.                           *)
LEMMA ChecksKeepTypes ==
    ASSUME Checks!TypeOK, ChecksFrame,
           \A f \in DOMAIN v8 \ {"sort"} : v8'[f] \subseteq ChecksColumn,
           v10'.count \in Checks!Several .. Checks!Cardinality(ChecksCompany)
    PROVE  Checks!TypeOK'
<1>1. /\ v1' \in ChecksSchemas /\ v2' \subseteq ChecksLang
      /\ v3' \subseteq ChecksCompany /\ v4' \subseteq ChecksRef
      /\ v5' \in ChecksSchemas \cup {Checks!NoSchema} /\ v6' \in ChecksOptions
      /\ v11' \in 0 .. ChecksRuns /\ v12' \in 0 .. ChecksChanges /\ v13' \in 0 .. ChecksFaults
  BY ChecksTypes DEF ChecksFrame
<1>2. v7' \in -11 .. 12
  BY ChecksNext
<1>3. /\ DOMAIN v8' = DOMAIN Checks!NoPlan /\ DOMAIN v9' = DOMAIN Checks!NoBase
      /\ DOMAIN v10' = DOMAIN Checks!Unseen
  BY DEF ChecksFrame, Checks!TypeOK
<1>4. \A f \in DOMAIN v9' : v9'[f] \subseteq ChecksColumn
  BY DEF ChecksFrame, Checks!TypeOK
<1>5. v10'.schemas \subseteq ChecksSchemas
  BY ChecksTypes, ChecksFields DEF ChecksFrame
<1>6. ChecksOptions \subseteq Checks!Option
  BY ChecksConstants
<1>7. \A f \in DOMAIN v8' \ {"sort"} : v8'[f] \subseteq ChecksColumn
  BY DEF ChecksFrame
<1>. QED
  BY <1>1, <1>2, <1>3, <1>4, <1>5, <1>6, <1>7, ChecksCount DEF Checks!TypeOK

(* The plan, when a check leaves these parts alone.                        *)
LEMMA ChecksKeepPlan ==
    ASSUME Checks!PlanHolds, ChecksFrame,
           v8'.lang = v8.lang, v8'.company = v8.company,
           v8'.strategies = v8.strategies, v8'.deferred = v8.deferred
    PROVE  Checks!PlanHolds'
<1>1. /\ Checks!Until("translation")' => Checks!Until("translation")
      /\ Checks!Until("company")' => Checks!Until("company")
  <2>1. (v7' \in 1 .. 9 => v7 \in 1 .. 9) /\ (v7' \in 1 .. 10 => v7 \in 1 .. 10)
    BY ChecksNext
  <2>. QED
    BY <2>1, ChecksNext, ChecksWhere, ChecksWhereNext
<1>. QED
  BY <1>1 DEF Checks!PlanHolds

(* The company guard, after any check but its own.                         *)
LEMMA ChecksKeepGuard ==
    ASSUME Checks!GuardHolds, ChecksFrame, v7 # 2,
           v10'.guard = v10.guard, v10'.count = v10.count
    PROVE  Checks!GuardHolds'
<1>1. /\ Checks!Past("company context")' => Checks!Past("company context")
      /\ Checks!Until("company context")' => Checks!Until("company context")
  <2>1. (v7' > 2 => v7 > 2) /\ (v7' \in 1 .. 2 => v7 \in 1 .. 2)
    BY ChecksNext
  <2>. QED
    BY <2>1, ChecksNext, ChecksWhere, ChecksWhereNext
<1>2. v6' = v6
  BY DEF ChecksFrame
<1>. QED
  BY <1>1, <1>2 DEF Checks!GuardHolds, Checks!CompanyAware

(* The division of the columns, after any check but the two that make it.  *)
LEMMA ChecksKeepColumns ==
    ASSUME Checks!ColumnsHold, ChecksFrame, v7 # 9, v7 # 10,
           v8'.lang = v8.lang, v8'.company = v8.company
    PROVE  Checks!ColumnsHold'
<1>1. /\ Checks!Past("translation")' => Checks!Past("translation")
      /\ Checks!Past("company")' => Checks!Past("company")
  <2>1. (v7' > 9 => v7 > 9) /\ (v7' > 10 => v7 > 10)
    BY ChecksNext
  <2>. QED
    BY <2>1, ChecksNext, ChecksWhere, ChecksWhereNext
<1>2. v3' = v3 /\ v2 \subseteq v2' /\ v10.schemas \subseteq v10'.schemas
      /\ (v10'.smooth => v10.smooth)
  BY DEF ChecksFrame
<1>. QED
  BY <1>1, <1>2 DEF Checks!ColumnsHold, Checks!ForLang, Checks!ForCompany, Checks!AtColumns

(* The answer about references, after any check but that for them.         *)
LEMMA ChecksKeepAnswer ==
    ASSUME Checks!AnswerHolds, ChecksFrame, v7 # 7, v10'.answer = v10.answer
    PROVE  Checks!AnswerHolds'
<1>1. /\ Checks!Until("reference")' => Checks!Until("reference")
      /\ ~Checks!StoppedAt("reference")'
  <2>1. (v7' \in 1 .. 7 => v7 \in 1 .. 7) /\ v7' # -7
    BY ChecksNext
  <2>. QED
    BY <2>1, ChecksNext, ChecksWhere, ChecksWhereNext
<1>. QED
  BY <1>1 DEF Checks!AnswerHolds, Checks!UnknownIsNotMissing

(* No check but the last step makes the run ready.                         *)
LEMMA ChecksKeepBase ==
    ASSUME ChecksFrame
    PROVE  Checks!BaseHolds'
BY ChecksNext, ChecksCount DEF Checks!BaseHolds
(* A check that notes nothing but that it has read or failed.              *)
LEMMA ChecksQuiet ==
    ASSUME Checks!CheckInv, ChecksFrame, v7 \notin {2, 7, 9, 10},
           \A f \in DOMAIN v8 \ {"sort"} : v8'[f] = v8[f],
           v10'.guard = v10.guard, v10'.count = v10.count, v10'.answer = v10.answer
    PROVE  Checks!CheckInv'
<1>1. /\ Checks!TypeOK /\ Checks!PlanHolds /\ Checks!GuardHolds /\ Checks!ColumnsHold
      /\ Checks!AnswerHolds /\ Checks!BaseHolds
  BY DEF Checks!CheckInv
<1>2. /\ v8'.lang = v8.lang /\ v8'.company = v8.company
      /\ v8'.strategies = v8.strategies /\ v8'.deferred = v8.deferred
  BY <1>1, ChecksRecords
<1>3. \A f \in DOMAIN v8 \ {"sort"} : v8'[f] \subseteq ChecksColumn
  BY <1>1 DEF Checks!TypeOK
<1>4. v10'.count \in Checks!Several .. Checks!Cardinality(ChecksCompany)
  BY <1>1, ChecksTypes
<1>. QED
  BY <1>1, <1>2, <1>3, <1>4, ChecksKeepTypes, ChecksKeepPlan, ChecksKeepGuard,
     ChecksKeepColumns, ChecksKeepAnswer, ChecksKeepBase DEF Checks!CheckInv

(* The first check only asks the server for an answer.                     *)
LEMMA ChecksConnection ==
    ASSUME Checks!CheckInv, Checks!Connection
    PROVE  Checks!CheckInv'
<1>1. Checks!TypeOK
  BY DEF Checks!CheckInv
<1>2. v7 = 1
  <2>1. v7 \in Int
    BY <1>1, ChecksTypes
  <2>2. Checks!At("connection")
    BY DEF Checks!Connection
  <2>. QED
    BY <2>1, <2>2, ChecksAt
<1>3. v7' \in {v7 + 1, -v7} /\ v8' = v8
  BY DEF Checks!Connection, Checks!Pass, Checks!Continue, Checks!Stop
<1>4. UNCHANGED <<v1, v2, v3, v4, v5, v6, v9, v11, v12>>
  BY DEF Checks!Connection, Checks!server, Checks!rest
<1>5. /\ ChecksNote /\ (v10'.smooth => v10.smooth)
  <2>1. CASE UNCHANGED <<v10, v13>>
    BY <1>1, <1>4, <2>1, ChecksTypes DEF ChecksNote
  <2>2. CASE Checks!Fault
    BY <1>1, <1>4, <2>2, ChecksFault
  <2>. QED
    BY <2>1, <2>2 DEF Checks!Connection
<1>6. ChecksFrame
  BY <1>1, <1>2, <1>3, <1>4, <1>5, ChecksTypes DEF ChecksFrame, ChecksNote
<1>. QED
  BY <1>2, <1>3, <1>5, <1>6, ChecksQuiet DEF ChecksNote

(* The check for hierarchies sets the sort and nothing else of the plan.   *)
LEMMA ChecksSelfReference ==
    ASSUME Checks!CheckInv, Checks!SelfReference
    PROVE  Checks!CheckInv'
<1>1. Checks!TypeOK
  BY DEF Checks!CheckInv
<1>2. v7 = 3
  <2>1. v7 \in Int
    BY <1>1, ChecksTypes
  <2>2. Checks!At("self reference")
    BY DEF Checks!SelfReference
  <2>. QED
    BY <2>1, <2>2, ChecksAt
<1>3. /\ v7' \in {v7 + 1, -v7}
      /\ v8' = v8 \/ v8' = [v8 EXCEPT !.sort = ChecksHierarchy]
  BY DEF Checks!SelfReference, Checks!Continue, Checks!Stop
<1>4. UNCHANGED <<v1, v2, v3, v4, v5, v6, v9, v11, v12>>
  BY DEF Checks!SelfReference, Checks!server, Checks!rest
<1>5. /\ ChecksNote /\ (v10'.smooth => v10.smooth)
  <2>1. CASE UNCHANGED <<v10, v13>>
    BY <1>1, <1>4, <2>1, ChecksTypes DEF ChecksNote
  <2>2. CASE Checks!Fault
    BY <1>1, <1>4, <2>2, ChecksFault
  <2>. QED
    BY <2>1, <2>2 DEF Checks!SelfReference
<1>6. DOMAIN v8' = DOMAIN v8 /\ \A f \in DOMAIN v8 \ {"sort"} : v8'[f] = v8[f]
  BY <1>3
<1>7. ChecksFrame
  BY <1>1, <1>2, <1>3, <1>4, <1>5, <1>6, ChecksTypes DEF ChecksFrame, ChecksNote
<1>. QED
  BY <1>2, <1>5, <1>6, <1>7, ChecksQuiet DEF ChecksNote

(* Languages are only ever added.                                          *)
LEMMA ChecksLanguage ==
    ASSUME Checks!CheckInv, Checks!Language
    PROVE  Checks!CheckInv'
<1>1. Checks!TypeOK
  BY DEF Checks!CheckInv
<1>2. v7 = 4
  <2>1. v7 \in Int
    BY <1>1, ChecksTypes
  <2>2. Checks!At("language")
    BY DEF Checks!Language
  <2>. QED
    BY <2>1, <2>2, ChecksAt
<1>3. v7' \in {v7 + 1, -v7} /\ v8' = v8
  BY DEF Checks!Language, Checks!Pass, Checks!Continue, Checks!Stop
<1>4. UNCHANGED <<v1, v3, v4, v5, v6, v9, v11, v12>>
  BY DEF Checks!Language, Checks!rest
<1>5. v2 \subseteq v2' /\ v2' \subseteq ChecksLang
  <2>1. v2' = v2 \/ \E some \in SUBSET ChecksSpoken : v2' = v2 \cup some
    BY DEF Checks!Language
  <2>. QED
    BY <1>1, <2>1, ChecksTypes, ChecksConstants
<1>6. /\ ChecksNote /\ (v10'.smooth => v10.smooth)
  <2>1. CASE UNCHANGED <<v10, v13>>
    BY <1>1, <1>4, <2>1, ChecksTypes DEF ChecksNote
  <2>2. CASE Checks!Fault
    BY <1>1, <1>4, <2>2, ChecksFault
  <2>. QED
    BY <2>1, <2>2 DEF Checks!Language
<1>7. ChecksFrame
  BY <1>1, <1>2, <1>3, <1>4, <1>5, <1>6, ChecksTypes DEF ChecksFrame, ChecksNote
<1>. QED
  BY <1>2, <1>3, <1>6, <1>7, ChecksQuiet DEF ChecksNote

(* Ids that collide stop the run or do not matter.                         *)
LEMMA ChecksCollision ==
    ASSUME Checks!CheckInv, Checks!Collision
    PROVE  Checks!CheckInv'
<1>1. Checks!TypeOK
  BY DEF Checks!CheckInv
<1>2. v7 = 6
  <2>1. v7 \in Int
    BY <1>1, ChecksTypes
  <2>2. Checks!At("collision")
    BY DEF Checks!Collision
  <2>. QED
    BY <2>1, <2>2, ChecksAt
<1>3. v7' \in {v7 + 1, -v7} /\ v8' = v8
  BY DEF Checks!Collision, Checks!Pass, Checks!Continue, Checks!Stop
<1>4. UNCHANGED <<v1, v2, v3, v4, v5, v6, v9, v10, v11, v12, v13>>
  BY DEF Checks!Collision, Checks!server, Checks!rest
<1>5. ChecksFrame
  BY <1>1, <1>2, <1>3, <1>4, ChecksTypes DEF ChecksFrame
<1>. QED
  BY <1>2, <1>3, <1>4, <1>5, ChecksQuiet

(* The check of the cells reads the fields and plans nothing.              *)
LEMMA ChecksCells ==
    ASSUME Checks!CheckInv, Checks!StructuredValue
    PROVE  Checks!CheckInv'
<1>1. Checks!TypeOK
  BY DEF Checks!CheckInv
<1>2. v7 = 8
  <2>1. v7 \in Int
    BY <1>1, ChecksTypes
  <2>2. Checks!At("structured")
    BY DEF Checks!StructuredValue
  <2>. QED
    BY <2>1, <2>2, ChecksAt
<1>3. v7' \in {v7 + 1, -v7} /\ v8' = v8
  BY DEF Checks!StructuredValue, Checks!Pass, Checks!Continue, Checks!Stop
<1>4. UNCHANGED <<v1, v2, v3, v4, v6, v9, v11, v12>>
  BY DEF Checks!StructuredValue, Checks!server, Checks!rest
<1>5. /\ ChecksNote /\ (v10'.smooth => v10.smooth)
  <2>1. CASE Checks!Read
    BY <1>1, <2>1, ChecksRead
  <2>2. CASE Checks!Unread
    BY <1>1, <2>2, ChecksFault DEF Checks!Unread
  <2>. QED
    BY <2>1, <2>2 DEF Checks!StructuredValue
<1>6. ChecksFrame
  BY <1>1, <1>2, <1>3, <1>4, <1>5, ChecksTypes DEF ChecksFrame, ChecksNote
<1>. QED
  BY <1>2, <1>3, <1>5, <1>6, ChecksQuiet DEF ChecksNote
(* The guard notes what it has read, and goes on only if it may.           *)
ChecksGuarded ==
    /\ v5' \in ChecksSchemas \cup {Checks!NoSchema}
    /\ DOMAIN v10' = DOMAIN v10 /\ v10.schemas \subseteq v10'.schemas
    /\ v10'.schemas \subseteq v10.schemas \cup {Checks!Fields}
    /\ v10'.smooth => v10.smooth
    /\ v13' \in 0 .. ChecksFaults
    /\ v10'.answer = v10.answer
    /\ v10'.count \in Checks!Several .. Checks!Cardinality(ChecksCompany)
    /\ v7' = 3 /\ v10'.guard # Checks!NoSchema /\ Checks!CompanyAware(v10'.guard) =>
          v6.chosen \/ v6.default \/ v10'.count \in {0, 1}

(* The guard stops a run that would choose a company in silence.           *)
LEMMA ChecksCompanyContext ==
    ASSUME Checks!CheckInv, Checks!CompanyContext
    PROVE  Checks!CheckInv'
<1>1. /\ Checks!TypeOK /\ Checks!PlanHolds /\ Checks!GuardHolds /\ Checks!ColumnsHold
      /\ Checks!AnswerHolds
  BY DEF Checks!CheckInv
<1>2. v7 = 2
  <2>1. v7 \in Int
    BY <1>1, ChecksTypes
  <2>2. Checks!At("company context")
    BY DEF Checks!CompanyContext
  <2>. QED
    BY <2>1, <2>2, ChecksAt
<1>3. v7' \in {v7 + 1, -v7} /\ v8' = v8
  BY DEF Checks!CompanyContext, Checks!Pass, Checks!Continue, Checks!Stop
<1>4. UNCHANGED <<v1, v2, v3, v4, v6, v9, v11, v12>>
  BY DEF Checks!CompanyContext, Checks!server, Checks!rest
<1>5. v10.guard = Checks!NoSchema
  <2>1. Checks!Until("company context")
    <3>1. v7 \in Int /\ v7 \in 1 .. 2
      BY <1>2
    <3>. QED
      BY <3>1, ChecksWhere
  <2>. QED
    BY <1>1, <2>1 DEF Checks!GuardHolds
<1>6. ChecksGuarded
  <2>1. CASE Checks!Unread
    BY <1>1, <1>5, <2>1, ChecksFault, ChecksTypes DEF Checks!Unread, ChecksNote, ChecksGuarded
  <2>2. CASE /\ ~Checks!CompanyAware(Checks!Fields) \/ v6.chosen
             /\ v5' = Checks!Renewed
             /\ v10' = [Checks!SeenFields EXCEPT !.guard = Checks!Fields]
             /\ v13' = v13
    <3>1. /\ DOMAIN v10' = DOMAIN v10 /\ v10'.schemas = v10.schemas \cup {Checks!Fields}
          /\ v10'.answer = v10.answer /\ v10'.count = v10.count
          /\ v10'.guard = Checks!Fields /\ (v10'.smooth <=> v10.smooth)
      BY <1>1, <2>2, ChecksSeen, ChecksRecords
    <3>. QED
      BY <1>1, <2>2, <3>1, ChecksTypes, ChecksFields DEF ChecksGuarded
  <2>3. ASSUME NEW n \in {Checks!Several, Checks!Cardinality(v3)},
               v5' = Checks!Renewed,
               v10' = [Checks!SeenFields EXCEPT !.guard = Checks!Fields, !.count = n,
                                                !.smooth = @ /\ n # Checks!Several],
               IF n = Checks!Several THEN v13 < ChecksFaults /\ v13' = v13 + 1
                                     ELSE v13' = v13,
               IF Checks!Risky(n) THEN Checks!Stop ELSE Checks!Pass
        PROVE  ChecksGuarded
    <3>1. /\ DOMAIN v10' = DOMAIN v10 /\ v10'.schemas = v10.schemas \cup {Checks!Fields}
          /\ v10'.answer = v10.answer /\ v10'.count = n
          /\ v10'.guard = Checks!Fields /\ (v10'.smooth => v10.smooth)
      BY <1>1, <2>3, ChecksSeen, ChecksRecords
    <3>2. v13' \in 0 .. ChecksFaults
      <4>1. v13' = v13 \/ (v13 < ChecksFaults /\ v13' = v13 + 1)
        BY <2>3
      <4>. QED
        BY <1>1, <4>1, ChecksTypes, ChecksConstants
    <3>3. n \in Checks!Several .. Checks!Cardinality(ChecksCompany)
      BY <1>1, ChecksTypes, ChecksConstants DEF Checks!Several
    <3>4. v7' = 3 => ~Checks!Risky(n)
      BY <1>2, <2>3 DEF Checks!Stop
    <3>5. ~Checks!Risky(n) => n \in {0, 1} \/ v6.default
      BY DEF Checks!Risky
    <3>. QED
      BY <1>1, <2>3, <3>1, <3>2, <3>3, <3>4, <3>5, ChecksTypes, ChecksFields DEF ChecksGuarded
  <2>. QED
    BY <2>1, <2>2, <2>3 DEF Checks!CompanyContext
<1>7. ChecksFrame
  BY <1>1, <1>2, <1>3, <1>4, <1>6, ChecksTypes DEF ChecksFrame, ChecksGuarded
<1>8. Checks!GuardHolds'
  <2>1. ~Checks!Until("company context")' /\ (Checks!Past("company context")' => v7' = 3)
    <3>1. v7' \in Int /\ v7' \notin 1 .. 2 /\ (v7' > 2 => v7' = 3)
      BY <1>2, <1>3
    <3>. QED
      BY <3>1, ChecksWhereNext
  <2>. QED
    BY <1>4, <1>6, <2>1 DEF ChecksGuarded, Checks!GuardHolds, Checks!CompanyAware
<1>9. \A f \in DOMAIN v8 \ {"sort"} : v8'[f] \subseteq ChecksColumn
  BY <1>1, <1>3 DEF Checks!TypeOK
<1>. QED
  BY <1>1, <1>2, <1>3, <1>6, <1>7, <1>8, <1>9, ChecksKeepTypes, ChecksKeepPlan,
     ChecksKeepColumns, ChecksKeepAnswer, ChecksKeepBase DEF Checks!CheckInv, ChecksGuarded
(* What the check for relations plans.                                     *)
LEMMA ChecksPlanned ==
    ASSUME Checks!TypeOK, NEW grouped \in Checks!Groupings, v8' = Checks!Planned(grouped)
    PROVE  /\ DOMAIN v8' = DOMAIN v8
           /\ v8'.lang = v8.lang /\ v8'.company = v8.company
           /\ v8'.strategies \subseteq v8'.deferred
           /\ \A f \in DOMAIN v8 \ {"sort"} : v8'[f] \subseteq ChecksColumn
<1>1. \A types : Checks!Of(types) \subseteq ChecksColumn
  BY DEF Checks!Of
<1>2. grouped \subseteq ChecksColumn
  <2>1. Checks!Groupable \subseteq ChecksColumn
    BY <1>1 DEF Checks!Groupable
  <2>. QED
    BY <2>1 DEF Checks!Groupings
<1>3. Checks!Deferrable \subseteq ChecksColumn
  BY <1>1 DEF Checks!Deferrable
<1>4. /\ DOMAIN v8' = DOMAIN v8
      /\ v8'.lang = v8.lang /\ v8'.company = v8.company /\ v8'.grouped = grouped
      /\ v8'.required \subseteq ChecksColumn
      /\ v8'.deferred = IF v6.auto THEN Checks!Deferrable ELSE {}
      /\ v8'.strategies = IF v6.auto THEN Checks!Of({"m2m", "o2m"}) ELSE {}
  BY <1>1, ChecksRecords DEF Checks!Planned
<1>5. Checks!Of({"m2m", "o2m"}) \subseteq Checks!Deferrable
  BY DEF Checks!Deferrable, Checks!Of
<1>6. v8'.strategies \subseteq v8'.deferred
  BY <1>4, <1>5
<1>7. /\ v8'.deferred \subseteq ChecksColumn /\ v8'.strategies \subseteq ChecksColumn
      /\ v8'.grouped \subseteq ChecksColumn
  BY <1>2, <1>3, <1>4, <1>6
<1>8. v8.lang \subseteq ChecksColumn /\ v8.company \subseteq ChecksColumn
  BY ChecksRecords DEF Checks!TypeOK
<1>9. \A f \in DOMAIN v8 \ {"sort"} : v8'[f] \subseteq ChecksColumn
  BY <1>4, <1>7, <1>8, ChecksRecords
<1>. QED
  BY <1>4, <1>6, <1>9

(* A strategy is planned only for what is deferred.                        *)
LEMMA ChecksDeferral ==
    ASSUME Checks!CheckInv, Checks!Deferral
    PROVE  Checks!CheckInv'
<1>1. /\ Checks!TypeOK /\ Checks!PlanHolds /\ Checks!GuardHolds /\ Checks!ColumnsHold
      /\ Checks!AnswerHolds
  BY DEF Checks!CheckInv
<1>2. v7 = 5
  <2>1. v7 \in Int
    BY <1>1, ChecksTypes
  <2>2. Checks!At("deferral")
    BY DEF Checks!Deferral
  <2>. QED
    BY <2>1, <2>2, ChecksAt
<1>3. v7' \in {v7 + 1, -v7}
  BY DEF Checks!Deferral, Checks!Pass, Checks!Continue, Checks!Stop
<1>4. UNCHANGED <<v1, v2, v3, v4, v6, v9, v11, v12>>
  BY DEF Checks!Deferral, Checks!server, Checks!rest
<1>5. ChecksNote /\ (v10'.smooth => v10.smooth)
  <2>1. CASE Checks!Read
    BY <1>1, <2>1, ChecksRead
  <2>2. CASE Checks!Unread
    BY <1>1, <2>2, ChecksFault DEF Checks!Unread
  <2>. QED
    BY <2>1, <2>2 DEF Checks!Deferral
<1>6. /\ DOMAIN v8' = DOMAIN v8
      /\ v8'.lang = v8.lang /\ v8'.company = v8.company
      /\ v8'.strategies \subseteq v8'.deferred
      /\ \A f \in DOMAIN v8 \ {"sort"} : v8'[f] \subseteq ChecksColumn
  <2>1. CASE v8' = v8
    BY <1>1, <2>1 DEF Checks!TypeOK, Checks!PlanHolds
  <2>2. CASE \E grouped \in Checks!Groupings : v8' = Checks!Planned(grouped)
    BY <1>1, <2>2, ChecksPlanned
  <2>. QED
    BY <2>1, <2>2 DEF Checks!Deferral, Checks!Pass, Checks!Stop
<1>7. ChecksFrame
  BY <1>1, <1>2, <1>3, <1>4, <1>5, <1>6, ChecksTypes DEF ChecksFrame, ChecksNote
<1>8. Checks!PlanHolds'
  <2>1. Checks!Until("translation") /\ Checks!Until("company")
    <3>1. v7 \in Int /\ v7 \in 1 .. 9 /\ v7 \in 1 .. 10
      BY <1>2
    <3>. QED
      BY <3>1, ChecksWhere
  <2>. QED
    BY <1>1, <1>6, <2>1 DEF Checks!PlanHolds
<1>9. v10'.count \in Checks!Several .. Checks!Cardinality(ChecksCompany)
  BY <1>1, <1>5, ChecksTypes DEF ChecksNote
<1>. QED
  BY <1>1, <1>2, <1>5, <1>6, <1>7, <1>8, <1>9, ChecksKeepTypes, ChecksKeepGuard,
     ChecksKeepColumns, ChecksKeepAnswer, ChecksKeepBase DEF Checks!CheckInv, ChecksNote

(* What the look-up of references may find out.                            *)
ChecksLookUp(looked) ==
    /\ looked # Checks!Wanted => v13 < ChecksFaults
    /\ v13' = IF looked = Checks!Wanted THEN v13 ELSE v13 + 1
    /\ v10' = [Checks!SeenFields EXCEPT
                  !.smooth = @ /\ looked = Checks!Wanted,
                  !.answer = IF \E c \in looked : Checks!Absent(c)
                             THEN "absent" ELSE "present"]
    /\ IF Checks!Missing(looked) # {} THEN Checks!IfStrict ELSE Checks!Pass

(* It notes what it has found, and stops only on account of it.            *)
ChecksAnswered ==
    /\ v5' \in ChecksSchemas \cup {Checks!NoSchema}
    /\ DOMAIN v10' = DOMAIN v10 /\ v10.schemas \subseteq v10'.schemas
    /\ v10'.schemas \subseteq v10.schemas \cup {Checks!Fields}
    /\ v10'.smooth => v10.smooth
    /\ v10'.guard = v10.guard /\ v10'.count = v10.count
    /\ v13' \in 0 .. ChecksFaults
    /\ v7' = -7 => v10'.answer # "present"

(* References stop the run only when some were found missing.              *)
LEMMA ChecksReference ==
    ASSUME Checks!CheckInv, Checks!Reference
    PROVE  Checks!CheckInv'
<1>1. /\ Checks!TypeOK /\ Checks!PlanHolds /\ Checks!GuardHolds /\ Checks!ColumnsHold
      /\ Checks!AnswerHolds
  BY DEF Checks!CheckInv
<1>2. v7 = 7
  <2>1. v7 \in Int
    BY <1>1, ChecksTypes
  <2>2. Checks!At("reference")
    BY DEF Checks!Reference
  <2>. QED
    BY <2>1, <2>2, ChecksAt
<1>3. v7' \in {v7 + 1, -v7} /\ v8' = v8
  BY DEF Checks!Reference, Checks!IfStrict, Checks!Pass, Checks!Continue, Checks!Stop
<1>4. UNCHANGED <<v1, v2, v3, v4, v6, v9, v11, v12>>
  BY DEF Checks!Reference, Checks!server, Checks!rest
<1>5. v10.answer = "none"
  <2>1. Checks!Until("reference")
    <3>1. v7 \in Int /\ v7 \in 1 .. 7
      BY <1>2
    <3>. QED
      BY <3>1, ChecksWhere
  <2>. QED
    BY <1>1, <2>1 DEF Checks!AnswerHolds
<1>6. ChecksAnswered
  <2>1. CASE UNCHANGED <<v5, v10, v13>>
    BY <1>1, <1>5, <2>1, ChecksTypes DEF ChecksAnswered
  <2>2. CASE Checks!Unread
    BY <1>1, <1>5, <2>2, ChecksFault DEF Checks!Unread, ChecksNote, ChecksAnswered
  <2>3. CASE Checks!Read
    BY <1>1, <1>5, <2>3, ChecksRead DEF ChecksNote, ChecksAnswered
  <2>4. CASE Checks!ReadAndFault
    BY <1>1, <1>5, <2>4, ChecksReadAndFault DEF ChecksNote, ChecksAnswered
  <2>5. ASSUME v5' = Checks!Renewed, NEW looked \in SUBSET Checks!Wanted, ChecksLookUp(looked)
        PROVE  ChecksAnswered
    <3>1. /\ DOMAIN v10' = DOMAIN v10 /\ v10'.schemas = v10.schemas \cup {Checks!Fields}
          /\ v10'.count = v10.count /\ v10'.guard = v10.guard /\ (v10'.smooth => v10.smooth)
      BY <1>1, <2>5, ChecksSeen, ChecksRecords DEF ChecksLookUp
    <3>2. v13' \in 0 .. ChecksFaults
      <4>1. v13' = v13 \/ (v13 < ChecksFaults /\ v13' = v13 + 1)
        BY <2>5 DEF ChecksLookUp
      <4>. QED
        BY <1>1, <4>1, ChecksTypes, ChecksConstants
    <3>3. v7' = -7 => v10'.answer # "present"
      <4>1. v7' = -7 => Checks!Missing(looked) # {}
        BY <1>2, <2>5 DEF ChecksLookUp, Checks!Pass, Checks!Continue
      <4>2. Checks!Missing(looked) # {} => \E c \in looked : Checks!Absent(c)
        BY DEF Checks!Missing
      <4>3. v10'.answer = IF \E c \in looked : Checks!Absent(c) THEN "absent" ELSE "present"
        BY <1>1, <2>5, ChecksSeen, ChecksRecords DEF ChecksLookUp
      <4>. QED
        BY <4>1, <4>2, <4>3
    <3>. QED
      BY <1>1, <2>5, <3>1, <3>2, <3>3, ChecksFields, ChecksTypes DEF ChecksAnswered
  <2>. QED
    BY <2>1, <2>2, <2>3, <2>4, <2>5 DEF Checks!Reference, ChecksLookUp
<1>7. ChecksFrame
  BY <1>1, <1>2, <1>3, <1>4, <1>6, ChecksTypes DEF ChecksFrame, ChecksAnswered
<1>8. Checks!AnswerHolds'
  <2>1. ~Checks!Until("reference")' /\ (Checks!StoppedAt("reference")' <=> v7' = -7)
    <3>1. v7' \in Int /\ v7' \notin 1 .. 7
      BY <1>2, <1>3
    <3>. QED
      BY <3>1, ChecksWhereNext
  <2>. QED
    BY <1>6, <2>1 DEF ChecksAnswered, Checks!AnswerHolds, Checks!UnknownIsNotMissing
<1>9. /\ \A f \in DOMAIN v8 \ {"sort"} : v8'[f] \subseteq ChecksColumn
      /\ v10'.count \in Checks!Several .. Checks!Cardinality(ChecksCompany)
  BY <1>1, <1>3, <1>6, ChecksTypes DEF ChecksAnswered, Checks!TypeOK
<1>. QED
  BY <1>1, <1>2, <1>3, <1>6, <1>7, <1>8, <1>9, ChecksKeepTypes, ChecksKeepPlan,
     ChecksKeepGuard, ChecksKeepColumns, ChecksKeepBase DEF ChecksAnswered, Checks!CheckInv
(* The columns of a language and of a company are those that the fields    *)
(* read make them.                                                         *)
LEMMA ChecksDivided ==
    /\ Checks!Translations = Checks!ForLang(Checks!Fields)
    /\ Checks!PerCompany = Checks!ForCompany(Checks!Fields)
    /\ Checks!AtColumns \subseteq ChecksColumn
    /\ \A fields : /\ Checks!ForLang(fields) \subseteq Checks!AtColumns
                   /\ Checks!ForCompany(fields) \subseteq Checks!AtColumns
BY DEF Checks!Translations, Checks!PerCompany, Checks!ForLang, Checks!ForCompany,
       Checks!AtColumns

(* The columns for languages are those the fields make translatable.       *)
LEMMA ChecksTranslation ==
    ASSUME Checks!CheckInv, Checks!Translation
    PROVE  Checks!CheckInv'
<1>1. /\ Checks!TypeOK /\ Checks!PlanHolds /\ Checks!GuardHolds /\ Checks!ColumnsHold
      /\ Checks!AnswerHolds
  BY DEF Checks!CheckInv
<1>2. v7 = 9
  <2>1. v7 \in Int
    BY <1>1, ChecksTypes
  <2>2. Checks!At("translation")
    BY DEF Checks!Translation
  <2>. QED
    BY <2>1, <2>2, ChecksAt
<1>3. v7' \in {v7 + 1, -v7}
  BY DEF Checks!Translation, Checks!Pass, Checks!Continue, Checks!Stop
<1>4. UNCHANGED <<v1, v2, v3, v4, v6, v9, v11, v12>>
  BY DEF Checks!Translation, Checks!server, Checks!rest
<1>5. ChecksNote /\ (v10'.smooth => v10.smooth)
  <2>1. CASE UNCHANGED <<v5, v10, v13>>
    BY <1>1, <2>1, ChecksTypes DEF ChecksNote
  <2>2. CASE Checks!Unread
    BY <1>1, <2>2, ChecksFault DEF Checks!Unread
  <2>3. CASE Checks!Read
    BY <1>1, <2>3, ChecksRead
  <2>4. CASE Checks!ReadAndFault
    BY <1>1, <2>4, ChecksReadAndFault
  <2>. QED
    BY <2>1, <2>2, <2>3, <2>4 DEF Checks!Translation
<1>6. v8' = v8 \/ v8' = [v8 EXCEPT !.lang = Checks!Translations]
  BY DEF Checks!Translation, Checks!Pass, Checks!Stop
<1>7. /\ DOMAIN v8' = DOMAIN v8
      /\ v8'.company = v8.company
      /\ v8'.strategies = v8.strategies /\ v8'.deferred = v8.deferred
      /\ \A f \in DOMAIN v8 \ {"sort"} : v8'[f] \subseteq ChecksColumn
  <2>1. Checks!Translations \subseteq ChecksColumn
    BY ChecksDivided
  <2>2. \A f \in DOMAIN v8 \ {"sort"} : v8[f] \subseteq ChecksColumn
    BY <1>1 DEF Checks!TypeOK
  <2>. QED
    BY <1>1, <1>6, <2>1, <2>2, ChecksRecords
<1>8. ChecksFrame
  BY <1>1, <1>2, <1>3, <1>4, <1>5, <1>7, ChecksTypes DEF ChecksFrame, ChecksNote
<1>9. /\ Checks!Until("translation") /\ Checks!Until("company")
      /\ ~Checks!Until("translation")' /\ ~Checks!Past("company")'
      /\ (Checks!Past("translation")' => v7' = 10)
  <2>1. v7 \in Int /\ v7 \in 1 .. 9 /\ v7 \in 1 .. 10
    BY <1>2
  <2>2. v7' \in Int /\ v7' \notin 1 .. 9 /\ ~(v7' > 10) /\ (v7' > 9 => v7' = 10)
    BY <1>2, <1>3
  <2>. QED
    BY <2>1, <2>2, ChecksWhere, ChecksWhereNext
<1>10. Checks!PlanHolds'
  BY <1>1, <1>7, <1>9 DEF Checks!PlanHolds
<1>11. Checks!ColumnsHold'
  <2>. SUFFICES ASSUME NEW fields \in ChecksSchemas,
                       v10'.smooth, v10'.schemas \subseteq {fields}, v7' = 10
                PROVE  /\ v8'.lang = Checks!ForLang(fields)
                       /\ Checks!AtColumns
                             = Checks!ForLang(fields) \cup Checks!ForCompany(fields)
                       /\ \A c \in v8'.lang : ChecksQualifier[c] \in v2'
    BY <1>9 DEF Checks!ColumnsHold, Checks!ForLang, Checks!ForCompany, Checks!AtColumns
  <2>1. CASE Checks!AtColumns = {} /\ v8' = v8
    <3>1. v8.lang = {}
      BY <1>1, <1>9 DEF Checks!PlanHolds
    <3>. QED
      BY <2>1, <3>1, ChecksDivided
  <2>2. CASE Checks!Unread
    BY <1>1, <2>2, ChecksFault DEF Checks!Unread
  <2>3. CASE Checks!ReadAndFault
    BY <1>1, <2>3, ChecksReadAndFault
  <2>4. CASE Checks!Stop
    BY <1>2, <2>4 DEF Checks!Stop
  <2>5. CASE /\ Checks!AtColumns = Checks!Translations \cup Checks!PerCompany
             /\ v8' = [v8 EXCEPT !.lang = Checks!Translations]
             /\ \A c \in Checks!Translations : ChecksQualifier[c] \in v2
             /\ Checks!Read
    <3>1. fields = Checks!Fields
      BY <1>1, <2>5, ChecksRead
    <3>2. v8'.lang = Checks!Translations
      BY <1>1, <2>5, ChecksRecords
    <3>. QED
      BY <1>4, <2>5, <3>1, <3>2, ChecksDivided
  <2>. QED
    BY <2>1, <2>2, <2>3, <2>4, <2>5 DEF Checks!Translation, Checks!Pass
<1>12. v10'.count \in Checks!Several .. Checks!Cardinality(ChecksCompany)
  BY <1>1, <1>5, ChecksTypes DEF ChecksNote
<1>. QED
  BY <1>1, <1>2, <1>5, <1>7, <1>8, <1>10, <1>11, <1>12, ChecksKeepTypes, ChecksKeepGuard,
     ChecksKeepAnswer, ChecksKeepBase DEF ChecksNote, Checks!CheckInv

(* The columns for companies are the rest, and there is no other.          *)
LEMMA ChecksCompanyColumns ==
    ASSUME Checks!CheckInv, Checks!CompanyColumns
    PROVE  Checks!CheckInv'
<1>1. /\ Checks!TypeOK /\ Checks!PlanHolds /\ Checks!GuardHolds /\ Checks!ColumnsHold
      /\ Checks!AnswerHolds
  BY DEF Checks!CheckInv
<1>2. v7 = 10
  <2>1. v7 \in Int
    BY <1>1, ChecksTypes
  <2>2. Checks!At("company")
    BY DEF Checks!CompanyColumns
  <2>. QED
    BY <2>1, <2>2, ChecksAt
<1>3. v7' \in {v7 + 1, -v7}
  BY DEF Checks!CompanyColumns, Checks!Pass, Checks!Continue, Checks!Stop
<1>4. UNCHANGED <<v1, v2, v3, v4, v6, v9, v11, v12>>
  BY DEF Checks!CompanyColumns, Checks!server, Checks!rest
<1>5. ChecksNote /\ (v10'.smooth => v10.smooth)
  <2>1. CASE UNCHANGED <<v5, v10, v13>>
    BY <1>1, <2>1, ChecksTypes DEF ChecksNote
  <2>2. CASE Checks!Unread
    BY <1>1, <2>2, ChecksFault DEF Checks!Unread
  <2>3. CASE Checks!Read
    BY <1>1, <2>3, ChecksRead
  <2>4. CASE Checks!ReadAndFault
    BY <1>1, <2>4, ChecksReadAndFault
  <2>. QED
    BY <2>1, <2>2, <2>3, <2>4 DEF Checks!CompanyColumns
<1>6. v8' = v8 \/ v8' = [v8 EXCEPT !.company = Checks!PerCompany]
  BY DEF Checks!CompanyColumns, Checks!Pass, Checks!Stop
<1>7. /\ DOMAIN v8' = DOMAIN v8
      /\ v8'.lang = v8.lang
      /\ v8'.strategies = v8.strategies /\ v8'.deferred = v8.deferred
      /\ \A f \in DOMAIN v8 \ {"sort"} : v8'[f] \subseteq ChecksColumn
  <2>1. Checks!PerCompany \subseteq ChecksColumn
    BY ChecksDivided
  <2>2. \A f \in DOMAIN v8 \ {"sort"} : v8[f] \subseteq ChecksColumn
    BY <1>1 DEF Checks!TypeOK
  <2>. QED
    BY <1>1, <1>6, <2>1, <2>2, ChecksRecords
<1>8. ChecksFrame
  BY <1>1, <1>2, <1>3, <1>4, <1>5, <1>7, ChecksTypes DEF ChecksFrame, ChecksNote
<1>9. /\ Checks!Until("company") /\ Checks!Past("translation")
      /\ ~Checks!Until("translation")' /\ ~Checks!Until("company")'
      /\ (Checks!Past("company")' => v7' = 11)
  <2>1. v7 \in Int /\ v7 \in 1 .. 10 /\ v7 > 9
    BY <1>2
  <2>2. v7' \in Int /\ v7' \notin 1 .. 9 /\ v7' \notin 1 .. 10 /\ (v7' > 10 => v7' = 11)
    BY <1>2, <1>3
  <2>. QED
    BY <2>1, <2>2, ChecksWhere, ChecksWhereNext
<1>10. Checks!PlanHolds'
  BY <1>1, <1>7, <1>9 DEF Checks!PlanHolds
<1>11. Checks!ColumnsHold'
  <2>. SUFFICES ASSUME NEW fields \in ChecksSchemas,
                       v10'.smooth, v10'.schemas \subseteq {fields}
                PROVE  /\ v8'.lang = Checks!ForLang(fields)
                       /\ Checks!AtColumns
                             = Checks!ForLang(fields) \cup Checks!ForCompany(fields)
                       /\ \A c \in v8'.lang : ChecksQualifier[c] \in v2'
                       /\ v7' = 11 =>
                             /\ v8'.company = Checks!ForCompany(fields)
                             /\ \A c \in v8'.company : ChecksQualifier[c] \in v3'
    BY <1>9 DEF Checks!ColumnsHold, Checks!ForLang, Checks!ForCompany, Checks!AtColumns
  <2>1. /\ v8'.lang = Checks!ForLang(fields)
        /\ Checks!AtColumns = Checks!ForLang(fields) \cup Checks!ForCompany(fields)
        /\ \A c \in v8'.lang : ChecksQualifier[c] \in v2'
    <3>1. v10.smooth /\ v10.schemas \subseteq {fields}
      BY <1>5 DEF ChecksNote
    <3>. QED
      BY <1>1, <1>4, <1>7, <1>9, <3>1 DEF Checks!ColumnsHold
  <2>2. ASSUME v7' = 11
        PROVE  /\ v8'.company = Checks!ForCompany(fields)
               /\ \A c \in v8'.company : ChecksQualifier[c] \in v3'
    <3>1. CASE Checks!AtColumns = {} /\ v8' = v8
      <4>1. v8.company = {}
        BY <1>1, <1>9 DEF Checks!PlanHolds
      <4>. QED
        BY <3>1, <4>1, ChecksDivided
    <3>2. CASE Checks!Unread
      BY <1>1, <3>2, ChecksFault DEF Checks!Unread
    <3>3. CASE Checks!Stop
      BY <1>2, <2>2, <3>3 DEF Checks!Stop
    <3>4. CASE /\ \A c \in Checks!PerCompany : ChecksQualifier[c] \in v3
               /\ v8' = [v8 EXCEPT !.company = Checks!PerCompany]
               /\ Checks!Read
      <4>1. fields = Checks!Fields
        BY <1>1, <3>4, ChecksRead
      <4>2. v8'.company = Checks!PerCompany
        BY <1>1, <3>4, ChecksRecords
      <4>. QED
        BY <1>4, <3>4, <4>1, <4>2, ChecksDivided
    <3>. QED
      BY <3>1, <3>2, <3>3, <3>4 DEF Checks!CompanyColumns, Checks!Pass
  <2>. QED
    BY <2>1, <2>2
<1>12. v10'.count \in Checks!Several .. Checks!Cardinality(ChecksCompany)
  BY <1>1, <1>5, ChecksTypes DEF ChecksNote
<1>. QED
  BY <1>1, <1>2, <1>5, <1>7, <1>8, <1>10, <1>11, <1>12, ChecksKeepTypes, ChecksKeepGuard,
     ChecksKeepAnswer, ChecksKeepBase DEF ChecksNote, Checks!CheckInv
(* What run_import makes of the plan.                                      *)
LEMMA ChecksUse ==
    ASSUME Checks!CheckInv, Checks!Use
    PROVE  Checks!CheckInv'
<1>1. /\ Checks!TypeOK /\ Checks!PlanHolds /\ Checks!GuardHolds /\ Checks!ColumnsHold
      /\ Checks!AnswerHolds
  BY DEF Checks!CheckInv
<1>2. v7 = 11 /\ v7' = 12
  <2>1. v7 \in Int
    BY <1>1, ChecksTypes
  <2>2. Checks!At("use") /\ v7' = v7 + 1
    BY DEF Checks!Use, Checks!Continue
  <2>3. v7 = 11
    BY <2>1, <2>2, ChecksAt
  <2>. QED
    BY <2>2, <2>3
<1>3. UNCHANGED <<v1, v2, v3, v4, v5, v6, v8, v10, v11, v12, v13>>
  BY DEF Checks!Use, Checks!server
<1>4. /\ Checks!Past("company context") /\ Checks!Past("translation") /\ Checks!Past("company")
      /\ ~Checks!Until("company context")' /\ ~Checks!Until("translation")'
      /\ ~Checks!Until("company")' /\ ~Checks!Until("reference")'
      /\ ~Checks!StoppedAt("reference")'
  <2>1. v7 \in Int /\ v7 > 2 /\ v7 > 9 /\ v7 > 10
    BY <1>2
  <2>2. /\ v7' \in Int /\ v7' \notin 1 .. 2 /\ v7' \notin 1 .. 9 /\ v7' \notin 1 .. 10
        /\ v7' \notin 1 .. 7 /\ v7' # -7
    BY <1>2
  <2>. QED
    BY <2>1, <2>2, ChecksWhere, ChecksWhereNext
<1>5. v9' = [ignored |-> v8.lang \cup v8.company,
             deferred |-> Checks!ChosenToDefer \ Checks!Blocked,
             grouped |-> v8.grouped \ (Checks!ChosenToDefer \ Checks!Blocked)]
  BY DEF Checks!Use
<1>6. /\ DOMAIN v9' = {"ignored", "deferred", "grouped"}
      /\ v9'.ignored = v8.lang \cup v8.company
      /\ v9'.deferred = Checks!ChosenToDefer \ Checks!Blocked
      /\ v9'.grouped = v8.grouped \ v9'.deferred
  BY <1>5
<1>7. Checks!TypeOK'
  <2>1. /\ v8.lang \subseteq ChecksColumn /\ v8.company \subseteq ChecksColumn
        /\ v8.grouped \subseteq ChecksColumn /\ v8.deferred \subseteq ChecksColumn
    BY <1>1, ChecksRecords DEF Checks!TypeOK
  <2>2. Checks!ChosenToDefer \subseteq ChecksColumn
    BY <2>1 DEF Checks!ChosenToDefer, Checks!Listed, Checks!Of
  <2>3. \A f \in DOMAIN v9' : v9'[f] \subseteq ChecksColumn
    BY <1>6, <2>1, <2>2
  <2>4. DOMAIN v9' = DOMAIN Checks!NoBase
    BY <1>6 DEF Checks!NoBase
  <2>5. v7' \in -Len(Checks!Checks) .. Checks!Ready
    BY <1>2, ChecksCount
  <2>. QED
    BY <1>1, <1>3, <2>3, <2>4, <2>5 DEF Checks!TypeOK
<1>8. Checks!PlanHolds'
  BY <1>1, <1>3, <1>4 DEF Checks!PlanHolds
<1>9. Checks!GuardHolds'
  BY <1>1, <1>3, <1>4 DEF Checks!GuardHolds, Checks!CompanyAware
<1>10. Checks!ColumnsHold'
  BY <1>1, <1>3, <1>4
  DEF Checks!ColumnsHold, Checks!ForLang, Checks!ForCompany, Checks!AtColumns
<1>11. Checks!AnswerHolds'
  BY <1>4 DEF Checks!AnswerHolds, Checks!UnknownIsNotMissing
<1>12. Checks!BaseHolds'
  <2>1. v6.listed # "suffixed" => Checks!Blocked = v8.required
    BY DEF Checks!Blocked
  <2>2. v6.listed # "suffixed" => v9'.deferred \cap v8.required = {}
    BY <1>6, <2>1
  <2>3. v9'.deferred \cap v9'.grouped = {}
    BY <1>6
  <2>4. v8.strategies \subseteq v8.deferred
    BY <1>1 DEF Checks!PlanHolds
  <2>5. Checks!DeferralIsSafe'
    BY <1>3, <2>2, <2>3, <2>4 DEF Checks!DeferralIsSafe
  <2>. QED
    BY <1>3, <1>6, <2>5 DEF Checks!BaseHolds
<1>. QED
  BY <1>7, <1>8, <1>9, <1>10, <1>11, <1>12 DEF Checks!CheckInv

(* A run begins with an empty plan and has seen nothing.                   *)
LEMMA ChecksStart ==
    ASSUME Checks!CheckInv, NEW o \in ChecksOptions, Checks!Start(o)
    PROVE  Checks!CheckInv'
<1>1. Checks!TypeOK
  BY DEF Checks!CheckInv
<1>2. /\ v7' = 1 /\ v8' = Checks!NoPlan /\ v9' = Checks!NoBase /\ v10' = Checks!Unseen
      /\ v6' = o /\ UNCHANGED <<v1, v2, v3, v4, v5, v12, v13>>
  BY DEF Checks!Start, Checks!server
<1>3. v11' \in 0 .. ChecksRuns
  <2>1. v11 < ChecksRuns /\ v11' = v11 + 1
    BY DEF Checks!Start
  <2>. QED
    BY <1>1, <2>1, ChecksTypes, ChecksConstants
<1>4. /\ ~Checks!Past("company context")' /\ ~Checks!Past("translation")'
      /\ ~Checks!Past("company")' /\ ~Checks!StoppedAt("reference")'
  <2>1. v7' \in Int /\ ~(v7' > 2) /\ ~(v7' > 9) /\ ~(v7' > 10) /\ v7' # -7
    BY <1>2
  <2>. QED
    BY <2>1, ChecksWhereNext
<1>5. Checks!TypeOK'
  <2>1. \A f \in DOMAIN v8' \ {"sort"} : v8'[f] \subseteq ChecksColumn
    BY <1>2 DEF Checks!NoPlan
  <2>2. \A f \in DOMAIN v9' : v9'[f] \subseteq ChecksColumn
    BY <1>2 DEF Checks!NoBase
  <2>3. v10'.schemas \subseteq ChecksSchemas /\ v10'.count = Checks!Several
    BY <1>2 DEF Checks!Unseen
  <2>4. Checks!Several \in Checks!Several .. Checks!Cardinality(ChecksCompany)
    BY ChecksConstants DEF Checks!Several
  <2>5. v7' \in -Len(Checks!Checks) .. Checks!Ready
    BY <1>2, ChecksCount
  <2>. QED
    BY <1>1, <1>2, <1>3, <2>1, <2>2, <2>3, <2>4, <2>5 DEF Checks!TypeOK
<1>6. Checks!PlanHolds'
  BY <1>2 DEF Checks!PlanHolds, Checks!NoPlan
<1>7. Checks!GuardHolds'
  BY <1>2, <1>4 DEF Checks!GuardHolds, Checks!Unseen
<1>8. Checks!ColumnsHold'
  BY <1>4 DEF Checks!ColumnsHold
<1>9. Checks!AnswerHolds'
  BY <1>2, <1>4 DEF Checks!AnswerHolds, Checks!UnknownIsNotMissing, Checks!Unseen
<1>10. Checks!BaseHolds'
  BY <1>2, ChecksCount DEF Checks!BaseHolds
<1>. QED
  BY <1>5, <1>6, <1>7, <1>8, <1>9, <1>10 DEF Checks!CheckInv

(* Nothing of it depends on what the server is when no check looks.        *)
LEMMA ChecksStill ==
    ASSUME Checks!CheckInv, UNCHANGED <<v2, v5, v6, v7, v8, v9, v10, v11, v13>>,
           v1' \in ChecksSchemas, v3 \subseteq v3', v3' \subseteq ChecksCompany,
           v4' \subseteq ChecksRef, v12' \in 0 .. ChecksChanges
    PROVE  Checks!CheckInv'
<1>1. /\ Checks!TypeOK /\ Checks!PlanHolds /\ Checks!GuardHolds /\ Checks!ColumnsHold
      /\ Checks!AnswerHolds /\ Checks!BaseHolds
  BY DEF Checks!CheckInv
<1>2. /\ Checks!Until("company context")' <=> Checks!Until("company context")
      /\ Checks!Until("translation")' <=> Checks!Until("translation")
      /\ Checks!Until("company")' <=> Checks!Until("company")
      /\ Checks!Until("reference")' <=> Checks!Until("reference")
      /\ Checks!Past("company context")' <=> Checks!Past("company context")
      /\ Checks!Past("translation")' <=> Checks!Past("translation")
      /\ Checks!Past("company")' <=> Checks!Past("company")
      /\ Checks!StoppedAt("reference")' <=> Checks!StoppedAt("reference")
  BY DEF Checks!Until, Checks!Past, Checks!StoppedAt
<1>3. Checks!TypeOK'
  BY <1>1 DEF Checks!TypeOK
<1>4. Checks!PlanHolds'
  BY <1>1, <1>2 DEF Checks!PlanHolds
<1>5. Checks!GuardHolds'
  BY <1>1, <1>2 DEF Checks!GuardHolds, Checks!CompanyAware
<1>6. Checks!ColumnsHold'
  BY <1>1, <1>2 DEF Checks!ColumnsHold, Checks!ForLang, Checks!ForCompany, Checks!AtColumns
<1>7. Checks!AnswerHolds'
  BY <1>1, <1>2 DEF Checks!AnswerHolds, Checks!UnknownIsNotMissing
<1>8. Checks!BaseHolds'
  BY <1>1 DEF Checks!BaseHolds, Checks!DeferralIsSafe
<1>. QED
  BY <1>3, <1>4, <1>5, <1>6, <1>7, <1>8 DEF Checks!CheckInv

(* What changes on the server between two checks disturbs nothing noted.   *)
LEMMA ChecksChange ==
    ASSUME Checks!CheckInv, Checks!Change
    PROVE  Checks!CheckInv'
<1>1. Checks!TypeOK
  BY DEF Checks!CheckInv
<1>2. UNCHANGED <<v2, v5, v6, v7, v8, v9, v10, v11, v13>>
  BY DEF Checks!Change
<1>3. v12' \in 0 .. ChecksChanges
  <2>1. v12 < ChecksChanges /\ v12' = v12 + 1
    BY DEF Checks!Change
  <2>. QED
    BY <1>1, <2>1, ChecksTypes, ChecksConstants
<1>4. /\ v1' \in ChecksSchemas /\ v3 \subseteq v3' /\ v3' \subseteq ChecksCompany
      /\ v4' \subseteq ChecksRef
  BY <1>1, ChecksTypes DEF Checks!Change
<1>. QED
  BY <1>2, <1>3, <1>4, ChecksStill

(* CheckInv holds in the first state and is kept by every step.            *)
THEOREM ChecksKeepTheirPlan == Checks!Spec => []Checks!CheckInv
<1>1. Checks!Init => Checks!CheckInv
  <2>. SUFFICES ASSUME Checks!Init PROVE Checks!CheckInv
    OBVIOUS
  <2>1. /\ v7 = 0 /\ v8 = Checks!NoPlan /\ v9 = Checks!NoBase /\ v10 = Checks!Unseen
        /\ v1 \in ChecksSchemas /\ v2 \subseteq ChecksLang
        /\ v3 \subseteq ChecksCompany /\ v4 \subseteq ChecksRef
        /\ v5 = Checks!NoSchema /\ v6 \in ChecksOptions
        /\ v11 = 0 /\ v12 = 0 /\ v13 = 0
    BY ChecksConstants DEF Checks!Init, Checks!Idle
  <2>2. /\ ~Checks!Past("company context") /\ ~Checks!Past("translation")
        /\ ~Checks!Past("company") /\ ~Checks!StoppedAt("reference")
    <3>1. v7 \in Int /\ ~(v7 > 2) /\ ~(v7 > 9) /\ ~(v7 > 10) /\ v7 # -7
      BY <2>1
    <3>. QED
      BY <3>1, ChecksWhere
  <2>3. Checks!TypeOK
    <3>1. \A f \in DOMAIN v8 \ {"sort"} : v8[f] \subseteq ChecksColumn
      BY <2>1 DEF Checks!NoPlan
    <3>2. \A f \in DOMAIN v9 : v9[f] \subseteq ChecksColumn
      BY <2>1 DEF Checks!NoBase
    <3>3. v10.schemas \subseteq ChecksSchemas /\ v10.count = Checks!Several
      BY <2>1 DEF Checks!Unseen
    <3>4. Checks!Several \in Checks!Several .. Checks!Cardinality(ChecksCompany)
      BY ChecksConstants DEF Checks!Several
    <3>5. v7 \in -Len(Checks!Checks) .. Checks!Ready
      BY <2>1, ChecksCount
    <3>6. v11 \in 0 .. ChecksRuns /\ v12 \in 0 .. ChecksChanges /\ v13 \in 0 .. ChecksFaults
      BY <2>1, ChecksConstants
    <3>. QED
      BY <2>1, <3>1, <3>2, <3>3, <3>4, <3>5, <3>6, ChecksConstants DEF Checks!TypeOK
  <2>4. Checks!PlanHolds
    BY <2>1 DEF Checks!PlanHolds, Checks!NoPlan
  <2>5. Checks!GuardHolds
    BY <2>1, <2>2 DEF Checks!GuardHolds, Checks!Unseen
  <2>6. Checks!ColumnsHold
    BY <2>2 DEF Checks!ColumnsHold
  <2>7. Checks!AnswerHolds
    BY <2>1, <2>2 DEF Checks!AnswerHolds, Checks!UnknownIsNotMissing, Checks!Unseen
  <2>8. Checks!BaseHolds
    BY <2>1, ChecksCount DEF Checks!BaseHolds
  <2>. QED
    BY <2>3, <2>4, <2>5, <2>6, <2>7, <2>8 DEF Checks!CheckInv
<1>2. Checks!CheckInv /\ [Checks!Next]_Checks!vars => Checks!CheckInv'
  <2>. SUFFICES ASSUME Checks!CheckInv, [Checks!Next]_Checks!vars PROVE Checks!CheckInv'
    OBVIOUS
  <2>1. CASE UNCHANGED Checks!vars
    <3>1. UNCHANGED <<v1, v2, v3, v4, v5, v6, v7, v8, v9, v10, v11, v12, v13>>
      BY <2>1 DEF Checks!vars, Checks!server, Checks!rest
    <3>2. Checks!TypeOK
      BY DEF Checks!CheckInv
    <3>3. /\ v1' \in ChecksSchemas /\ v3' \subseteq ChecksCompany /\ v4' \subseteq ChecksRef
          /\ v12' \in 0 .. ChecksChanges /\ v3 \subseteq v3'
      BY <3>1, <3>2, ChecksTypes
    <3>. QED
      BY <3>1, <3>3, ChecksStill
  <2>2. CASE Checks!Next
    BY <2>2, ChecksStart, ChecksChange, ChecksConnection, ChecksCompanyContext,
       ChecksSelfReference, ChecksLanguage, ChecksDeferral, ChecksCollision, ChecksReference,
       ChecksCells, ChecksTranslation, ChecksCompanyColumns, ChecksUse DEF Checks!Next
  <2>. QED
    BY <2>1, <2>2
<1>. QED
  BY <1>1, <1>2, PTL DEF Checks!Spec

(* An import that the checks let through writes every column with one kind *)
(* of pass, defers no required relation and picks no company in silence;   *)
(* references nobody could look up stop none (lib/preflight.py,            *)
(* importer.py).                                                           *)
THEOREM ChecksAreRight == Checks!Spec => []ChecksAreSound
<1>1. ASSUME Checks!CheckInv PROVE Checks!NoSilentCompany
  <2>. SUFFICES ASSUME v7 = Checks!Ready PROVE Checks!NoSilentCompany
    BY DEF Checks!NoSilentCompany
  <2>1. Checks!Past("company context")
    <3>1. v7 \in Int /\ v7 > 2
      BY ChecksCount
    <3>. QED
      BY <3>1, ChecksWhere
  <2>. QED
    BY <1>1, <2>1 DEF Checks!CheckInv, Checks!GuardHolds, Checks!NoSilentCompany
<1>2. ASSUME Checks!CheckInv PROVE Checks!EachColumnOnce
  <2>. SUFFICES ASSUME v7 = Checks!Ready, v10.smooth,
                       NEW fields \in ChecksSchemas, v10.schemas = {fields}
                PROVE  /\ v9.ignored = Checks!AtColumns
                       /\ v8.lang \cap v8.company = {}
                       /\ \A c \in v8.lang : ChecksQualifier[c] \in v2
                       /\ \A c \in v8.company : ChecksQualifier[c] \in v3
    BY DEF Checks!EachColumnOnce
  <2>3. Checks!Past("translation") /\ Checks!Past("company")
    <3>1. v7 \in Int /\ v7 > 9 /\ v7 > 10
      BY ChecksCount
    <3>. QED
      BY <3>1, ChecksWhere
  <2>4. /\ v8.lang = Checks!ForLang(fields) /\ v8.company = Checks!ForCompany(fields)
        /\ Checks!AtColumns = Checks!ForLang(fields) \cup Checks!ForCompany(fields)
        /\ \A c \in v8.lang : ChecksQualifier[c] \in v2
        /\ \A c \in v8.company : ChecksQualifier[c] \in v3
    BY <1>2, <2>3 DEF Checks!CheckInv, Checks!ColumnsHold
  <2>5. v9.ignored = v8.lang \cup v8.company
    BY <1>2 DEF Checks!CheckInv, Checks!BaseHolds
  <2>6. Checks!ForLang(fields) \cap Checks!ForCompany(fields) = {}
    BY DEF Checks!ForCompany
  <2>. QED
    BY <2>4, <2>5, <2>6
<1>3. ASSUME Checks!CheckInv PROVE Checks!DeferralIsSafe
  BY <1>3 DEF Checks!CheckInv, Checks!BaseHolds, Checks!DeferralIsSafe
<1>4. Checks!CheckInv => ChecksAreSound
  BY <1>1, <1>2, <1>3
  DEF Checks!CheckInv, Checks!AnswerHolds, Checks!ChecksAreSound, ChecksAreSound
<1>. QED
  BY <1>4, ChecksKeepTheirPlan, PTL

(***************************************************************************)
(* WriteCommand                                                            *)
(***************************************************************************)
(* A sequence over a set is one over every larger set.                     *)
LEMMA SequencesGrow ==
    ASSUME NEW R, NEW T, R \subseteq T, NEW s \in Seq(R)
    PROVE  s \in Seq(T)
<1>1. \A n \in 1 .. Len(s) : s[n] \in R
  OBVIOUS
<1>2. \A n \in 1 .. Len(s) : s[n] \in T
  BY <1>1
<1>3. Len(s) \in Nat /\ s = [n \in 1 .. Len(s) |-> s[n]]
  OBVIOUS
<1>4. [n \in 1 .. Len(s) |-> s[n]] \in Seq(T)
  BY <1>2, <1>3
<1>. QED
  BY <1>3, <1>4

(* The elements of a sequence over a set are in it.                        *)
LEMMA SequenceElements ==
    ASSUME NEW R, NEW s \in Seq(R)
    PROVE  \A n \in DOMAIN s : s[n] \in R
OBVIOUS

LEMMA SequenceEmpty == \A R : << >> \in Seq(R)
OBVIOUS

(* What is used of the assumption, one by one.                             *)
LEMMA WriteConstants ==
    /\ WriteBatch \in Nat \ {0} /\ WriteRuns \in Nat
    /\ WriteSources \subseteq
          Seq([id : WriteRecord \cup {WriteUnreadable}, val : WriteValue \cup {Write!Reason}])
<1>1. [id : WriteRecord \cup {WriteUnreadable}, val : WriteValue]
        \subseteq [id : WriteRecord \cup {WriteUnreadable},
                   val : WriteValue \cup {Write!Reason}]
  OBVIOUS
<1>2. \A rows \in Seq([id : WriteRecord \cup {WriteUnreadable}, val : WriteValue]) :
         rows \in Seq([id : WriteRecord \cup {WriteUnreadable},
                       val : WriteValue \cup {Write!Reason}])
  BY <1>1, SequencesGrow
<1>. QED
  BY <1>2, WriteAssumption

(* Counts and slices are the library's.                                    *)
LEMMA WriteCounts ==
    /\ \A S : Write!Cardinality(S) = Cardinality(S)
    /\ \A S, r : Write!Pos(S, r) = Pos(S, r)
    /\ \A S, n, i : Write!Slice(S, n, i) = Slice(S, n, i)
    /\ \A S, n : Write!SliceCount(S, n) = SliceCount(S, n)
<1>1. \A S : Write!Cardinality(S) = Cardinality(S)
  BY DEF Write!Cardinality, Cardinality
<1>2. \A S, r : Write!Pos(S, r) = Pos(S, r)
  BY <1>1 DEF Write!Pos, Pos
<1>3. \A S, n, i : Write!Slice(S, n, i) = Slice(S, n, i)
  BY <1>2 DEF Write!Slice, Slice
<1>4. \A S, n : Write!SliceCount(S, n) = SliceCount(S, n)
  BY <1>1 DEF Write!SliceCount, SliceCount
<1>. QED
  BY <1>1, <1>2, <1>3, <1>4

(* Rows are numbers, finitely many, and each is in some batch.             *)
LEMMA WriteRows ==
    ASSUME v4 \in Seq([id : WriteRecord \cup {WriteUnreadable},
                       val : WriteValue \cup {Write!Reason}])
    PROVE  /\ DOMAIN v4 \subseteq Nat /\ IsFiniteSet(DOMAIN v4)
           /\ \A b \in Int : Write!RowsOf(b) \subseteq DOMAIN v4
           /\ \A i \in DOMAIN v4 : \E b \in Write!Batches : i \in Write!RowsOf(b)
           /\ \A b \in Write!Batches :
                 /\ b \in Nat
                 /\ Cardinality(Write!RowsOf(b)) \in Nat
                 /\ Cardinality(Write!RowsOf(b)) \in 1 .. WriteBatch
           /\ Write!Batches = {} => v4 = << >>
<1>1. DOMAIN v4 = 1 .. Len(v4) /\ Len(v4) \in Nat
  OBVIOUS
<1>2. IsFiniteSet(DOMAIN v4) /\ DOMAIN v4 \in SUBSET Nat
  BY <1>1, FS_Interval
<1>3. WriteBatch \in Nat \ {0}
  BY WriteConstants
<1>4. \A b : Write!RowsOf(b) = Slice(DOMAIN v4, WriteBatch, b)
  BY WriteCounts DEF Write!RowsOf
<1>5. Write!Batches = 1 .. SliceCount(DOMAIN v4, WriteBatch)
  BY WriteCounts DEF Write!Batches
<1>6. /\ SliceCount(DOMAIN v4, WriteBatch) \in Nat
      /\ \A i \in Int : Slice(DOMAIN v4, WriteBatch, i) \subseteq DOMAIN v4
      /\ \A r \in DOMAIN v4 : \E i \in 1 .. SliceCount(DOMAIN v4, WriteBatch) :
            r \in Slice(DOMAIN v4, WriteBatch, i)
  BY <1>2, <1>3, SlicesPartition
<1>7. \A i \in 1 .. SliceCount(DOMAIN v4, WriteBatch) :
          Cardinality(Slice(DOMAIN v4, WriteBatch, i)) \in 1 .. WriteBatch
  BY <1>2, <1>3, SlicesBounded
<1>8. \A b \in Write!Batches :
         /\ b \in Nat
         /\ Cardinality(Write!RowsOf(b)) \in Nat
         /\ Cardinality(Write!RowsOf(b)) \in 1 .. WriteBatch
  BY <1>3, <1>4, <1>5, <1>6, <1>7
<1>9. Write!Batches = {} => v4 = << >>
  <2>1. Write!Batches = {} => DOMAIN v4 = {}
    BY <1>5, <1>6
  <2>. QED
    BY <1>1, <2>1
<1>. QED
  BY <1>2, <1>4, <1>5, <1>6, <1>8, <1>9

(* What a slice loses and what it keeps add up.                            *)
LEMMA WriteLess ==
    ASSUME NEW S, IsFiniteSet(S), NEW T \in SUBSET S
    PROVE  /\ IsFiniteSet(T) /\ IsFiniteSet(S \ T)
           /\ Cardinality(S) \in Nat /\ Cardinality(T) \in Nat
           /\ Cardinality(T) <= Cardinality(S)
           /\ Cardinality(S \ T) = Cardinality(S) - Cardinality(T)
           /\ T # {} => Cardinality(T) # 0
<1>1. IsFiniteSet(T) /\ Cardinality(T) <= Cardinality(S)
  BY FS_Subset
<1>2. IsFiniteSet(S \ T) /\ Cardinality(S \ T) = Cardinality(S) - Cardinality(S \cap T)
  BY FS_Difference
<1>3. S \cap T = T
  OBVIOUS
<1>4. Cardinality(S) \in Nat /\ Cardinality(T) \in Nat
  BY <1>1, FS_CardinalityType
<1>5. T # {} => Cardinality(T) # 0
  BY <1>1, FS_EmptySet
<1>. QED
  BY <1>1, <1>2, <1>3, <1>4, <1>5

(* What the invariant says of one batch.                                   *)
LEMMA WriteBatches ==
    ASSUME Write!WriteInv, NEW b \in DOMAIN v5
    PROVE  /\ b \in Write!Batches /\ b \in DOMAIN v6 /\ b \in DOMAIN v7
           /\ v6[b] \subseteq Write!RowsOf(b) /\ Write!RowsOf(b) \in SUBSET DOMAIN v4
           /\ DOMAIN v4 \in SUBSET Nat
           /\ IsFiniteSet(Write!RowsOf(b)) /\ IsFiniteSet(v6[b])
           /\ Cardinality(Write!RowsOf(b)) \in Nat
           /\ Cardinality(Write!RowsOf(b)) \in 1 .. WriteBatch
           /\ v7[b] \in Int /\ v7[b] >= 0 /\ Cardinality(v6[b]) \in Nat
           /\ v7[b] <= Cardinality(Write!RowsOf(b))
           /\ v5[b] # "done" =>
                 v7[b] + Cardinality(v6[b]) <= Cardinality(Write!RowsOf(b))
<1>1. Write!TypeOK /\ Write!PhasesHold /\ Write!CountsHold
  BY DEF Write!WriteInv
<1>2. /\ v4 \in Seq([id : WriteRecord \cup {WriteUnreadable},
                    val : WriteValue \cup {Write!Reason}])
      /\ b \in DOMAIN v6 /\ b \in DOMAIN v7
      /\ v6[b] \subseteq Write!RowsOf(b) /\ v7[b] \in 0 .. WriteBatch
  BY <1>1 DEF Write!TypeOK
<1>3. b \in Write!Batches
  BY <1>1 DEF Write!PhasesHold
<1>4. /\ DOMAIN v4 \subseteq Nat /\ IsFiniteSet(DOMAIN v4)
      /\ \A c \in Int : Write!RowsOf(c) \subseteq DOMAIN v4
      /\ b \in Nat
      /\ Cardinality(Write!RowsOf(b)) \in Nat
      /\ Cardinality(Write!RowsOf(b)) \in 1 .. WriteBatch
  BY <1>2, <1>3, WriteRows
<1>5. Write!RowsOf(b) \in SUBSET DOMAIN v4
  BY <1>4
<1>6. IsFiniteSet(Write!RowsOf(b))
  BY <1>4, <1>5, FS_Subset
<1>7. IsFiniteSet(v6[b]) /\ Cardinality(v6[b]) \in Nat
  BY <1>2, <1>6, FS_Subset, FS_CardinalityType
<1>8. /\ v7[b] <= Write!Cardinality(Write!RowsOf(b))
      /\ v5[b] # "done" =>
            v7[b] + Write!Cardinality(v6[b]) <= Write!Cardinality(Write!RowsOf(b))
  BY <1>1 DEF Write!CountsHold
<1>9. WriteBatch \in Nat
  BY WriteConstants
<1>10. v7[b] \in Int /\ v7[b] >= 0
  BY <1>2, <1>9
<1>. QED
  BY <1>2, <1>3, <1>4, <1>5, <1>6, <1>7, <1>8, <1>10, WriteCounts

(* The rows that one call writes are left, and have one value.             *)
LEMMA WriteGroup ==
    ASSUME Write!WriteInv, NEW b \in DOMAIN v5, v6[b] # {}
    PROVE  /\ Write!Group(b) \in SUBSET v6[b] /\ Write!Group(b) # {}
           /\ Write!Group(b) \in SUBSET Nat /\ IsFiniteSet(Write!Group(b))
           /\ Cardinality(Write!Group(b)) \in Nat \ {0}
           /\ Cardinality(Write!Group(b)) <= Cardinality(v6[b])
           /\ Cardinality(v6[b] \ Write!Group(b))
                = Cardinality(v6[b]) - Cardinality(Write!Group(b))
           /\ \A i, j \in Write!Group(b) : v4[i].val = v4[j].val
<1>1. v6[b] \in SUBSET Nat /\ IsFiniteSet(v6[b])
  BY WriteBatches
<1>2. \E i \in v6[b] : \A j \in v6[b] : i <= j
  BY <1>1, LeastExists
<1>3. (CHOOSE i \in v6[b] : \A j \in v6[b] : i <= j) \in v6[b]
  BY <1>2
<1>4. Write!Group(b) \in SUBSET v6[b] /\ Write!Group(b) # {}
  BY <1>3 DEF Write!Group
<1>5. \A i, j \in Write!Group(b) : v4[i].val = v4[j].val
  BY DEF Write!Group
<1>6. /\ IsFiniteSet(Write!Group(b)) /\ Cardinality(Write!Group(b)) \in Nat
      /\ Cardinality(Write!Group(b)) # 0
      /\ Cardinality(Write!Group(b)) <= Cardinality(v6[b])
      /\ Cardinality(v6[b] \ Write!Group(b))
           = Cardinality(v6[b]) - Cardinality(Write!Group(b))
  BY <1>1, <1>4, WriteLess
<1>. QED
  BY <1>1, <1>4, <1>5, <1>6

(* The n-th id of a refused group is that of its n-th row.                 *)
LEMMA WriteFiled ==
    ASSUME NEW G \in SUBSET Nat, IsFiniteSet(G)
    PROVE  /\ \A n \in 1 .. Cardinality(G) :
                 (CHOOSE i \in G : Write!Pos(G, i) = n) \in G
           /\ \A j \in G : /\ Write!Pos(G, j) \in 1 .. Cardinality(G)
                           /\ (CHOOSE i \in G : Write!Pos(G, i) = Write!Pos(G, j)) = j
<1>1. ASSUME NEW n \in 1 .. Cardinality(G)
      PROVE  (CHOOSE i \in G : Write!Pos(G, i) = n) \in G
  <2>1. \E i \in G : Pos(G, i) = n
    BY PositionsTaken
  <2>. QED
    BY <2>1, WriteCounts
<1>2. ASSUME NEW j \in G
      PROVE  /\ Write!Pos(G, j) \in 1 .. Cardinality(G)
             /\ (CHOOSE i \in G : Write!Pos(G, i) = Write!Pos(G, j)) = j
  <2>1. Pos(G, j) \in 1 .. Cardinality(G)
    BY Positions
  <2>2. \A i \in G : Pos(G, i) = Pos(G, j) => i = j
    BY PositionsDiffer
  <2>3. \E i \in G : Pos(G, i) = Pos(G, j)
    OBVIOUS
  <2>. QED
    BY <2>1, <2>2, <2>3, WriteCounts
<1>. QED
  BY <1>1, <1>2

(* An answer leaves what is on the fail file, and a refusal adds the ids   *)
(* of its group.                                                           *)
LEMMA WriteOnFile ==
    ASSUME Write!WriteInv, NEW b \in DOMAIN v5, v5[b] = "running", v6[b] # {},
           NEW answer, v3' = Write!OnFile(b, answer)
    PROVE  /\ v3' \in Seq(WriteRecord) /\ Write!Listed \subseteq Write!Listed'
           /\ IF answer \in {"refused", "lost"}
              THEN \A i \in Write!Group(b) : v4[i].id \in Write!Listed'
              ELSE v3' = v3
<1> DEFINE G == Write!Group(b)
           k == Cardinality(G)
           row(n) == CHOOSE i \in G : Write!Pos(G, i) = n
           u == [n \in 1 .. k |-> v4[row(n)].id]
<1>1. v3 \in Seq(WriteRecord)
  BY DEF Write!WriteInv, Write!TypeOK
<1>2. G \in SUBSET Nat /\ IsFiniteSet(G) /\ k \in Nat /\ G \subseteq Write!RowsOf(b)
      /\ G \subseteq DOMAIN v4
  BY WriteGroup, WriteBatches
<1>3. \A i \in G : v4[i].id \in WriteRecord
  <2>1. v4 \in Seq([id : WriteRecord \cup {WriteUnreadable},
                    val : WriteValue \cup {Write!Reason}])
    BY DEF Write!WriteInv, Write!TypeOK
  <2>2. Write!Readable(b)
    BY DEF Write!WriteInv, Write!RowsHold
  <2>3. \A i \in G : v4[i].id # WriteUnreadable
    BY <1>2, <2>2 DEF Write!Readable
  <2>. HIDE DEF G
  <2>4. \A i \in DOMAIN v4 : v4[i] \in [id : WriteRecord \cup {WriteUnreadable},
                                         val : WriteValue \cup {Write!Reason}]
    BY <2>1, SequenceElements, Zenon
  <2>5. \A i \in G : v4[i] \in [id : WriteRecord \cup {WriteUnreadable},
                                val : WriteValue \cup {Write!Reason}]
    BY <1>2, <2>4
  <2>6. \A i \in G : v4[i].id \in WriteRecord \cup {WriteUnreadable}
    BY <2>5
  <2>. QED
    BY <2>3, <2>6
<1>. HIDE DEF G
<1>4. /\ \A n \in 1 .. k : row(n) \in G
      /\ \A j \in G : Write!Pos(G, j) \in 1 .. k /\ row(Write!Pos(G, j)) = j
  BY <1>2, WriteFiled
<1>. HIDE DEF row
<1>5. u \in Seq(WriteRecord) /\ DOMAIN u = 1 .. k
  <2>1. \A n \in 1 .. k : v4[row(n)].id \in WriteRecord
    BY <1>3, <1>4
  <2>. QED
    BY <1>2, <2>1
<1>6. \A i \in G : \E n \in DOMAIN u : u[n] = v4[i].id
  BY <1>4, <1>5
<1>. HIDE DEF u
<1>7. Len(v3) \in Nat /\ DOMAIN v3 = 1 .. Len(v3)
  BY <1>1
<1>8. /\ v3 \o u \in Seq(WriteRecord) /\ DOMAIN (v3 \o u) = 1 .. (Len(v3) + k)
      /\ \A n \in 1 .. Len(v3) : (v3 \o u)[n] = v3[n]
      /\ \A n \in 1 .. k : (v3 \o u)[Len(v3) + n] = u[n]
  BY <1>1, <1>2, <1>5
<1>9. CASE answer \in {"refused", "lost"}
  <2>1. v3' = v3 \o u
    <3>1. Write!Cardinality(G) = k
      BY WriteCounts
    <3>. QED
      BY <1>9, <3>1 DEF Write!OnFile, u, row, G
  <2>3. ASSUME NEW n \in DOMAIN v3 PROVE n \in DOMAIN v3' /\ v3'[n] = v3[n]
    <3>1. n \in 1 .. Len(v3) /\ n \in 1 .. (Len(v3) + k)
      BY <1>2, <1>7
    <3>. QED
      BY <1>8, <2>1, <3>1
  <2>4. ASSUME NEW n \in DOMAIN u
        PROVE  Len(v3) + n \in DOMAIN v3' /\ v3'[Len(v3) + n] = u[n]
    <3>1. n \in 1 .. k /\ Len(v3) + n \in 1 .. (Len(v3) + k)
      BY <1>2, <1>5, <1>7
    <3>. QED
      BY <1>8, <2>1, <3>1
  <2>5. /\ \A n \in DOMAIN v3 : \E m \in DOMAIN v3' : v3'[m] = v3[n]
        /\ \A n \in DOMAIN u : \E m \in DOMAIN v3' : v3'[m] = u[n]
    BY <2>3, <2>4
  <2>6. Write!Listed \subseteq Write!Listed'
    BY <2>5 DEF Write!Listed
  <2>7. \A i \in G : v4[i].id \in Write!Listed'
    BY <1>6, <2>5 DEF Write!Listed
  <2>. QED
    BY <1>8, <1>9, <2>1, <2>6, <2>7 DEF G
<1>10. CASE answer \notin {"refused", "lost"}
  <2>1. v3' = v3
    BY <1>10 DEF Write!OnFile
  <2>. QED
    BY <1>1, <1>10, <2>1 DEF Write!Listed
<1>. QED
  BY <1>9, <1>10

(* A batch that is still open is of a run that has not reported.           *)
LEMMA WriteOpenBatch ==
    ASSUME Write!WriteInv, NEW b \in DOMAIN v5, v5[b] \notin {"done", "cancelled"}
    PROVE  Write!Working /\ v10 = "none" /\ v9 # "idle" /\ v9 # "connect"
<1>1. Write!PhasesHold /\ Write!TypeOK
  BY DEF Write!WriteInv
<1>2. v9 # "idle"
  BY <1>1 DEF Write!PhasesHold, Write!NoLateWrite, Write!AllDone
<1>3. v9 # "connect"
  BY <1>1 DEF Write!PhasesHold
<1>. QED
  BY <1>1, <1>2, <1>3 DEF Write!PhasesHold, Write!TypeOK, Write!Working

(* Nothing is claimed before the run reports.                              *)
LEMMA WriteSilent ==
    ASSUME v10' \in {"none", "nothing to write"}
    PROVE  Write!SuccessIsWritten' /\ Write!NoRowForgotten'
BY DEF Write!SuccessIsWritten, Write!NoRowForgotten

(* The cut is that of the rows.                                            *)
LEMMA WriteSameCut ==
    ASSUME v4' = v4
    PROVE  /\ Write!Batches' = Write!Batches /\ Write!Ids' = Write!Ids
           /\ \A b : Write!RowsOf(b)' = Write!RowsOf(b)
           /\ \A b : Write!Readable(b)' <=> Write!Readable(b)
           /\ \A x : Write!Gets(x)' = Write!Gets(x)
<1>1. Write!Batches' = Write!Batches
  BY DEF Write!Batches
<1>2. \A b : Write!RowsOf(b)' = Write!RowsOf(b)
  BY DEF Write!RowsOf
<1>3. \A b : Write!Readable(b)' <=> Write!Readable(b)
  BY <1>2 DEF Write!Readable
<1>4. Write!Ids' = Write!Ids /\ \A x : Write!Gets(x)' = Write!Gets(x)
  BY DEF Write!Ids, Write!Gets
<1>. QED
  BY <1>1, <1>2, <1>3, <1>4

(* A row stays settled while nothing that settles it is taken back.        *)
LEMMA WriteStaysSettled ==
    ASSUME v4' = v4, v11 \subseteq v11', Write!Listed \subseteq Write!Listed',
           \A x \in WriteRecord : v2[x] \in Write!Gets(x) => v2'[x] \in Write!Gets(x)
    PROVE  \A i : Write!Settled(i) => Write!Settled(i)'
BY WriteSameCut DEF Write!Settled

(* What leaves the server, the fail file and the counts alone takes        *)
(* nothing back.                                                           *)
LEMMA WriteQuietlySettled ==
    ASSUME UNCHANGED <<v2, v3, v4, v11>>
    PROVE  \A i : Write!Settled(i) => Write!Settled(i)'
<1>1. Write!Listed' = Write!Listed
  BY DEF Write!Listed
<1>. QED
  BY <1>1, WriteStaysSettled

(* Types are kept by what changes only the stages of the batches.          *)
LEMMA WriteStages ==
    ASSUME Write!WriteInv, UNCHANGED <<v1, v2, v3, v4, v6, v7, v11, v12>>,
           DOMAIN v5' = DOMAIN v5,
           \A b \in DOMAIN v5 :
              v5'[b] \in {"unsent", "queued", "running", "done", "cancelled"},
           v8' \in BOOLEAN,
           v9' \in {"idle", "connect", "write", "cancel", "shutdown"},
           v10' \in {"none", "nothing to write", "success", "failed"}
    PROVE  Write!TypeOK'
<1>1. Write!TypeOK
  BY DEF Write!WriteInv
<1>2. /\ v1' \in WriteSources /\ v2' \in [WriteRecord -> WriteValue \cup {Write!Kept}]
      /\ v3' \in Seq(WriteRecord)
      /\ v4' \in Seq([id : WriteRecord \cup {WriteUnreadable},
                     val : WriteValue \cup {Write!Reason}])
      /\ DOMAIN v5' = DOMAIN v6' /\ DOMAIN v5' = DOMAIN v7'
      /\ v11' \subseteq DOMAIN v4' /\ v12' \in 0 .. WriteRuns
  BY <1>1 DEF Write!TypeOK
<1>3. \A b \in DOMAIN v5' :
         /\ v5'[b] \in {"unsent", "queued", "running", "done", "cancelled"}
         /\ v6'[b] \subseteq Write!RowsOf(b)' /\ v7'[b] \in 0 .. WriteBatch
  BY <1>1, WriteSameCut DEF Write!TypeOK
<1>. QED
  BY <1>2, <1>3, Zenon DEF Write!TypeOK

(***************************************************************************)
(* The steps, one by one.                                                  *)
(***************************************************************************)
(* Launch hands one batch to the pool.                                     *)
LEMMA WriteLaunch ==
    ASSUME Write!WriteInv, NEW b \in DOMAIN v5, Write!Launch(b)
    PROVE  Write!WriteInv'
<1>1. /\ v5[b] = "unsent" /\ v9 = "write" /\ v5' = [v5 EXCEPT ![b] = "queued"]
      /\ UNCHANGED <<v1, v2, v3, v4, v6, v7, v8, v9, v10, v11, v12>>
  BY DEF Write!Launch
<1>2. /\ DOMAIN v5' = DOMAIN v5 /\ v5'[b] = "queued"
      /\ \A c \in DOMAIN v5 \ {b} : v5'[c] = v5[c]
  BY <1>1
<1>3. Write!Working /\ v10' = "none"
  BY <1>1, WriteOpenBatch
<1>4. /\ Write!TypeOK /\ Write!PhasesHold /\ Write!CountsHold /\ Write!RowsHold
      /\ Write!BooksHold
  BY DEF Write!WriteInv
<1>5. Write!TypeOK'
  BY <1>1, <1>2, <1>4, WriteStages DEF Write!TypeOK
<1>6. Write!PhasesHold'
  BY <1>1, <1>2, <1>3, <1>4, WriteSameCut
  DEF Write!PhasesHold, Write!NoLateWrite, Write!Working
<1>7. Write!CountsHold'
  BY <1>1, <1>2, <1>4, WriteSameCut DEF Write!CountsHold
<1>8. Write!RowsHold'
  BY <1>1, <1>2, <1>4, WriteSameCut, WriteQuietlySettled DEF Write!RowsHold
<1>9. Write!BooksHold'
  BY <1>1, <1>3, <1>4 DEF Write!BooksHold, Write!Failures, Write!Working
<1>. QED
  BY <1>3, <1>5, <1>6, <1>7, <1>8, <1>9, WriteSilent DEF Write!WriteInv

(* A batch is done when all its rows have been answered for.               *)
LEMMA WriteEnd ==
    ASSUME Write!WriteInv, NEW b \in DOMAIN v5, Write!End(b)
    PROVE  Write!WriteInv'
<1>1. /\ v5[b] = "running" /\ v6[b] = {} /\ v5' = [v5 EXCEPT ![b] = "done"]
      /\ UNCHANGED <<v1, v2, v3, v4, v6, v7, v8, v9, v10, v11, v12>>
  BY DEF Write!End
<1>2. /\ DOMAIN v5' = DOMAIN v5 /\ v5'[b] = "done"
      /\ \A c \in DOMAIN v5 \ {b} : v5'[c] = v5[c]
  BY <1>1
<1>3. Write!Working /\ v10' = "none" /\ v9' # "idle" /\ v9' # "connect"
  BY <1>1, WriteOpenBatch
<1>4. /\ Write!TypeOK /\ Write!PhasesHold /\ Write!CountsHold /\ Write!RowsHold
      /\ Write!BooksHold
  BY DEF Write!WriteInv
<1>5. Write!TypeOK'
  BY <1>1, <1>2, <1>4, WriteStages DEF Write!TypeOK
<1>6. Write!PhasesHold'
  BY <1>1, <1>2, <1>3, <1>4, WriteSameCut
  DEF Write!PhasesHold, Write!NoLateWrite, Write!Working
<1>7. Write!CountsHold'
  BY <1>1, <1>2, <1>4, WriteSameCut DEF Write!CountsHold
<1>8. Write!RowsHold'
  <2>1. \A i \in Write!RowsOf(b) : Write!Settled(i)
    BY <1>1, <1>4 DEF Write!RowsHold
  <2>. QED
    BY <1>1, <1>2, <1>4, <2>1, WriteSameCut, WriteQuietlySettled DEF Write!RowsHold
<1>9. Write!BooksHold'
  BY <1>1, <1>3, <1>4 DEF Write!BooksHold, Write!Failures, Write!Working
<1>. QED
  BY <1>3, <1>5, <1>6, <1>7, <1>8, <1>9, WriteSilent DEF Write!WriteInv

(* Ctrl-C raises the flag before anything is cancelled.                    *)
LEMMA WriteInterrupt ==
    ASSUME Write!WriteInv, Write!Interrupt
    PROVE  Write!WriteInv'
<1>1. /\ v9 = "write" /\ v9' = "cancel" /\ v8' = TRUE
      /\ UNCHANGED <<v1, v2, v3, v4, v5, v6, v7, v10, v11, v12>>
  BY DEF Write!Interrupt
<1>2. /\ Write!TypeOK /\ Write!PhasesHold /\ Write!CountsHold /\ Write!RowsHold
      /\ Write!BooksHold
  BY DEF Write!WriteInv
<1>3. v10' = "none"
  BY <1>1, <1>2 DEF Write!PhasesHold
<1>4. Write!TypeOK'
  BY <1>1, <1>3, <1>2, WriteStages DEF Write!TypeOK
<1>5. Write!PhasesHold'
  BY <1>1, <1>3, <1>2, WriteSameCut
  DEF Write!PhasesHold, Write!NoLateWrite, Write!Working
<1>6. Write!CountsHold'
  BY <1>1, <1>2, WriteSameCut DEF Write!CountsHold
<1>7. Write!RowsHold'
  BY <1>1, <1>2, WriteSameCut, WriteQuietlySettled DEF Write!RowsHold
<1>8. Write!BooksHold'
  BY <1>1, <1>2 DEF Write!BooksHold, Write!Failures, Write!Working
<1>. QED
  BY <1>3, <1>4, <1>5, <1>6, <1>7, <1>8, WriteSilent DEF Write!WriteInv

(* Only batches that no thread has taken are cancelled.                    *)
LEMMA WriteCancel ==
    ASSUME Write!WriteInv, Write!Cancel
    PROVE  Write!WriteInv'
<1>1. /\ v9 = "cancel" /\ v9' = "shutdown"
      /\ v5' = [b \in DOMAIN v5 |->
                  IF v5[b] \in {"unsent", "queued"} THEN "cancelled" ELSE v5[b]]
      /\ UNCHANGED <<v1, v2, v3, v4, v6, v7, v8, v10, v11, v12>>
  BY DEF Write!Cancel
<1>2. /\ DOMAIN v5' = DOMAIN v5
      /\ \A b \in DOMAIN v5 :
            v5'[b] = v5[b] \/ (v5[b] # "done" /\ v5'[b] = "cancelled")
  BY <1>1
<1>3. /\ Write!TypeOK /\ Write!PhasesHold /\ Write!CountsHold /\ Write!RowsHold
      /\ Write!BooksHold
  BY DEF Write!WriteInv
<1>4. v10' = "none" /\ v8 /\ v8'
  BY <1>1, <1>3 DEF Write!PhasesHold
<1>5. Write!TypeOK'
  BY <1>1, <1>2, <1>4, <1>3, WriteStages DEF Write!TypeOK
<1>6. Write!PhasesHold'
  BY <1>1, <1>2, <1>4, <1>3, WriteSameCut
  DEF Write!PhasesHold, Write!NoLateWrite, Write!Working
<1>7. Write!CountsHold'
  BY <1>1, <1>2, <1>4, <1>3, WriteSameCut DEF Write!CountsHold
<1>8. Write!RowsHold'
  BY <1>1, <1>2, <1>4, <1>3, WriteSameCut, WriteQuietlySettled DEF Write!RowsHold
<1>9. Write!BooksHold'
  BY <1>1, <1>3 DEF Write!BooksHold, Write!Failures, Write!Working
<1>. QED
  BY <1>4, <1>5, <1>6, <1>7, <1>8, <1>9, WriteSilent DEF Write!WriteInv

(* A run that cannot start has no batches.                                 *)
LEMMA WriteNoStart ==
    ASSUME Write!WriteInv, Write!NoStart
    PROVE  Write!WriteInv'
<1>1. /\ v9 = "connect" /\ v9' = "idle" /\ v10' = "failed"
      /\ UNCHANGED <<v1, v2, v3, v4, v5, v6, v7, v8, v11, v12>>
  BY DEF Write!NoStart
<1>2. /\ Write!TypeOK /\ Write!PhasesHold
  BY DEF Write!WriteInv
<1>3. v5' = << >> /\ DOMAIN v5' = {}
  BY <1>1, <1>2 DEF Write!PhasesHold
<1>4. Write!TypeOK'
  BY <1>1, <1>2, WriteStages DEF Write!TypeOK
<1>5. Write!PhasesHold'
  BY <1>1, <1>3 DEF Write!PhasesHold, Write!NoLateWrite, Write!Working, Write!AllDone
<1>6. Write!CountsHold' /\ Write!RowsHold'
  BY <1>3 DEF Write!CountsHold, Write!RowsHold
<1>7. Write!BooksHold'
  BY <1>1 DEF Write!BooksHold, Write!Working
<1>8. Write!SuccessIsWritten' /\ Write!NoRowForgotten'
  BY <1>1, <1>3 DEF Write!SuccessIsWritten, Write!NoRowForgotten
<1>. QED
  BY <1>4, <1>5, <1>6, <1>7, <1>8 DEF Write!WriteInv

(* Nothing happens.                                                        *)
LEMMA WriteStill ==
    ASSUME Write!WriteInv, UNCHANGED Write!vars
    PROVE  Write!WriteInv'
<1>1. UNCHANGED <<v1, v2, v3, v4, v5, v6, v7, v8, v9, v10, v11, v12>>
  BY DEF Write!vars
<1>2. /\ Write!TypeOK /\ Write!PhasesHold /\ Write!CountsHold /\ Write!RowsHold
      /\ Write!BooksHold /\ Write!SuccessIsWritten /\ Write!NoRowForgotten
  BY DEF Write!WriteInv
<1>3. Write!TypeOK'
  BY <1>1, <1>2, WriteStages DEF Write!TypeOK
<1>4. Write!PhasesHold'
  BY <1>1, <1>2, WriteSameCut
  DEF Write!PhasesHold, Write!NoLateWrite, Write!Working, Write!AllDone
<1>5. Write!CountsHold'
  BY <1>1, <1>2, WriteSameCut DEF Write!CountsHold
<1>6. Write!RowsHold'
  BY <1>1, <1>2, WriteSameCut, WriteQuietlySettled DEF Write!RowsHold
<1>7. Write!BooksHold'
  BY <1>1, <1>2 DEF Write!BooksHold, Write!Failures, Write!Working
<1>8. Write!SuccessIsWritten'
  BY <1>1, <1>2, WriteSameCut DEF Write!SuccessIsWritten
<1>9. Write!Listed' = Write!Listed
  BY <1>1 DEF Write!Listed
<1>10. Write!NoRowForgotten'
  BY <1>1, <1>2, <1>9, WriteSameCut DEF Write!NoRowForgotten
<1>. QED
  BY <1>3, <1>4, <1>5, <1>6, <1>7, <1>8, <1>10 DEF Write!WriteInv

(* A new run forgets what the last one said.                               *)
LEMMA WriteRead ==
    ASSUME Write!WriteInv, Write!Read
    PROVE  Write!WriteInv'
<1>1. v9 = "idle" /\ v12 < WriteRuns /\ v12' = v12 + 1
  BY DEF Write!Read
<1>2. v4' \in {v1, Write!FailRows(TRUE), Write!FailRows(FALSE)}
  BY DEF Write!Read
<1>3. v5' = << >> /\ v6' = << >> /\ v7' = << >>
  BY DEF Write!Read
<1>4. /\ v8' = FALSE /\ v11' = {} /\ UNCHANGED <<v1, v2, v3>>
      /\ \/ v9' = "idle" /\ v10' = "nothing to write"
         \/ v9' = "connect" /\ v10' = "none"
  BY DEF Write!Read
<1>5. Write!TypeOK
  BY DEF Write!WriteInv
<1>6. v4' \in Seq([id : WriteRecord \cup {WriteUnreadable},
                   val : WriteValue \cup {Write!Reason}])
  <2>1. v1 \in Seq([id : WriteRecord \cup {WriteUnreadable},
                    val : WriteValue \cup {Write!Reason}])
    BY <1>5, WriteConstants DEF Write!TypeOK
  <2>2. v3 \in Seq(WriteRecord)
    BY <1>5 DEF Write!TypeOK
  <2>3. Write!FailRows(TRUE) \in Seq([id : WriteRecord \cup {WriteUnreadable},
                                      val : WriteValue \cup {Write!Reason}])
    <3>1. Write!FailRows(TRUE)
            = [i \in 1 .. Len(v3) |-> [id |-> v3[i], val |-> Write!Reason]]
      BY <2>2 DEF Write!FailRows
    <3>2. \A i \in 1 .. Len(v3) :
             [id |-> v3[i], val |-> Write!Reason]
               \in [id : WriteRecord \cup {WriteUnreadable},
                    val : WriteValue \cup {Write!Reason}]
      BY <2>2
    <3>3. Len(v3) \in Nat
      BY <2>2
    <3>4. /\ DOMAIN Write!FailRows(TRUE) = 1 .. Len(v3)
          /\ Write!FailRows(TRUE) = [i \in 1 .. Len(v3) |-> Write!FailRows(TRUE)[i]]
          /\ \A i \in 1 .. Len(v3) :
                Write!FailRows(TRUE)[i] = [id |-> v3[i], val |-> Write!Reason]
      BY <3>1, Zenon
    <3>5. \A i \in 1 .. Len(v3) :
             Write!FailRows(TRUE)[i] \in [id : WriteRecord \cup {WriteUnreadable},
                                          val : WriteValue \cup {Write!Reason}]
      BY <3>2, <3>4
    <3>. QED
      BY <3>3, <3>4, <3>5, SequenceOf, Zenon
  <2>4. Write!FailRows(FALSE) = << >>
    BY DEF Write!FailRows
  <2>. QED
    BY <1>2, <2>1, <2>3, <2>4, SequenceEmpty, Zenon
<1>7. v12' \in 0 .. WriteRuns
  <2>2. WriteRuns \in Nat /\ v12 \in 0 .. WriteRuns
    BY <1>5, WriteConstants DEF Write!TypeOK
  <2>1. v12 \in Nat /\ WriteRuns \in Nat
    BY <2>2
  <2>. QED
    BY <1>1, <2>1
<1>8. DOMAIN v5' = {} /\ DOMAIN v6' = {} /\ DOMAIN v7' = {}
  BY <1>3
<1>9. Write!TypeOK'
  <2>1. /\ v1' \in WriteSources /\ v2' \in [WriteRecord -> WriteValue \cup {Write!Kept}]
        /\ v3' \in Seq(WriteRecord)
    BY <1>4, <1>5 DEF Write!TypeOK
  <2>. QED
    BY <1>4, <1>6, <1>7, <1>8, <2>1 DEF Write!TypeOK
<1>10. Write!PhasesHold'
  BY <1>3, <1>4, <1>8 DEF Write!PhasesHold, Write!NoLateWrite, Write!Working, Write!AllDone
<1>11. Write!CountsHold' /\ Write!RowsHold'
  BY <1>8 DEF Write!CountsHold, Write!RowsHold
<1>12. Write!BooksHold'
  BY <1>4 DEF Write!BooksHold, Write!Working
<1>. QED
  BY <1>4, <1>9, <1>10, <1>11, <1>12, WriteSilent DEF Write!WriteInv

(* All rows are left, and nothing is counted.                              *)
LEMMA WriteOpen ==
    ASSUME Write!WriteInv, Write!Open
    PROVE  Write!WriteInv'
<1>1. /\ v9 = "connect" /\ v9' = "write" /\ v3' = << >>
      /\ v5' = [b \in Write!Batches |-> "unsent"]
      /\ v6' = [b \in Write!Batches |-> Write!RowsOf(b)]
      /\ v7' = [b \in Write!Batches |-> 0]
      /\ UNCHANGED <<v1, v2, v4, v8, v10, v11, v12>>
  BY DEF Write!Open
<1>2. Write!TypeOK /\ Write!PhasesHold
  BY DEF Write!WriteInv
<1>3. v10' = "none"
  BY <1>1, <1>2 DEF Write!PhasesHold
<1>4. \A b \in Write!Batches :
         /\ Cardinality(Write!RowsOf(b)) \in Nat
         /\ Cardinality(Write!RowsOf(b)) \in 1 .. WriteBatch
  BY <1>2, WriteRows DEF Write!TypeOK
<1>5. Write!TypeOK'
  <2>1. 0 \in 0 .. WriteBatch
    BY WriteConstants
  <2>2. << >> \in Seq(WriteRecord)
    OBVIOUS
  <2>3. /\ v1' \in WriteSources /\ v2' \in [WriteRecord -> WriteValue \cup {Write!Kept}]
        /\ v4' \in Seq([id : WriteRecord \cup {WriteUnreadable},
                       val : WriteValue \cup {Write!Reason}])
        /\ v8' \in BOOLEAN /\ v11' \subseteq DOMAIN v4' /\ v12' \in 0 .. WriteRuns
    BY <1>1, <1>2, Zenon DEF Write!TypeOK
  <2>4. DOMAIN v5' = Write!Batches /\ DOMAIN v6' = Write!Batches /\ DOMAIN v7' = Write!Batches
    BY <1>1
  <2>5. \A b \in DOMAIN v5' :
           /\ v5'[b] \in {"unsent", "queued", "running", "done", "cancelled"}
           /\ v6'[b] \subseteq Write!RowsOf(b)' /\ v7'[b] \in 0 .. WriteBatch
    BY <1>1, <2>1, WriteSameCut
  <2>6. /\ v9' \in {"idle", "connect", "write", "cancel", "shutdown"}
        /\ v10' \in {"none", "nothing to write", "success", "failed"}
        /\ v3' \in Seq(WriteRecord)
    BY <1>1, <1>3, <2>2
  <2>. QED
    BY <2>3, <2>4, <2>5, <2>6, Zenon DEF Write!TypeOK
<1>6. Write!PhasesHold'
  BY <1>1, <1>3, WriteSameCut
  DEF Write!PhasesHold, Write!NoLateWrite, Write!Working
<1>7. Write!CountsHold'
  <2>1. ASSUME NEW b \in Write!Batches
        PROVE  /\ v5'[b] = "unsent"
               /\ v7'[b] <= Cardinality(Write!RowsOf(b)')
               /\ v7'[b] + Cardinality(v6'[b]) <= Cardinality(Write!RowsOf(b)')
    <3>1. v5'[b] = "unsent" /\ v7'[b] = 0 /\ v6'[b] = Write!RowsOf(b)
      BY <1>1
    <3>2. Cardinality(Write!RowsOf(b)) \in Nat /\ Write!RowsOf(b)' = Write!RowsOf(b)
      BY <1>1, <1>4, WriteSameCut
    <3>. QED
      BY <3>1, <3>2
  <2>2. DOMAIN v5' = Write!Batches
    BY <1>1
  <2>. QED
    BY <2>1, <2>2, WriteCounts DEF Write!CountsHold
<1>8. Write!RowsHold'
  <2>1. \A b \in DOMAIN v5' : v5'[b] = "unsent" /\ v6'[b] = Write!RowsOf(b)'
    BY <1>1, WriteSameCut
  <2>. QED
    BY <2>1 DEF Write!RowsHold
<1>9. Write!BooksHold'
  BY <1>1, <1>2 DEF Write!BooksHold, Write!PhasesHold
<1>. QED
  BY <1>3, <1>5, <1>6, <1>7, <1>8, <1>9, WriteSilent DEF Write!WriteInv

(* A batch starts, or is counted as a whole, or is skipped after the       *)
(* abort.                                                                  *)
LEMMA WriteBegin ==
    ASSUME Write!WriteInv, NEW b \in DOMAIN v5, Write!Begin(b)
    PROVE  Write!WriteInv'
<1>1. /\ v5[b] = "queued"
      /\ UNCHANGED <<v1, v2, v3, v4, v6, v8, v9, v10, v12>>
  BY DEF Write!Begin
<1>2. /\ Write!TypeOK /\ Write!PhasesHold /\ Write!CountsHold /\ Write!RowsHold
      /\ Write!BooksHold
  BY DEF Write!WriteInv
<1>3. Write!Working /\ v10' = "none" /\ v9' # "idle" /\ v9' # "connect"
  BY <1>1, WriteOpenBatch
<1>4. /\ v6[b] = Write!RowsOf(b) /\ v7[b] = 0
      /\ Cardinality(Write!RowsOf(b)) \in Nat \ {0}
      /\ Cardinality(Write!RowsOf(b)) \in 0 .. WriteBatch
      /\ Write!RowsOf(b) \subseteq DOMAIN v4
  <2>1. v6[b] = Write!RowsOf(b)
    BY <1>1, <1>2 DEF Write!RowsHold
  <2>2. /\ Cardinality(Write!RowsOf(b)) \in Nat
        /\ Cardinality(Write!RowsOf(b)) \in 1 .. WriteBatch
        /\ v7[b] \in Int /\ v7[b] >= 0
        /\ v7[b] + Cardinality(v6[b]) <= Cardinality(Write!RowsOf(b))
        /\ Write!RowsOf(b) \subseteq DOMAIN v4
    BY <1>1, WriteBatches
  <2>3. WriteBatch \in Nat
    BY WriteConstants
  <2>. QED
    BY <2>1, <2>2, <2>3
<1>5. CASE v8 \/ ~Write!Readable(b)
  <2>1. /\ v5' = [v5 EXCEPT ![b] = "done"]
        /\ v7' = [v7 EXCEPT ![b] = IF v8 THEN 0 ELSE Write!Cardinality(Write!RowsOf(b))]
        /\ v11' = IF v8 THEN v11 ELSE v11 \cup Write!RowsOf(b)
    BY <1>5 DEF Write!Begin
  <2>2. /\ DOMAIN v5' = DOMAIN v5 /\ v5'[b] = "done" /\ DOMAIN v7' = DOMAIN v7
        /\ \A c \in DOMAIN v5 \ {b} : v5'[c] = v5[c] /\ v7'[c] = v7[c]
    BY <2>1
  <2>3. /\ v8 => v7'[b] = 0 /\ v11' = v11
        /\ ~v8 => /\ v7'[b] = Cardinality(Write!RowsOf(b))
                  /\ v11' = v11 \cup Write!RowsOf(b)
    <3>1. b \in DOMAIN v7
      BY WriteBatches
    <3>2. v7'[b] = IF v8 THEN 0 ELSE Write!Cardinality(Write!RowsOf(b))
      BY <2>1, <3>1
    <3>. QED
      BY <2>1, <3>2, WriteCounts
  <2>4. v7'[b] \in 0 .. WriteBatch /\ v11' \subseteq DOMAIN v4 /\ v11 \subseteq v11'
    <3>1. v7'[b] \in 0 .. WriteBatch
      BY <1>4, <2>3, WriteConstants
    <3>2. v11 \subseteq DOMAIN v4
      BY <1>2 DEF Write!TypeOK
    <3>. QED
      BY <1>4, <2>1, <3>1, <3>2
  <2>5. Write!TypeOK'
    <3>1. /\ v1' \in WriteSources /\ v2' \in [WriteRecord -> WriteValue \cup {Write!Kept}]
          /\ v3' \in Seq(WriteRecord)
          /\ v4' \in Seq([id : WriteRecord \cup {WriteUnreadable},
                         val : WriteValue \cup {Write!Reason}])
          /\ v8' \in BOOLEAN /\ v12' \in 0 .. WriteRuns
          /\ v9' \in {"idle", "connect", "write", "cancel", "shutdown"}
          /\ v10' \in {"none", "nothing to write", "success", "failed"}
      BY <1>1, <1>2, Zenon DEF Write!TypeOK
    <3>2. /\ DOMAIN v5' = DOMAIN v6' /\ DOMAIN v5' = DOMAIN v7' /\ v11' \subseteq DOMAIN v4'
      BY <1>1, <1>2, <2>2, <2>4 DEF Write!TypeOK
    <3>3. \A c \in DOMAIN v5' :
             /\ v5'[c] \in {"unsent", "queued", "running", "done", "cancelled"}
             /\ v6'[c] \subseteq Write!RowsOf(c)' /\ v7'[c] \in 0 .. WriteBatch
      <4>1. \A c \in DOMAIN v5 :
               /\ v5[c] \in {"unsent", "queued", "running", "done", "cancelled"}
               /\ v6[c] \subseteq Write!RowsOf(c) /\ v7[c] \in 0 .. WriteBatch
        BY <1>2 DEF Write!TypeOK
      <4>2. \A c : v6'[c] = v6[c] /\ Write!RowsOf(c)' = Write!RowsOf(c)
        BY <1>1, WriteSameCut
      <4>3. ASSUME NEW c \in DOMAIN v5, c # b
            PROVE  v5'[c] = v5[c] /\ v7'[c] = v7[c]
        BY <2>2, <4>3
      <4>. QED
        BY <2>2, <2>4, <4>1, <4>2, <4>3
    <3>. QED
      BY <3>1, <3>2, <3>3, Zenon DEF Write!TypeOK
  <2>6. Write!PhasesHold'
    BY <1>1, <1>2, <1>3, <2>2, WriteSameCut
    DEF Write!PhasesHold, Write!NoLateWrite, Write!Working
  <2>7. Write!CountsHold'
    <3>1. v7'[b] <= Cardinality(Write!RowsOf(b))
      BY <1>4, <2>3
    <3>. QED
      BY <1>1, <1>2, <2>2, <3>1, WriteSameCut, WriteCounts DEF Write!CountsHold
  <2>8. \A i : Write!Settled(i) => Write!Settled(i)'
    <3>1. Write!Listed' = Write!Listed /\ v2' = v2 /\ v4' = v4
      BY <1>1 DEF Write!Listed
    <3>. QED
      BY <2>4, <3>1, WriteStaysSettled
  <2>9. ~v8 => \A i \in Write!RowsOf(b) : Write!Settled(i)'
    BY <2>3 DEF Write!Settled
  <2>10. Write!RowsHold'
    BY <1>1, <1>2, <2>2, <2>8, <2>9, WriteSameCut DEF Write!RowsHold
  <2>11. Write!BooksHold'
    <3>. SUFFICES ASSUME Write!Failures' = {} PROVE v3' = << >> /\ v11' = {}
      BY DEF Write!BooksHold
    <3>1. b \in DOMAIN v7'
      BY <2>2, WriteBatches
    <3>2. v7'[b] = 0
      BY <3>1 DEF Write!Failures
    <3>3. v8
      BY <1>4, <2>3, <3>2
    <3>4. Write!Failures = {}
      <4>1. \A c \in DOMAIN v7 : v7[c] = 0
        <5>1. DOMAIN v7 = DOMAIN v5
          BY <1>2 DEF Write!TypeOK
        <5>2. \A c \in DOMAIN v7' : v7'[c] = 0
          BY DEF Write!Failures
        <5>. QED
          BY <1>4, <2>2, <5>1, <5>2
      <4>. QED
        BY <4>1 DEF Write!Failures
    <3>. QED
      BY <1>1, <1>2, <1>3, <2>3, <3>3, <3>4 DEF Write!BooksHold
  <2>. QED
    BY <1>3, <2>5, <2>6, <2>7, <2>10, <2>11, WriteSilent DEF Write!WriteInv
<1>6. CASE ~(v8 \/ ~Write!Readable(b))
  <2>1. v5' = [v5 EXCEPT ![b] = "running"] /\ v7' = v7 /\ v11' = v11 /\ Write!Readable(b)
    BY <1>6 DEF Write!Begin
  <2>2. /\ DOMAIN v5' = DOMAIN v5 /\ v5'[b] = "running"
        /\ \A c \in DOMAIN v5 \ {b} : v5'[c] = v5[c]
    BY <2>1
  <2>3. Write!TypeOK'
    BY <1>1, <1>2, <2>1, <2>2, WriteStages DEF Write!TypeOK
  <2>4. Write!PhasesHold'
    BY <1>1, <1>2, <1>3, <2>1, <2>2, WriteSameCut
    DEF Write!PhasesHold, Write!NoLateWrite, Write!Working
  <2>5. Write!CountsHold'
    BY <1>1, <1>2, <2>1, <2>2, WriteSameCut DEF Write!CountsHold
  <2>6. \A i : Write!Settled(i) => Write!Settled(i)'
    BY <1>1, <2>1, WriteQuietlySettled
  <2>7. Write!RowsHold'
    <3>1. Write!RowsOf(b) \ v6[b] = {}
      BY <1>4
    <3>. QED
      BY <1>1, <1>2, <2>1, <2>2, <2>6, <3>1, WriteSameCut DEF Write!RowsHold
  <2>8. Write!BooksHold'
    BY <1>1, <1>2, <1>3, <2>1 DEF Write!BooksHold, Write!Failures, Write!Working
  <2>. QED
    BY <1>3, <2>3, <2>4, <2>5, <2>7, <2>8, WriteSilent DEF Write!WriteInv
<1>. QED
  BY <1>5, <1>6

(* A record that is written gets what one of its rows gives it.            *)
LEMMA WriteValues ==
    ASSUME Write!WriteInv, NEW b \in DOMAIN v5, v6[b] # {},
           NEW answer, Write!Write(b, answer)
    PROVE  /\ v2' \in [WriteRecord -> WriteValue \cup {Write!Kept}]
           /\ \A x \in WriteRecord :
                 v2[x] \in Write!Gets(x) => v2'[x] \in Write!Gets(x)
           /\ answer = "done" => \A i \in Write!Group(b) :
                 v4[i].id \in WriteRecord => v2'[v4[i].id] \in Write!Gets(v4[i].id)
<1> DEFINE G == Write!Group(b)
           given == v4[CHOOSE i \in G : TRUE].val
<1>1. PICK done \in BOOLEAN :
         /\ answer = "done" => done
         /\ Write!Reason \in {v4[i].val : i \in G} => ~done
         /\ v2' = [x \in WriteRecord |-> IF done /\ x \in Write!IdsOf(b) THEN given ELSE v2[x]]
  BY Zenon DEF Write!Write
<1>2. /\ v2 \in [WriteRecord -> WriteValue \cup {Write!Kept}]
      /\ v4 \in Seq([id : WriteRecord \cup {WriteUnreadable},
                    val : WriteValue \cup {Write!Reason}])
  BY DEF Write!WriteInv, Write!TypeOK
<1>3. G # {} /\ G \subseteq DOMAIN v4 /\ \A i, j \in G : v4[i].val = v4[j].val
  BY WriteGroup, WriteBatches
<1>. HIDE DEF G
<1>4. (CHOOSE i \in G : TRUE) \in G
  BY <1>3
<1>5. \A i \in G : v4[i].val = given
  BY <1>3, <1>4
<1>6. given \in WriteValue \cup {Write!Reason}
  <2>1. \A i \in DOMAIN v4 : v4[i] \in [id : WriteRecord \cup {WriteUnreadable},
                                       val : WriteValue \cup {Write!Reason}]
    BY <1>2, SequenceElements, Zenon
  <2>. QED
    BY <1>3, <1>4, <2>1
<1>7. given \in {v4[i].val : i \in G}
  BY <1>4
<1>. HIDE DEF given
<1>8. done => given \in WriteValue
  BY <1>1, <1>6, <1>7
<1>9. \A x \in Write!IdsOf(b) : given \in Write!Gets(x)
  <2>1. ASSUME NEW x \in Write!IdsOf(b) PROVE given \in Write!Gets(x)
    <3>1. PICK i \in G : x = v4[i].id
      BY DEF Write!IdsOf, G
    <3>2. i \in DOMAIN v4 /\ v4[i].val = given
      BY <1>3, <1>5
    <3>. QED
      BY <3>1, <3>2 DEF Write!Gets
  <2>. QED
    BY <2>1
<1>10. v2' \in [WriteRecord -> WriteValue \cup {Write!Kept}]
  BY <1>1, <1>2, <1>8
<1>11. \A x \in WriteRecord : v2[x] \in Write!Gets(x) => v2'[x] \in Write!Gets(x)
  BY <1>1, <1>9
<1>12. ASSUME answer = "done", NEW i \in G, v4[i].id \in WriteRecord
       PROVE  v2'[v4[i].id] \in Write!Gets(v4[i].id)
  <2>1. v4[i].id \in Write!IdsOf(b)
    BY DEF Write!IdsOf, G
  <2>2. v2'[v4[i].id] = given
    BY <1>1, <1>12, <2>1
  <2>. QED
    BY <1>9, <2>1, <2>2
<1>. QED
  BY <1>10, <1>11, <1>12 DEF G

(* Each answer settles the rows of its group, and counts them unless they  *)
(* are written.                                                            *)
LEMMA WriteWrite ==
    ASSUME Write!WriteInv, NEW b \in DOMAIN v5,
           NEW answer \in {"done", "refused", "lost", "garbled"}, Write!Write(b, answer)
    PROVE  Write!WriteInv'
<1> DEFINE G == Write!Group(b)
           more == IF Write!Counted(answer) THEN Cardinality(G) ELSE 0
<1>1. /\ v5[b] = "running" /\ v6[b] # {} /\ v3' = Write!OnFile(b, answer)
      /\ UNCHANGED <<v1, v4, v5, v8, v9, v10, v12>>
  BY DEF Write!Write
<1>2. /\ Write!TypeOK /\ Write!PhasesHold /\ Write!CountsHold /\ Write!RowsHold
      /\ Write!BooksHold
  BY DEF Write!WriteInv
<1>3. Write!Working /\ v10' = "none" /\ v9' # "idle" /\ v9' # "connect"
  BY <1>1, WriteOpenBatch
<1>4. /\ G \in SUBSET v6[b] /\ Cardinality(G) \in Nat \ {0}
      /\ Cardinality(G) <= Cardinality(v6[b])
      /\ Cardinality(v6[b] \ G) = Cardinality(v6[b]) - Cardinality(G)
  BY <1>1, WriteGroup
<1>5. /\ b \in DOMAIN v6 /\ b \in DOMAIN v7 /\ v7[b] \in Int /\ v7[b] >= 0
      /\ Cardinality(v6[b]) \in Nat /\ Cardinality(Write!RowsOf(b)) \in Nat
      /\ Cardinality(Write!RowsOf(b)) <= WriteBatch
      /\ v7[b] + Cardinality(v6[b]) <= Cardinality(Write!RowsOf(b))
      /\ v6[b] \subseteq Write!RowsOf(b) /\ Write!RowsOf(b) \subseteq DOMAIN v4
      /\ WriteBatch \in Nat
  BY <1>1, WriteBatches, WriteConstants
<1>6. /\ v6' = [v6 EXCEPT ![b] = @ \ G]
      /\ v7' = [v7 EXCEPT ![b] = IF Write!Counted(answer) THEN @ + Write!Cardinality(G)
                                 ELSE @]
      /\ v11' = IF answer = "garbled" THEN v11 \cup G ELSE v11
  BY DEF Write!Write
<1>7. /\ v2' \in [WriteRecord -> WriteValue \cup {Write!Kept}]
      /\ \A x \in WriteRecord : v2[x] \in Write!Gets(x) => v2'[x] \in Write!Gets(x)
      /\ answer = "done" => \A i \in G :
            v4[i].id \in WriteRecord => v2'[v4[i].id] \in Write!Gets(v4[i].id)
  BY <1>1, WriteValues
<1>8. /\ v3' \in Seq(WriteRecord) /\ Write!Listed \subseteq Write!Listed'
      /\ answer \in {"refused", "lost"} => \A i \in G : v4[i].id \in Write!Listed'
      /\ answer \notin {"refused", "lost"} => v3' = v3
  BY <1>1, WriteOnFile
<1>. HIDE DEF G
<1>9. /\ more \in Nat /\ more <= Cardinality(G)
      /\ Write!Counted(answer) => more > 0
      /\ ~Write!Counted(answer) => more = 0
  BY <1>4
<1>. HIDE DEF more
<1>10. v6'[b] = v6[b] \ G /\ v7'[b] = v7[b] + more
  <2>1. v6'[b] = v6[b] \ G
    BY <1>5, <1>6
  <2>2. v7'[b] = IF Write!Counted(answer) THEN v7[b] + Write!Cardinality(G) ELSE v7[b]
    BY <1>5, <1>6
  <2>. QED
    BY <1>5, <2>1, <2>2, WriteCounts DEF more
<1>11. /\ DOMAIN v6' = DOMAIN v6 /\ DOMAIN v7' = DOMAIN v7
       /\ \A c \in DOMAIN v5 \ {b} : v6'[c] = v6[c] /\ v7'[c] = v7[c]
  BY <1>2, <1>6 DEF Write!TypeOK
<1>12. /\ v7'[b] + Cardinality(v6'[b]) <= Cardinality(Write!RowsOf(b))
       /\ v7'[b] <= Cardinality(Write!RowsOf(b)) /\ v7'[b] \in 0 .. WriteBatch
  <2>1. /\ v7'[b] + Cardinality(v6'[b])
             = v7[b] + more + Cardinality(v6[b]) - Cardinality(G)
        /\ v7'[b] \in Int /\ v7'[b] >= 0
    BY <1>4, <1>5, <1>9, <1>10
  <2>2. v7'[b] + Cardinality(v6'[b]) <= Cardinality(Write!RowsOf(b))
    BY <1>4, <1>5, <1>9, <2>1
  <2>3. v7'[b] <= Cardinality(Write!RowsOf(b))
    BY <1>4, <1>5, <1>9, <1>10
  <2>. QED
    BY <1>5, <2>1, <2>2, <2>3
<1>13. Write!TypeOK'
  <2>1. /\ v1' \in WriteSources
        /\ v4' \in Seq([id : WriteRecord \cup {WriteUnreadable},
                       val : WriteValue \cup {Write!Reason}])
        /\ v8' \in BOOLEAN /\ v12' \in 0 .. WriteRuns
        /\ v9' \in {"idle", "connect", "write", "cancel", "shutdown"}
        /\ v10' \in {"none", "nothing to write", "success", "failed"}
    BY <1>1, <1>2, Zenon DEF Write!TypeOK
  <2>2. DOMAIN v5' = DOMAIN v6' /\ DOMAIN v5' = DOMAIN v7'
    BY <1>1, <1>2, <1>11 DEF Write!TypeOK
  <2>3. v11' \subseteq DOMAIN v4'
    <3>1. v11 \subseteq DOMAIN v4
      BY <1>2 DEF Write!TypeOK
    <3>. QED
      BY <1>1, <1>4, <1>5, <1>6, <3>1
  <2>4. \A c \in DOMAIN v5' :
           /\ v5'[c] \in {"unsent", "queued", "running", "done", "cancelled"}
           /\ v6'[c] \subseteq Write!RowsOf(c)' /\ v7'[c] \in 0 .. WriteBatch
    <3>1. \A c \in DOMAIN v5 :
             /\ v5[c] \in {"unsent", "queued", "running", "done", "cancelled"}
             /\ v6[c] \subseteq Write!RowsOf(c) /\ v7[c] \in 0 .. WriteBatch
      BY <1>2 DEF Write!TypeOK
    <3>2. \A c : v5'[c] = v5[c] /\ Write!RowsOf(c)' = Write!RowsOf(c)
      BY <1>1, WriteSameCut
    <3>3. v6'[b] \subseteq Write!RowsOf(b)
      BY <1>5, <1>10
    <3>4. DOMAIN v5' = DOMAIN v5
      BY <1>1
    <3>. QED
      BY <1>11, <1>12, <3>1, <3>2, <3>3, <3>4
  <2>. QED
    BY <1>7, <1>8, <2>1, <2>2, <2>3, <2>4, Zenon DEF Write!TypeOK
<1>14. Write!PhasesHold'
  BY <1>1, <1>2, <1>3, WriteSameCut DEF Write!PhasesHold, Write!NoLateWrite, Write!Working
<1>15. Write!CountsHold'
  <2>1. \A c \in DOMAIN v5 :
           /\ v7[c] <= Cardinality(Write!RowsOf(c))
           /\ v5[c] # "done" => v7[c] + Cardinality(v6[c]) <= Cardinality(Write!RowsOf(c))
           /\ v5[c] = "cancelled" => v8
    BY <1>2, WriteCounts DEF Write!CountsHold
  <2>2. \A c \in DOMAIN v5' :
           /\ v7'[c] <= Cardinality(Write!RowsOf(c)')
           /\ v5'[c] # "done" =>
                 v7'[c] + Cardinality(v6'[c]) <= Cardinality(Write!RowsOf(c)')
           /\ v5'[c] = "cancelled" => v8'
    BY <1>1, <1>11, <1>12, <2>1, WriteSameCut
  <2>. QED
    BY <2>2, WriteCounts DEF Write!CountsHold
<1>16. \A i : Write!Settled(i) => Write!Settled(i)'
  <2>1. v11 \subseteq v11'
    BY <1>6
  <2>. QED
    BY <1>1, <1>7, <1>8, <2>1, WriteStaysSettled
<1>17. ASSUME NEW i \in G PROVE Write!Settled(i)'
  <2>1. CASE answer = "garbled"
    BY <1>6, <2>1 DEF Write!Settled
  <2>2. CASE answer \in {"refused", "lost"}
    BY <1>1, <1>8, <2>2 DEF Write!Settled
  <2>3. CASE answer = "done"
    <3>1. v4[i].id \in WriteRecord
      <4>1. v4 \in Seq([id : WriteRecord \cup {WriteUnreadable},
                        val : WriteValue \cup {Write!Reason}])
        BY <1>2 DEF Write!TypeOK
      <4>2. \A j \in DOMAIN v4 : v4[j] \in [id : WriteRecord \cup {WriteUnreadable},
                                           val : WriteValue \cup {Write!Reason}]
        BY <4>1, SequenceElements, Zenon
      <4>3. i \in Write!RowsOf(b) /\ i \in DOMAIN v4
        BY <1>4, <1>5
      <4>4. v4[i].id # WriteUnreadable
        BY <1>1, <1>2, <4>3 DEF Write!RowsHold, Write!Readable
      <4>. QED
        BY <4>2, <4>3, <4>4
    <3>2. v2'[v4[i].id] \in Write!Gets(v4[i].id)
      BY <1>7, <2>3, <3>1
    <3>. QED
      BY <1>1, <3>1, <3>2, WriteSameCut DEF Write!Settled
  <2>. QED
    BY <2>1, <2>2, <2>3
<1>18. Write!RowsHold'
  <2>1. \A i \in Write!RowsOf(b) \ v6'[b] : Write!Settled(i)'
    <3>1. \A i \in Write!RowsOf(b) \ v6[b] : Write!Settled(i)
      BY <1>1, <1>2 DEF Write!RowsHold
    <3>. QED
      BY <1>10, <1>16, <1>17, <3>1
  <2>. QED
    BY <1>1, <1>2, <1>11, <1>16, <2>1, WriteSameCut DEF Write!RowsHold
<1>19. Write!BooksHold'
  <2>. SUFFICES ASSUME Write!Failures' = {} PROVE v3' = << >> /\ v11' = {}
    BY DEF Write!BooksHold
  <2>1. \A c \in DOMAIN v7 : v7'[c] = 0
    BY <1>11 DEF Write!Failures
  <2>2. v7'[b] = 0
    BY <1>5, <2>1
  <2>3. more = 0 /\ v7[b] = 0
    BY <1>5, <1>9, <1>10, <2>2
  <2>4. answer = "done"
    BY <1>9, <2>3 DEF Write!Counted
  <2>5. Write!Failures = {}
    <3>1. DOMAIN v7 = DOMAIN v5
      BY <1>2 DEF Write!TypeOK
    <3>2. \A c \in DOMAIN v7 : v7[c] = 0
      BY <1>11, <2>1, <2>3, <3>1
    <3>. QED
      BY <3>2 DEF Write!Failures
  <2>6. v3' = v3 /\ v11' = v11
    BY <1>6, <1>8, <2>4
  <2>. QED
    BY <1>2, <1>3, <2>5, <2>6 DEF Write!BooksHold
<1>. QED
  BY <1>3, <1>13, <1>14, <1>15, <1>18, <1>19, WriteSilent DEF Write!WriteInv

(* When all batches are done, every row is settled or the run was aborted. *)
LEMMA WriteReturn ==
    ASSUME Write!WriteInv, Write!Return
    PROVE  Write!WriteInv'
<1>1. /\ v9 \in {"write", "shutdown"} /\ Write!AllDone /\ v9' = "idle"
      /\ v10' = IF ~v8 /\ Write!Failures = {} THEN "success" ELSE "failed"
      /\ UNCHANGED <<v1, v2, v3, v4, v5, v6, v7, v8, v11, v12>>
  BY DEF Write!Return
<1>2. /\ Write!TypeOK /\ Write!PhasesHold /\ Write!CountsHold /\ Write!RowsHold
      /\ Write!BooksHold
  BY DEF Write!WriteInv
<1>3. Write!Working /\ DOMAIN v5 = Write!Batches
  BY <1>1, <1>2 DEF Write!PhasesHold, Write!Working
<1>4. ASSUME ~v8, NEW i \in DOMAIN v4 PROVE Write!Settled(i)
  <2>1. PICK b \in Write!Batches : i \in Write!RowsOf(b)
    BY <1>2, WriteRows DEF Write!TypeOK
  <2>2. v5[b] = "done"
    BY <1>1, <1>2, <1>3, <1>4 DEF Write!AllDone, Write!CountsHold
  <2>. QED
    BY <1>2, <1>3, <1>4, <2>1, <2>2 DEF Write!RowsHold
<1>5. Write!TypeOK'
  BY <1>1, <1>2, WriteStages DEF Write!TypeOK
<1>6. Write!PhasesHold'
  BY <1>1, <1>2, WriteSameCut
  DEF Write!PhasesHold, Write!NoLateWrite, Write!Working, Write!AllDone
<1>7. Write!CountsHold'
  BY <1>1, <1>2, WriteSameCut DEF Write!CountsHold
<1>8. Write!RowsHold'
  BY <1>1, <1>2, WriteSameCut, WriteQuietlySettled DEF Write!RowsHold
<1>9. Write!BooksHold'
  BY <1>1 DEF Write!BooksHold, Write!Working
<1>10. Write!SuccessIsWritten'
  <2>. SUFFICES ASSUME v10' = "success", NEW x \in Write!Ids
                PROVE  x \in WriteRecord /\ v2[x] \in Write!Gets(x) /\ v3 = << >>
    <3>1. v10' = "success" => v3 = << >>
      BY <1>1, <1>2, <1>3 DEF Write!BooksHold
    <3>. QED
      BY <1>1, <3>1, WriteSameCut DEF Write!SuccessIsWritten
  <2>1. ~v8 /\ v3 = << >> /\ v11 = {}
    BY <1>1, <1>2, <1>3 DEF Write!BooksHold
  <2>2. PICK i \in DOMAIN v4 : x = v4[i].id
    BY DEF Write!Ids
  <2>3. Write!Settled(i) /\ Write!Listed = {}
    BY <1>4, <2>1 DEF Write!Listed
  <2>. QED
    BY <2>1, <2>2, <2>3 DEF Write!Settled
<1>11. Write!NoRowForgotten'
  <2>. SUFFICES ASSUME ~v8, NEW i \in DOMAIN v4
                PROVE  i \in v11 \/ v4[i].id \in Write!Listed
                         \/ v2[v4[i].id] \in Write!Gets(v4[i].id)
    <3>1. Write!Listed' = Write!Listed
      BY <1>1 DEF Write!Listed
    <3>. QED
      BY <1>1, <3>1, WriteSameCut DEF Write!NoRowForgotten
  <2>. QED
    BY <1>4 DEF Write!Settled
<1>. QED
  BY <1>5, <1>6, <1>7, <1>8, <1>9, <1>10, <1>11 DEF Write!WriteInv

(* WriteInv holds in the first state and is kept by every step.            *)
THEOREM WritesKeepTheirBooks == Write!Spec => []Write!WriteInv
<1>1. Write!Init => Write!WriteInv
  <2>. SUFFICES ASSUME Write!Init PROVE Write!WriteInv
    OBVIOUS
  <2>1. /\ v1 \in WriteSources /\ v3 = << >> /\ v4 = << >>
        /\ v2 = [x \in WriteRecord |-> Write!Kept]
        /\ v8 = FALSE /\ v9 = "idle" /\ v10 = "none" /\ v11 = {} /\ v12 = 0
    BY DEF Write!Init
  <2>2. DOMAIN v5 = {} /\ DOMAIN v6 = {} /\ DOMAIN v7 = {}
    BY DEF Write!Init
  <2>3. Write!TypeOK
    <3>1. v3 \in Seq(WriteRecord)
      BY <2>1, SequenceEmpty
    <3>2. v4 \in Seq([id : WriteRecord \cup {WriteUnreadable},
                      val : WriteValue \cup {Write!Reason}])
      BY <2>1, SequenceEmpty, Zenon
    <3>3. v12 \in 0 .. WriteRuns
      BY <2>1, WriteConstants
    <3>4. v2 \in [WriteRecord -> WriteValue \cup {Write!Kept}]
      BY <2>1
    <3>. QED
      BY <2>1, <2>2, <3>1, <3>2, <3>3, <3>4 DEF Write!TypeOK
  <2>4. Write!PhasesHold
    BY <2>1, <2>2 DEF Write!PhasesHold, Write!NoLateWrite, Write!AllDone, Write!Working
  <2>5. Write!CountsHold /\ Write!RowsHold
    BY <2>2 DEF Write!CountsHold, Write!RowsHold
  <2>6. Write!BooksHold /\ Write!SuccessIsWritten /\ Write!NoRowForgotten
    BY <2>1 DEF Write!BooksHold, Write!Working, Write!SuccessIsWritten, Write!NoRowForgotten
  <2>. QED
    BY <2>3, <2>4, <2>5, <2>6 DEF Write!WriteInv
<1>2. Write!WriteInv /\ [Write!Next]_Write!vars => Write!WriteInv'
  BY WriteStill, WriteRead, WriteNoStart, WriteOpen, WriteInterrupt, WriteCancel,
     WriteReturn, WriteLaunch, WriteBegin, WriteEnd, WriteWrite DEF Write!Next
<1>. QED
  BY <1>1, <1>2, PTL DEF Write!Spec

(* "Write Complete" is true, no row is forgotten, and nothing is written   *)
(* once the run has reported, for any file, batches and threads            *)
(* (writer.py, write_threaded.py).                                         *)
THEOREM WritesAreRight == Write!Spec => []WriteIsSound
<1>1. Write!WriteInv => WriteIsSound
  BY DEF Write!WriteInv, Write!PhasesHold, Write!WriteIsSound, WriteIsSound
<1>. QED
  BY <1>1, WritesKeepTheirBooks, PTL

(***************************************************************************)
(* BatchPlan                                                               *)
(***************************************************************************)
(* Places are together if no group begins between them.                    *)
Unparted(S, p, q) == \A b \in S : b <= p <=> b <= q

(* A group is parted exactly where the value changes, once it is sorted.   *)
LEMMA BatchParted ==
    ASSUME NEW n \in Nat, NEW S \in SUBSET (1 .. n), NEW x, \A r \in 1 .. n : x[r] \in Nat,
           NEW U, \A r : r \in U <=> r \in S \/ (r \in 1 .. n \ {1} /\ x[r] # x[r - 1]),
           \A r, s \in 1 .. n : r < s /\ Unparted(S, r, s) =>
               x[r] = x[s] \/ (x[r] # 0 /\ (x[s] = 0 \/ x[r] < x[s])),
           NEW p \in 1 .. n, NEW q \in 1 .. n, p <= q
    PROVE  Unparted(U, p, q) <=> Unparted(S, p, q) /\ x[p] = x[q]
<1>1. \A r \in 1 .. n : x[r] \in Nat
  OBVIOUS
<1>2. ASSUME Unparted(U, p, q) PROVE Unparted(S, p, q)
  BY <1>2 DEF Unparted
<1>3. ASSUME Unparted(U, p, q), x[p] # x[q] PROVE FALSE
  <2>. DEFINE K == {k \in p .. q : x[k] # x[p]}
  <2>1. K \in SUBSET Nat /\ K # {}
    <3>1. q \in K
      BY <1>3
    <3>. QED
      BY <3>1
  <2>2. PICK k \in K : \A j \in K : k <= j
    BY <2>1, LeastExists
  <2>3. k \in p .. q /\ x[k] # x[p] /\ k # p
    BY <2>2
  <2>4. k - 1 \in p .. q /\ k \in 1 .. n \ {1} /\ p < k /\ k <= q
    BY <2>3
  <2>5. x[k - 1] = x[p]
    <3>1. k - 1 \notin K
      BY <2>2, <2>4
    <3>. QED
      BY <2>4, <3>1
  <2>6. k \in U
    BY <2>3, <2>4, <2>5
  <2>. QED
    BY <1>3, <2>4, <2>6 DEF Unparted
<1>4. ASSUME Unparted(S, p, q), x[p] = x[q], NEW b \in U PROVE b <= p <=> b <= q
  <2>1. CASE b \in S
    BY <1>4, <2>1 DEF Unparted
  <2>2. CASE b \in 1 .. n \ {1} /\ x[b] # x[b - 1]
    <3>1. SUFFICES ASSUME p < b, b <= q PROVE FALSE
      BY <2>2
    <3>2. b \in p .. q /\ b - 1 \in p .. q
      BY <2>2, <3>1
    <3>3. ASSUME NEW k \in p .. q PROVE x[k] = x[p]
      <4>1. k \in 1 .. n /\ p <= k /\ k <= q
        BY <3>3
      <4>2. Unparted(S, p, k) /\ Unparted(S, k, q)
        <5>1. ASSUME NEW a \in S PROVE (a <= p <=> a <= k) /\ (a <= k <=> a <= q)
          <6>1. a \in 1 .. n /\ (a <= p <=> a <= q)
            BY <1>4 DEF Unparted
          <6>. QED
            BY <4>1, <6>1
        <5>. QED
          BY <5>1 DEF Unparted
      <4>3. x[k] \in Nat /\ x[p] \in Nat
        BY <1>1, <4>1
      <4>4. p < k => x[p] = x[k] \/ (x[p] # 0 /\ (x[k] = 0 \/ x[p] < x[k]))
        BY <4>1, <4>2
      <4>5. k < q => x[k] = x[p] \/ (x[k] # 0 /\ (x[p] = 0 \/ x[k] < x[p]))
        BY <1>4, <4>1, <4>2
      <4>6. k = p \/ k = q \/ (p < k /\ k < q)
        BY <4>1
      <4>. QED
        BY <1>4, <4>3, <4>4, <4>5, <4>6
    <3>. QED
      BY <2>2, <3>2, <3>3
  <2>. QED
    BY <2>1, <2>2
<1>5. ASSUME Unparted(S, p, q), x[p] = x[q] PROVE Unparted(U, p, q)
  BY <1>4, <1>5 DEF Unparted
<1>. QED
  BY <1>2, <1>3, <1>5

(* The next multiple of a number.                                          *)
LEMMA BatchNext ==
    ASSUME NEW d \in Nat, NEW size \in Nat \ {0}
    PROVE  LET k == d \div size + 1 IN
           k \in Nat \ {0} /\ d < k * size /\ k * size <= d + size /\ k <= k * size
           /\ k * size \in Nat
OBVIOUS

(* A group that begins every so many places has no more of them.           *)
LEMMA BatchCut ==
    ASSUME NEW n \in Nat, NEW S \in SUBSET (1 .. n), 1 \in S, NEW size \in Nat \ {0},
           NEW U,
           \A p : p \in U <=> p \in 1 .. n /\ \E b \in S, k \in 0 .. n :
               Unparted(S, b, p) /\ p = b + k * size,
           NEW p \in 1 .. n, NEW q \in 1 .. n, p <= q, Unparted(U, p, q)
    PROVE  Unparted(S, p, q) /\ q - p < size
<1>1. S \subseteq U
  <2>1. ASSUME NEW b \in S PROVE b \in U
    <3>1. b \in 1 .. n /\ Unparted(S, b, b) /\ 0 \in 0 .. n /\ b = b + 0 * size
      BY <2>1 DEF Unparted
    <3>. QED
      BY <3>1
  <2>. QED
    BY <2>1
<1>2. Unparted(S, p, q)
  BY <1>1 DEF Unparted
<1>3. ASSUME q - p >= size PROVE FALSE
  <2>. DEFINE A == {a \in S : a <= p}
  <2>1. PICK b \in A : \A a \in A : a <= b
    <3>1. A \in SUBSET (0 .. n) /\ A # {}
      <4>1. 1 \in A
        OBVIOUS
      <4>2. \A a \in A : a \in 0 .. n
        OBVIOUS
      <4>. QED
        BY <4>1, <4>2
    <3>. QED
      BY <3>1, GreatestExists
  <2>2. b \in S /\ b \in 1 .. n /\ b <= p
    BY <2>1
  <2>3. Unparted(S, b, p)
    <3>1. ASSUME NEW a \in S PROVE a <= b <=> a <= p
      <4>1. a \in 1 .. n /\ (a <= p => a <= b)
        BY <2>1
      <4>. QED
        BY <2>2, <4>1
    <3>. QED
      BY <3>1 DEF Unparted
  <2>. DEFINE d == p - b
              k == d \div size + 1
              r == b + k * size
  <2>4. d \in Nat
    BY <2>2
  <2>5. k \in Nat \ {0} /\ d < k * size /\ k * size <= d + size /\ k <= k * size
        /\ k * size \in Nat
    <3>. HIDE DEF d
    <3>. QED
      BY <2>4, BatchNext
  <2>. HIDE DEF k
  <2>6. r \in 1 .. n /\ p < r /\ r <= q /\ k \in 0 .. n
    BY <1>3, <2>2, <2>5
  <2>7. Unparted(S, b, r)
    <3>1. ASSUME NEW a \in S PROVE a <= b <=> a <= r
      <4>1. a \in 1 .. n /\ (a <= b <=> a <= p) /\ (a <= p <=> a <= q)
        BY <1>2, <2>3 DEF Unparted
      <4>. QED
        BY <2>6, <4>1
    <3>. QED
      BY <3>1 DEF Unparted
  <2>8. r \in U
    BY <2>2, <2>6, <2>7
  <2>. HIDE DEF r
  <2>9. r <= p <=> r <= q
    BY <2>8 DEF Unparted
  <2>. QED
    BY <2>6, <2>9
<1>. QED
  BY <1>2, <1>3

(* Where there are ids begins a part, and P[r] is the last id up to r.     *)
FamiliesOf(n, I, U, P) ==
    /\ \A b : b \in U <=> b = 1 \/ b \in I
    /\ \A r \in 1 .. n : \A a :
          a \in P[r] <=> a \in 1 .. r /\ a \in I /\ \A b \in a + 1 .. r : b \notin I
    /\ \A r \in 1 .. n : P[r] \in SUBSET Nat

(* Two rows are of one family if no row with an id comes between them.     *)
LEMMA BatchFamilies ==
    ASSUME NEW n \in Nat, NEW I \in SUBSET (1 .. n), NEW U \in SUBSET Nat,
           NEW P, FamiliesOf(n, I, U, P),
           NEW p \in 1 .. n, NEW q \in 1 .. n, p <= q
    PROVE  P[p] = P[q] <=> Unparted(U, p, q)
<1>. /\ \A b : b \in U <=> b = 1 \/ b \in I
     /\ \A r \in 1 .. n : \A a :
           a \in P[r] <=> a \in 1 .. r /\ a \in I /\ \A b \in a + 1 .. r : b \notin I
     /\ \A r \in 1 .. n : P[r] \in SUBSET Nat
  BY DEF FamiliesOf
<1>1. ASSUME Unparted(U, p, q) PROVE P[p] = P[q]
  <2>1. ASSUME NEW a \in p + 1 .. q PROVE a \notin I
    <3>1. a \in I => (a <= p <=> a <= q)
      BY <1>1 DEF Unparted
    <3>. QED
      BY <2>1, <3>1
  <2>2. ASSUME NEW a \in P[p] PROVE a \in P[q]
    <3>1. a \in 1 .. p /\ a \in I /\ \A b \in a + 1 .. p : b \notin I
      BY <2>2
    <3>2. a \in 1 .. q
      BY <3>1
    <3>3. ASSUME NEW b \in a + 1 .. q PROVE b \notin I
      <4>1. b \in a + 1 .. p \/ b \in p + 1 .. q
        BY <3>1, <3>3
      <4>. QED
        BY <2>1, <3>1, <4>1
    <3>. QED
      BY <3>1, <3>2, <3>3
  <2>3. ASSUME NEW a \in P[q] PROVE a \in P[p]
    <3>1. a \in 1 .. q /\ a \in I /\ \A b \in a + 1 .. q : b \notin I
      BY <2>3
    <3>2. a \notin p + 1 .. q
      BY <2>1, <3>1
    <3>3. a \in 1 .. p
      BY <3>1, <3>2
    <3>4. ASSUME NEW b \in a + 1 .. p PROVE b \notin I
      <4>1. b \in a + 1 .. q
        BY <3>3, <3>4
      <4>. QED
        BY <3>1, <4>1
    <3>. QED
      BY <3>1, <3>3, <3>4
  <2>. QED
    BY <2>2, <2>3
<1>2. ASSUME P[p] = P[q], NEW b \in U, p < b, b <= q PROVE FALSE
  <2>1. b \in I /\ b \in 1 .. q
    <3>1. b # 1 /\ b \in Nat
      BY <1>2
    <3>2. b \in I
      BY <3>1
    <3>. QED
      BY <1>2, <3>1, <3>2
  <2>. DEFINE A == {a \in I : a <= q}
  <2>2. A \in SUBSET (0 .. n) /\ A # {}
    <3>1. \A a \in A : a \in 0 .. n
      OBVIOUS
    <3>2. b \in A
      BY <2>1
    <3>. QED
      BY <3>1, <3>2
  <2>3. PICK g \in A : \A a \in A : a <= g
    BY <2>2, GreatestExists
  <2>4. g \in I /\ g <= q /\ b <= g /\ g \in 1 .. n /\ b \in 1 .. n
    BY <2>1, <2>3
  <2>5. \A a \in g + 1 .. q : a \notin I
    <3>1. ASSUME NEW a \in g + 1 .. q, a \in I PROVE FALSE
      <4>1. a \in A
        BY <3>1
      <4>2. a <= g
        BY <2>3, <4>1
      <4>. QED
        BY <2>4, <3>1, <4>2
    <3>. QED
      BY <3>1
  <2>6. g \in P[q]
    BY <2>4, <2>5
  <2>7. g \in 1 .. p
    BY <1>2, <2>6
  <2>. QED
    BY <1>2, <2>4, <2>7
<1>3. ASSUME P[p] = P[q] PROVE Unparted(U, p, q)
  <2>1. ASSUME NEW b \in U PROVE b <= p <=> b <= q
    <3>1. b \in 1 .. n
      OBVIOUS
    <3>2. ~(p < b /\ b <= q)
      BY <1>2, <1>3
    <3>. QED
      BY <3>1, <3>2
  <2>. QED
    BY <2>1 DEF Unparted
<1>. QED
  BY <1>1, <1>3
-----------------------------------------------------------------------------
(* What the types give, place by place.                                    *)
LEMMA BatchTypes ==
    ASSUME Batching!TypeOK
    PROVE  /\ Len(v5) \in Nat /\ DOMAIN v5 = 1 .. Len(v5)
           /\ v6 \subseteq 1 .. Len(v5) /\ v8 \subseteq 1 .. Len(v5)
           /\ v9 \in Seq(SUBSET (1 .. Len(v5)))
           /\ Len(v2) \in Nat /\ DOMAIN v2 = 1 .. Len(v2) /\ v7 \in 0 .. Len(v2) + 1
           /\ \A p \in 1 .. Len(v5) : v5[p] \in DOMAIN v1
           /\ \A p \in 1 .. Len(v5), c \in Batching!Header : Batching!Cell(p, c) \in Nat
           /\ Len(v1) \in Nat \ {0} /\ DOMAIN v1 = 1 .. Len(v1)
<1>1. Len(v5) \in Nat /\ DOMAIN v5 = 1 .. Len(v5)
      /\ \A p \in 1 .. Len(v5) : v5[p] \in DOMAIN v1
  BY DEF Batching!TypeOK
<1>2. v2 \in Seq(Nat)
  BY BatchingAssumption DEF Batching!TypeOK
<1>3. Len(v2) \in Nat /\ DOMAIN v2 = 1 .. Len(v2)
  BY <1>2
<1>4. v1 \in Seq([id : BOOLEAN, val : Seq(Nat)]) /\ v1 # << >>
      /\ \A r \in DOMAIN v1 : DOMAIN v1[r].val = DOMAIN v1[1].val
  <2>1. v1 \in BatchingFiles
    BY DEF Batching!TypeOK
  <2>2. v1 \in Seq([id : BOOLEAN, val : Seq(Nat)])
    BY <2>1, BatchingAssumption
  <2>3. v1 # << >> /\ \A r \in DOMAIN v1 : DOMAIN v1[r].val = DOMAIN v1[1].val
    BY <2>1, BatchingAssumption
  <2>. QED
    BY <2>2, <2>3
<1>5. \A r \in DOMAIN v1 : v1[r].val \in Seq(Nat)
  <2>1. \A r \in DOMAIN v1 : v1[r] \in [id : BOOLEAN, val : Seq(Nat)]
    <3>1. v1 \in Seq([id : BOOLEAN, val : Seq(Nat)])
      BY <1>4
    <3>. QED
      BY <3>1, SequenceElements, Zenon
  <2>. QED
    BY <2>1
<1>6. ASSUME NEW p \in 1 .. Len(v5), NEW c \in Batching!Header
      PROVE  Batching!Cell(p, c) \in Nat
  <2>1. v5[p] \in DOMAIN v1
    BY <1>1
  <2>2. v1[v5[p]].val \in Seq(Nat) /\ c \in DOMAIN v1[v5[p]].val
    BY <1>4, <1>5, <2>1 DEF Batching!Header
  <2>3. v1[v5[p]].val[c] \in Nat
    BY <2>2, SequenceElements, Zenon
  <2>. QED
    BY <2>3 DEF Batching!Cell
<1>7. Len(v1) \in Nat \ {0} /\ DOMAIN v1 = 1 .. Len(v1)
  BY <1>4
<1>. QED
  BY <1>1, <1>3, <1>6, <1>7 DEF Batching!TypeOK

LEMMA BatchTogether ==
    ASSUME NEW p, NEW q
    PROVE  Batching!Together(p, q) <=> Unparted(v6, p, q)
BY DEF Batching!Together, Unparted

(* One more column: the groups are parted where the rows are not alike.    *)
LEMMA BatchGroupBy ==
    ASSUME Batching!BatchInv, Batching!GroupBy, v2[v7 + 1] \in Batching!Header
    PROVE  Batching!BatchInv'
<1>. DEFINE n == Len(v5)
            c == v2[v7 + 1]
<1>1. /\ Batching!TypeOK /\ Batching!OrderHolds /\ Batching!GroupsHold /\ Batching!SentHolds
      /\ UNCHANGED <<v1, v2, v3, v4, v8, v9>> /\ v7 < Len(v2) /\ v7' = v7 + 1
  BY DEF Batching!BatchInv, Batching!GroupBy
<1>2. /\ n \in Nat /\ DOMAIN v5 = 1 .. n /\ v6 \subseteq 1 .. n /\ v8 \subseteq 1 .. n
      /\ Len(v2) \in Nat /\ DOMAIN v2 = 1 .. Len(v2) /\ v7 \in 0 .. Len(v2) + 1
      /\ \A p \in 1 .. n : v5[p] \in DOMAIN v1
      /\ \A p \in 1 .. n : Batching!Cell(p, c) \in Nat
  BY <1>1, BatchTypes
<1>3. PICK from \in Batching!Moves :
         /\ Batching!Sorts(c, from)
         /\ v5' = [p \in DOMAIN v5 |-> v5[from[p]]]
         /\ v6' = v6 \cup {p \in DOMAIN v5 \ {1} :
                            Batching!Cell(from[p], c) # Batching!Cell(from[p - 1], c)}
  BY DEF Batching!GroupBy
<1>. HIDE DEF c, n
<1>4. /\ from \in [1 .. n -> 1 .. n]
      /\ \A q \in 1 .. n : \E p \in 1 .. n :
            from[p] = q /\ \A r \in 1 .. n : from[r] = q => r = p
  <2>1. /\ from \in [DOMAIN v5 -> DOMAIN v5]
        /\ \A q \in DOMAIN v5 : \E p \in DOMAIN v5 :
              from[p] = q /\ \A r \in DOMAIN v5 : from[r] = q => r = p
    BY Zenon DEF Batching!Moves
  <2>2. DOMAIN v5 = 1 .. n
    BY <1>2
  <2>3. from \in [1 .. n -> 1 .. n]
    BY <2>1, <2>2
  <2>4. ASSUME NEW q \in 1 .. n
        PROVE  \E p \in 1 .. n : from[p] = q /\ \A r \in 1 .. n : from[r] = q => r = p
    <3>1. PICK p \in DOMAIN v5 : from[p] = q /\ \A r \in DOMAIN v5 : from[r] = q => r = p
      BY <2>1, <2>2
    <3>. QED
      BY <2>2, <3>1
  <2>. QED
    BY <2>3, <2>4
<1>5. \A p \in 1 .. n : from[p] \in 1 .. n
  BY <1>4
<1>6. PICK t : t = v5'
  OBVIOUS
<1>7. /\ DOMAIN t = 1 .. n /\ t = [p \in 1 .. n |-> t[p]]
      /\ \A p \in 1 .. n : t[p] = v5[from[p]] /\ t[p] \in DOMAIN v1
  BY <1>2, <1>3, <1>5, <1>6
<1>8. t \in Seq(DOMAIN v1) /\ Len(t) = n
  <2>1. t \in Seq(DOMAIN v1)
    BY <1>2, <1>7, SequenceOf
  <2>2. Len(t) \in Nat /\ DOMAIN t = 1 .. Len(t)
    BY <2>1
  <2>. QED
    BY <1>2, <1>7, <2>1, <2>2
<1>9. ~Batching!Made /\ ~Batching!Made' /\ v8 = {} /\ v9 = << >>
  BY <1>1, <1>2 DEF Batching!Made, Batching!SentHolds
<1>. DEFINE x == [p \in 1 .. n |-> Batching!Cell(from[p], c)]
<1>10. /\ x \in [1 .. n -> Nat]
       /\ \A p \in 1 .. n : x[p] = Batching!Cell(from[p], c)
  BY <1>2, <1>5
<1>11. v6' = v6 \cup {r \in 1 .. n \ {1} : x[r] # x[r - 1]}
  <2>1. \A r \in 1 .. n \ {1} : r - 1 \in 1 .. n
    BY <1>2
  <2>2. {r \in 1 .. n \ {1} : x[r] # x[r - 1]} =
           {p \in DOMAIN v5 \ {1} : Batching!Cell(from[p], c) # Batching!Cell(from[p - 1], c)}
    BY <1>2, <1>10, <2>1
  <2>. QED
    BY <1>3, <2>2
<1>. HIDE DEF x
<1>12. \A p, q \in 1 .. n :
          /\ Unparted(v6, p, from[p])
          /\ p < q /\ Unparted(v6, p, q) => Batching!Before(c, from[p], from[q])
  BY <1>2, <1>3, BatchTogether DEF Batching!Sorts
<1>13. \A r, s \in 1 .. n : r < s /\ Unparted(v6, r, s) =>
          /\ x[r] = x[s] \/ (x[r] # 0 /\ (x[s] = 0 \/ x[r] < x[s]))
          /\ x[r] = x[s] => from[r] < from[s]
  BY <1>10, <1>12 DEF Batching!Before, Batching!None
<1>14. \A p, q \in 1 .. n : Unparted(v6', p, q) <=> Unparted(v6, p, q) /\ x[p] = x[q]
  <2>1. ASSUME NEW p \in 1 .. n, NEW q \in 1 .. n, p <= q
        PROVE  Unparted(v6', p, q) <=> Unparted(v6, p, q) /\ x[p] = x[q]
    <3>1. \A r, s \in 1 .. n : r < s /\ Unparted(v6, r, s) =>
             x[r] = x[s] \/ (x[r] # 0 /\ (x[s] = 0 \/ x[r] < x[s]))
      BY <1>13
    <3>2. v6 \in SUBSET (1 .. n) /\ n \in Nat
      BY <1>2
    <3>3. PICK U : U = v6'
      OBVIOUS
    <3>4. \A r : r \in U <=> r \in v6 \/ (r \in 1 .. n \ {1} /\ x[r] # x[r - 1])
      BY <1>11, <3>3
    <3>5. \A r \in 1 .. n : x[r] \in Nat
      BY <1>10
    <3>6. Unparted(U, p, q) <=> Unparted(v6, p, q) /\ x[p] = x[q]
      BY <2>1, <3>1, <3>2, <3>4, <3>5, BatchParted
    <3>. QED
      BY <3>3, <3>6
  <2>2. \A U, p, q : Unparted(U, p, q) <=> Unparted(U, q, p)
    BY DEF Unparted
  <2>3. ASSUME NEW p \in 1 .. n, NEW q \in 1 .. n PROVE p <= q \/ q <= p
    BY <1>2
  <2>. QED
    BY <2>1, <2>2, <2>3
<1>15. \A p, q \in 1 .. n : Unparted(v6, p, q) <=> Batching!Alike(from[p], from[q])
  <2>1. ASSUME NEW p \in 1 .. n, NEW q \in 1 .. n
        PROVE  Unparted(v6, p, q) <=> Unparted(v6, from[p], from[q])
    BY <1>12 DEF Unparted
  <2>2. \A p, q \in 1 .. n : Unparted(v6, p, q) <=> Batching!Alike(p, q)
    BY <1>1, <1>2, <1>9, BatchTogether DEF Batching!GroupsHold
  <2>. QED
    BY <1>5, <2>1, <2>2
<1>16. \A p, q \in 1 .. n :
          Batching!Alike(p, q)' <=> Batching!Alike(from[p], from[q]) /\ x[p] = x[q]
  <2>1. \A p \in 1 .. n : \A d : Batching!Cell(p, d)' = Batching!Cell(from[p], d)
    BY <1>1, <1>6, <1>7 DEF Batching!Cell
  <2>2. \A i \in 1 .. Len(v2) : i <= v7' <=> (i <= v7 \/ i = v7 + 1)
    BY <1>1, <1>2
  <2>3. v7 + 1 \in 1 .. Len(v2) /\ c = v2[v7 + 1]
    BY <1>1, <1>2 DEF c
  <2>4. ASSUME NEW p \in 1 .. n, NEW q \in 1 .. n
        PROVE  Batching!Alike(p, q)' <=> Batching!Alike(from[p], from[q]) /\ x[p] = x[q]
    <3>1. Batching!Alike(p, q)' <=>
            \A i \in 1 .. Len(v2) : i <= v7' =>
                Batching!Cell(from[p], v2[i]) = Batching!Cell(from[q], v2[i])
      BY <1>1, <1>2, <2>1 DEF Batching!Alike
    <3>2. Batching!Alike(from[p], from[q]) <=>
            \A i \in 1 .. Len(v2) : i <= v7 =>
                Batching!Cell(from[p], v2[i]) = Batching!Cell(from[q], v2[i])
      BY <1>2 DEF Batching!Alike
    <3>3. x[p] = x[q] <=>
             Batching!Cell(from[p], v2[v7 + 1]) = Batching!Cell(from[q], v2[v7 + 1])
      BY <1>10, <2>3
    <3>. QED
      BY <2>2, <2>3, <3>1, <3>2, <3>3
  <2>. QED
    BY <2>4
<1>17. \A p, q \in 1 .. n : Unparted(v6', p, q) <=> Batching!Alike(p, q)'
  BY <1>14, <1>15, <1>16
<1>18. Batching!TypeOK'
  <2>1. v7' \in 0 .. Len(v2) + 1
    BY <1>1, <1>2
  <2>2. v6' \subseteq 1 .. n /\ {} \subseteq 1 .. n
    BY <1>2, <1>11
  <2>3. << >> \in Seq(SUBSET (1 .. n))
    BY SequenceEmpty
  <2>. QED
    BY <1>1, <1>6, <1>7, <1>8, <1>9, <2>1, <2>2, <2>3 DEF Batching!TypeOK
<1>19. Batching!OrderHolds'
  <2>1. \A p, q \in 1 .. n : t[p] = t[q] => p = q
    <3>1. ASSUME NEW p \in 1 .. n, NEW q \in 1 .. n, t[p] = t[q] PROVE p = q
      <4>1. from[p] = from[q]
        BY <1>1, <1>2, <1>5, <1>7, <3>1 DEF Batching!OrderHolds
      <4>. QED
        BY <1>4, <1>5, <4>1
    <3>. QED
      BY <3>1
  <2>2. CASE \A i \in DOMAIN v2 : i <= v7 => v2[i] \in Batching!Header
    <3>1. 1 \in v6 /\ \A r \in DOMAIN v1 : \E p \in 1 .. n : v5[p] = r
      BY <1>1, <1>2, <2>2 DEF Batching!OrderHolds
    <3>2. ASSUME NEW r \in DOMAIN v1 PROVE \E p \in 1 .. n : t[p] = r
      <4>1. PICK q \in 1 .. n : v5[q] = r
        BY <3>1
      <4>2. PICK p \in 1 .. n : from[p] = q
        BY <1>4
      <4>. QED
        BY <1>7, <4>1, <4>2
    <3>3. \A i \in DOMAIN v2' : i <= v7' => v2'[i] \in Batching!Header'
      <4>1. ASSUME NEW i \in DOMAIN v2, i <= v7' PROVE v2[i] \in Batching!Header
        <5>1. i <= v7 \/ i = v7 + 1
          BY <1>1, <1>2, <4>1
        <5>. QED
          BY <2>2, <5>1
      <4>. QED
        BY <1>1, <4>1 DEF Batching!Header
    <3>4. 1 \in v6'
      BY <1>11, <3>1
    <3>5. v2' # << >> /\ v7' # 0
      BY <1>1, <1>2
    <3>. QED
      BY <1>1, <1>6, <1>7, <2>1, <3>2, <3>3, <3>4, <3>5 DEF Batching!OrderHolds
  <2>3. CASE ~ \A i \in DOMAIN v2 : i <= v7 => v2[i] \in Batching!Header
    <3>1. v5 = << >>
      BY <1>1, <2>3 DEF Batching!OrderHolds
    <3>2. n = 0
      BY <3>1 DEF n
    <3>3. t = << >>
      BY <1>8, <3>2
    <3>4. ~ \A i \in DOMAIN v2' : i <= v7' => v2'[i] \in Batching!Header'
      <4>1. PICK i \in DOMAIN v2 : i <= v7 /\ v2[i] \notin Batching!Header
        BY <2>3
      <4>2. i <= v7'
        BY <1>1, <1>2, <4>1
      <4>. QED
        BY <1>1, <4>1, <4>2 DEF Batching!Header
    <3>5. v2' # << >> /\ v7' # 0
      BY <1>1, <1>2
    <3>. QED
      BY <1>6, <1>7, <2>1, <3>3, <3>4, <3>5 DEF Batching!OrderHolds
  <2>. QED
    BY <2>2, <2>3
<1>20. Batching!GroupsHold'
  <2>1. ASSUME NEW p \in 1 .. n, NEW q \in 1 .. n
        PROVE  Batching!Together(p, q)' <=> Batching!Alike(p, q)'
    BY <1>17 DEF Batching!Together, Unparted
  <2>2. ASSUME NEW p \in 1 .. n, NEW q \in 1 .. n, p < q, Batching!Alike(p, q)'
        PROVE  t[p] < t[q] /\ \A k \in p .. q : Batching!Alike(p, k)'
    <3>1. Unparted(v6, p, q) /\ x[p] = x[q] /\ Batching!Alike(from[p], from[q])
      BY <1>15, <1>16, <2>2
    <3>2. from[p] < from[q]
      BY <1>13, <2>2, <3>1
    <3>3. v5[from[p]] < v5[from[q]]
      BY <1>1, <1>2, <1>5, <3>1, <3>2 DEF Batching!GroupsHold
    <3>4. ASSUME NEW k \in p .. q PROVE Batching!Alike(p, k)'
      <4>1. k \in 1 .. n /\ p <= k /\ k <= q
        BY <1>2
      <4>2. Unparted(v6', p, q)
        BY <1>17, <2>2
      <4>3. ASSUME NEW b \in v6' PROVE b <= p <=> b <= k
        <5>1. b \in 1 .. n /\ (b <= p <=> b <= q)
          BY <1>2, <1>11, <4>2 DEF Unparted
        <5>. QED
          BY <4>1, <5>1
      <4>4. Unparted(v6', p, k)
        BY <4>3 DEF Unparted
      <4>. QED
        BY <1>17, <4>1, <4>4
    <3>. QED
      BY <1>7, <3>3, <3>4
  <2>. QED
    BY <1>6, <1>7, <1>9, <2>1, <2>2 DEF Batching!GroupsHold
<1>21. Batching!SentHolds'
  BY <1>1, <1>9 DEF Batching!SentHolds
<1>22. Batching!FamiliesWhole'
  BY <1>9 DEF Batching!FamiliesWhole
<1>. QED
  BY <1>18, <1>19, <1>20, <1>21, <1>22 DEF Batching!BatchInv

(* Nothing is left of rows whose header does not have the column.          *)
LEMMA BatchGroupByNone ==
    ASSUME Batching!BatchInv, Batching!GroupBy, v2[v7 + 1] \notin Batching!Header
    PROVE  Batching!BatchInv'
<1>1. /\ Batching!TypeOK /\ Batching!OrderHolds /\ Batching!GroupsHold /\ Batching!SentHolds
      /\ UNCHANGED <<v1, v2, v3, v4, v8, v9>> /\ v7 < Len(v2) /\ v7' = v7 + 1
      /\ v5' = << >> /\ v6' = {}
  BY DEF Batching!BatchInv, Batching!GroupBy
<1>2. Len(v2) \in Nat /\ DOMAIN v2 = 1 .. Len(v2) /\ v7 \in 0 .. Len(v2) + 1
  BY <1>1, BatchTypes
<1>3. ~Batching!Made /\ ~Batching!Made' /\ v8 = {} /\ v9 = << >>
  BY <1>1, <1>2 DEF Batching!Made, Batching!SentHolds
<1>4. DOMAIN v5' = {}
  BY <1>1
<1>5. Batching!TypeOK'
  <2>1. v7' \in 0 .. Len(v2) + 1
    BY <1>1, <1>2
  <2>2. << >> \in Seq(SUBSET DOMAIN v5') /\ << >> \in Seq(DOMAIN v1)
    BY SequenceEmpty
  <2>. QED
    BY <1>1, <1>3, <2>1, <2>2 DEF Batching!TypeOK
<1>6. Batching!OrderHolds'
  <2>1. ~ \A i \in DOMAIN v2' : i <= v7' => v2'[i] \in Batching!Header'
    <3>1. v7 + 1 \in DOMAIN v2 /\ v7 + 1 <= v7'
      BY <1>1, <1>2
    <3>. QED
      BY <1>1, <3>1 DEF Batching!Header
  <2>2. v2' # << >> /\ v7' # 0
    BY <1>1, <1>2
  <2>. QED
    BY <1>1, <1>4, <2>1, <2>2 DEF Batching!OrderHolds
<1>7. Batching!GroupsHold'
  BY <1>3, <1>4 DEF Batching!GroupsHold
<1>8. Batching!SentHolds'
  BY <1>1, <1>3 DEF Batching!SentHolds
<1>9. Batching!FamiliesWhole'
  BY <1>3 DEF Batching!FamiliesWhole
<1>. QED
  BY <1>5, <1>6, <1>7, <1>8, <1>9 DEF Batching!BatchInv

(* Batches are cut out of the groups.                                      *)
LEMMA BatchCreate ==
    ASSUME Batching!BatchInv, Batching!CreateBatches
    PROVE  Batching!BatchInv'
<1>. DEFINE n == Len(v5)
<1>1. /\ Batching!TypeOK /\ Batching!OrderHolds /\ Batching!GroupsHold /\ Batching!SentHolds
      /\ UNCHANGED <<v1, v2, v3, v4, v5, v9>> /\ v7 = Len(v2) /\ v7' = v7 + 1
      /\ v6' = (IF Batching!Family THEN Batching!ByParent ELSE Batching!BySize)
      /\ v8' = DOMAIN v5
  BY DEF Batching!BatchInv, Batching!CreateBatches
<1>2. /\ n \in Nat /\ DOMAIN v5 = 1 .. n /\ v6 \subseteq 1 .. n /\ v8 \subseteq 1 .. n
      /\ Len(v2) \in Nat /\ DOMAIN v2 = 1 .. Len(v2) /\ v7 \in 0 .. Len(v2) + 1
      /\ \A p \in 1 .. n : v5[p] \in DOMAIN v1
      /\ Len(v1) \in Nat \ {0} /\ DOMAIN v1 = 1 .. Len(v1)
  BY <1>1, BatchTypes
<1>. HIDE DEF n
<1>3. ~Batching!Made /\ Batching!Made' /\ v9 = << >> /\ (Batching!Family' <=> Batching!Family)
  BY <1>1, <1>2 DEF Batching!Made, Batching!SentHolds, Batching!Family
<1>4. v5 = << >> \/ 1 \in v6
  BY <1>1 DEF Batching!OrderHolds
<1>5. ~Batching!Family => v6' \subseteq 1 .. n /\ \A p, q \in 1 .. n :
         p <= q /\ Unparted(v6', p, q) => Unparted(v6, p, q) /\ q - p < BatchingSize
  <2>1. SUFFICES ASSUME ~Batching!Family
                 PROVE  v6' \subseteq 1 .. n /\ \A p, q \in 1 .. n :
         p <= q /\ Unparted(v6', p, q) => Unparted(v6, p, q) /\ q - p < BatchingSize
    OBVIOUS
  <2>2. \A p : p \in v6' <=> p \in 1 .. n /\ \E b \in v6, k \in 0 .. n :
           Unparted(v6, b, p) /\ p = b + k * BatchingSize
    BY <1>1, <1>2, <2>1, BatchTogether DEF Batching!BySize, n
  <2>3. CASE v5 = << >>
    <3>1. 1 .. n = {}
      BY <2>3 DEF n
    <3>. QED
      BY <2>2, <3>1
  <2>4. CASE 1 \in v6
    <3>1. PICK U : U = v6'
      OBVIOUS
    <3>2. \A p : p \in U <=> p \in 1 .. n /\ \E b \in v6, k \in 0 .. n :
             Unparted(v6, b, p) /\ p = b + k * BatchingSize
      BY <2>2, <3>1
    <3>3. v6 \in SUBSET (1 .. n) /\ BatchingSize \in Nat \ {0}
      BY <1>2, BatchingAssumption
    <3>4. ASSUME NEW p \in 1 .. n, NEW q \in 1 .. n, p <= q, Unparted(U, p, q)
          PROVE  Unparted(v6, p, q) /\ q - p < BatchingSize
      BY <1>2, <2>4, <3>2, <3>3, <3>4, BatchCut
    <3>. QED
      BY <2>2, <3>1, <3>4
  <2>. QED
    BY <1>4, <2>3, <2>4
<1>6. Batching!Family => v6' \subseteq 1 .. n /\ \A p, q \in 1 .. n :
         Unparted(v6', p, q) => Unparted(v6, p, q)
  <2>1. Batching!Family => v6 \subseteq v6' /\ v6' \subseteq 1 .. n
    BY <1>1, <1>2 DEF Batching!ByParent
  <2>. QED
    BY <2>1 DEF Unparted
<1>7. \A p, q \in 1 .. n : Unparted(v6', p, q) => Unparted(v6, p, q)
  <2>1. \A U, p, q : Unparted(U, p, q) <=> Unparted(U, q, p)
    BY DEF Unparted
  <2>2. ASSUME NEW p \in 1 .. n, NEW q \in 1 .. n PROVE p <= q \/ q <= p
    BY <1>2
  <2>. QED
    BY <1>5, <1>6, <2>1, <2>2
<1>8. \A p, q \in 1 .. n : Batching!Alike(p, q)' <=> Batching!Alike(p, q)
  <2>1. \A i \in 1 .. Len(v2) : i <= v7 /\ i <= v7'
    BY <1>1, <1>2
  <2>. QED
    BY <1>1, <1>2, <2>1 DEF Batching!Alike, Batching!Cell
<1>9. v5 # << >> => 1 \in v6'
  <2>1. CASE Batching!Family
    BY <1>1, <1>4, <2>1 DEF Batching!ByParent
  <2>2. CASE ~Batching!Family
    <3>1. SUFFICES ASSUME v5 # << >> PROVE 1 \in v6'
      OBVIOUS
    <3>2. 1 \in v6 /\ 1 \in 1 .. n /\ 0 \in 0 .. n
      BY <1>2, <1>4, <3>1
    <3>3. 1 = 1 + 0 * BatchingSize
      BY BatchingAssumption
    <3>4. Batching!Together(1, 1)
      BY DEF Batching!Together
    <3>. QED
      BY <1>1, <1>2, <2>2, <3>2, <3>3, <3>4 DEF Batching!BySize, n
  <2>. QED
    BY <2>1, <2>2
<1>10. Batching!TypeOK'
  <2>1. v7' \in 0 .. Len(v2) + 1
    BY <1>1, <1>2
  <2>2. v6' \subseteq 1 .. n
    BY <1>5, <1>6
  <2>. QED
    BY <1>1, <1>2, <2>1, <2>2 DEF Batching!TypeOK
<1>11. Batching!OrderHolds'
  <2>1. \A i \in 1 .. Len(v2) : i <= v7 /\ i <= v7'
    BY <1>1, <1>2
  <2>2. v7' # 0 /\ (Batching!Header' = Batching!Header)
    BY <1>1, <1>2 DEF Batching!Header
  <2>3. (\A i \in DOMAIN v2' : i <= v7' => v2'[i] \in Batching!Header')
        <=> (\A i \in DOMAIN v2 : i <= v7 => v2[i] \in Batching!Header)
    BY <1>1, <1>2, <2>1, <2>2
  <2>4. (\A r \in DOMAIN v1 : \E p \in 1 .. n : v5[p] = r) => v5 # << >>
    <3>1. 1 \in DOMAIN v1
      BY <1>2
    <3>2. v5 = << >> => 1 .. n = {}
      BY DEF n
    <3>. QED
      BY <3>1, <3>2
  <2>. QED
    BY <1>1, <1>2, <1>9, <2>2, <2>3, <2>4 DEF Batching!OrderHolds
<1>12. Batching!GroupsHold'
  <2>1. ASSUME NEW p \in 1 .. n, NEW q \in 1 .. n, Batching!Together(p, q)'
        PROVE  Batching!Alike(p, q)'
    <3>1. Unparted(v6', p, q)
      BY <2>1 DEF Batching!Together, Unparted
    <3>2. Batching!Together(p, q)
      BY <1>7, <3>1, BatchTogether
    <3>3. Batching!Alike(p, q)
      BY <1>1, <1>2, <1>3, <3>2 DEF Batching!GroupsHold
    <3>. QED
      BY <1>8, <3>3
  <2>2. ASSUME NEW p \in 1 .. n, NEW q \in 1 .. n, p < q, Batching!Alike(p, q)'
        PROVE  v5[p] < v5[q] /\ \A k \in p .. q : Batching!Alike(p, k)'
    <3>1. v5[p] < v5[q] /\ \A k \in p .. q : Batching!Alike(p, k)
      BY <1>1, <1>2, <1>8, <2>2 DEF Batching!GroupsHold
    <3>2. \A k \in p .. q : k \in 1 .. n
      BY <1>2
    <3>. QED
      BY <1>8, <3>1, <3>2
  <2>3. ASSUME NEW p \in 1 .. n, NEW q \in 1 .. n, p < q, Batching!Together(p, q)',
               ~Batching!Family
        PROVE  q - p < BatchingSize
    <3>1. Unparted(v6', p, q) /\ p <= q
      BY <1>2, <2>3 DEF Batching!Together, Unparted
    <3>. QED
      BY <1>5, <2>3, <3>1
  <2>. QED
    BY <1>1, <1>2, <1>3, <2>1, <2>2, <2>3 DEF Batching!GroupsHold
<1>13. Batching!SentHolds'
  <2>1. DOMAIN v9 = {} /\ UNION {v9[i] : i \in DOMAIN v9} = {}
    BY <1>3
  <2>2. v9' = v9 /\ v8' = DOMAIN v5 /\ v5' = v5
    BY <1>1
  <2>. QED
    BY <1>3, <2>1, <2>2 DEF Batching!SentHolds
<1>14. Batching!FamiliesWhole'
  <2>1. SUFFICES ASSUME Batching!Family, v2 = << >>,
                        NEW p \in 1 .. n, NEW q \in 1 .. n
                 PROVE  (Batching!Parent(v5[p]) = Batching!Parent(v5[q]) <=> Batching!Together(p, q))'
    BY <1>1, <1>2, <1>3 DEF Batching!FamiliesWhole
  <2>2. v6 = {1} /\ \A r \in 1 .. n : v5[r] = r
    BY <1>1, <1>2, <2>1 DEF Batching!OrderHolds
  <2>. DEFINE I == {r \in 1 .. n : v1[r].id}
              P == [r \in 1 .. n |-> Batching!Parent(r)]
  <2>3. \A b : b \in v6' <=> b = 1 \/ b \in I
    BY <1>1, <1>2, <2>1, <2>2 DEF Batching!ByParent
  <2>4. \A r \in 1 .. n : \A a :
           a \in P[r] <=> a \in 1 .. r /\ a \in I /\ \A b \in a + 1 .. r : b \notin I
    <3>1. SUFFICES ASSUME NEW r \in 1 .. n, NEW a
                   PROVE  a \in P[r] <=>
                             a \in 1 .. r /\ a \in I /\ \A b \in a + 1 .. r : b \notin I
      OBVIOUS
    <3>2. P[r] = {b \in 1 .. r : v1[b].id /\ \A d \in b + 1 .. r : ~v1[d].id}
      BY DEF Batching!Parent
    <3>3. \A b \in 1 .. r : b \in I <=> v1[b].id
      BY <1>2
    <3>4. a \in 1 .. r => \A b \in a + 1 .. r : b \in 1 .. r
      BY <1>2
    <3>. HIDE DEF P, I
    <3>. QED
      BY <3>2, <3>3, <3>4
  <2>5. /\ I \in SUBSET (1 .. n) /\ \A r \in 1 .. n : P[r] \in SUBSET Nat
        /\ \A r \in 1 .. n : P[r] = Batching!Parent(r)
    BY DEF Batching!Parent
  <2>. HIDE DEF I, P
  <2>6. ASSUME NEW a \in 1 .. n, NEW b \in 1 .. n, a <= b
        PROVE  P[a] = P[b] <=> Unparted(v6', a, b)
    <3>1. PICK U : U = v6'
      OBVIOUS
    <3>2. \A c : c \in U <=> c = 1 \/ c \in I
      BY <2>3, <3>1
    <3>3. U \in SUBSET Nat
      <4>1. I \in SUBSET (1 .. n)
        BY <2>5
      <4>2. \A c \in I : c \in Nat
        BY <4>1
      <4>3. \A c \in U : c = 1 \/ c \in I
        BY <3>2
      <4>. QED
        BY <4>2, <4>3
    <3>4. P[a] = P[b] <=> Unparted(U, a, b)
      <4>1. n \in Nat /\ I \in SUBSET (1 .. n) /\ \A r \in 1 .. n : P[r] \in SUBSET Nat
        BY <1>2, <2>5
      <4>2. FamiliesOf(n, I, U, P)
        BY <2>4, <3>2, <4>1 DEF FamiliesOf
      <4>. QED
        BY <2>6, <3>3, <4>1, <4>2, BatchFamilies
    <3>. QED
      BY <3>1, <3>4
  <2>7. P[p] = P[q] <=> Unparted(v6', p, q)
    <3>1. p <= q \/ q <= p
      BY <1>2
    <3>2. Unparted(v6', p, q) <=> Unparted(v6', q, p)
      BY DEF Unparted
    <3>. QED
      BY <2>6, <3>1, <3>2
  <2>8. Batching!Parent(v5[p])' = P[p] /\ Batching!Parent(v5[q])' = P[q]
    BY <1>1, <2>2, <2>5 DEF Batching!Parent
  <2>. QED
    BY <2>7, <2>8 DEF Batching!Together, Unparted
<1>. QED
  BY <1>10, <1>11, <1>12, <1>13, <1>14 DEF Batching!BatchInv

(* What a sequence is after another one is put at its end.                 *)
LEMMA BatchesJoined ==
    ASSUME NEW R, NEW s \in Seq(R), NEW t \in Seq(R), NEW u, u = s \o t
    PROVE  /\ u \in Seq(R) /\ Len(s) \in Nat /\ Len(t) \in Nat
           /\ DOMAIN u = 1 .. Len(s) + Len(t)
           /\ DOMAIN s = 1 .. Len(s) /\ DOMAIN t = 1 .. Len(t)
           /\ \A i \in 1 .. Len(s) : u[i] = s[i]
           /\ \A i \in 1 .. Len(t) : u[Len(s) + i] = t[i]
OBVIOUS

(* The items of the longer sequence are those of the two.                  *)
LEMMA BatchesOfBoth ==
    ASSUME NEW a \in Nat, NEW b \in Nat, NEW i \in 1 .. a + b
    PROVE  i \in 1 .. a \/ (i - a \in 1 .. b /\ i = a + (i - a))
OBVIOUS

(* A batch is sent, whole or in pieces.                                    *)
LEMMA BatchSent ==
    ASSUME Batching!BatchInv, NEW p \in v8, Batching!First(p),
           NEW t, t \in Seq(SUBSET Batching!Batch(p)),
           \A i \in DOMAIN t : t[i] # {},
           \A r \in Batching!Batch(p) : \E i \in DOMAIN t : r \in t[i],
           \A i, j \in DOMAIN t : i < j => \A r \in t[i], s \in t[j] : r < s,
           v9' = v9 \o t, v8' = v8 \ Batching!Batch(p),
           UNCHANGED <<v1, v2, v3, v4, v5, v6, v7>>
    PROVE  Batching!BatchInv'
<1>. DEFINE n == Len(v5)
            D == 1 .. n
            B == Batching!Batch(p)
<1>1. /\ Batching!TypeOK /\ Batching!OrderHolds /\ Batching!GroupsHold /\ Batching!SentHolds
      /\ Batching!FamiliesWhole
  BY DEF Batching!BatchInv
<1>2. /\ n \in Nat /\ DOMAIN v5 = D /\ v6 \subseteq D /\ v8 \subseteq D
      /\ v9 \in Seq(SUBSET D)
  BY <1>1, BatchTypes
<1>3. Batching!Made /\ Batching!Made'
  BY <1>1 DEF Batching!SentHolds, Batching!Made
<1>4. /\ B \subseteq v8 /\ \A q \in B : Batching!Together(p, q)
      /\ \A q \in v8 : Batching!Together(p, q) => q \in B
  BY DEF Batching!Batch
<1>5. t \in Seq(SUBSET D)
  <2>1. SUBSET B \subseteq SUBSET D
    BY <1>2, <1>4
  <2>. QED
    BY <2>1, SequencesGrow
<1>6. PICK u : u = v9'
  OBVIOUS
<1>. DEFINE a == Len(v9)
            b == Len(t)
<1>7. /\ u \in Seq(SUBSET D) /\ a \in Nat /\ b \in Nat
      /\ DOMAIN u = 1 .. a + b /\ DOMAIN v9 = 1 .. a /\ DOMAIN t = 1 .. b
      /\ \A i \in 1 .. a : u[i] = v9[i]
      /\ \A i \in 1 .. b : u[a + i] = t[i]
  <2>1. PICK R : R = SUBSET D
    OBVIOUS
  <2>2. v9 \in Seq(R) /\ t \in Seq(R)
    BY <1>2, <1>5, <2>1
  <2>. HIDE DEF D
  <2>3. /\ u \in Seq(R) /\ Len(v9) \in Nat /\ Len(t) \in Nat
        /\ DOMAIN u = 1 .. Len(v9) + Len(t)
        /\ DOMAIN v9 = 1 .. Len(v9) /\ DOMAIN t = 1 .. Len(t)
        /\ \A i \in 1 .. Len(v9) : u[i] = v9[i]
        /\ \A i \in 1 .. Len(t) : u[Len(v9) + i] = t[i]
    BY <1>6, <2>2, BatchesJoined
  <2>. QED
    BY <2>1, <2>3
<1>8. \A i \in 1 .. b : t[i] # {} /\ t[i] \subseteq B
  <2>1. PICK R : R = SUBSET B
    OBVIOUS
  <2>2. \A i \in DOMAIN t : t[i] \in R
    BY <2>1, SequenceElements
  <2>. QED
    BY <1>7, <2>1, <2>2
<1>. HIDE DEF a, b, B, D
<1>9. /\ \A r \in B : \E i \in 1 .. b : r \in t[i]
      /\ \A i, j \in 1 .. b : i < j => \A r \in t[i], s \in t[j] : r < s
  BY <1>7 DEF B
<1>10. \A i \in 1 .. a : v9[i] # {} /\ \A r \in v9[i] :
          /\ \A q \in v8 : r < q /\ ~Batching!Together(r, q)
          /\ \A q \in v9[i] : Batching!Together(r, q)
  BY <1>1, <1>7 DEF Batching!SentHolds
<1>11. \A i, j \in 1 .. a : i < j => \A r \in v9[i], s \in v9[j] : r < s
  BY <1>1, <1>7 DEF Batching!SentHolds
<1>12. \A r, s : Batching!Together(r, s)' <=> Batching!Together(r, s)
  BY DEF Batching!Together
<1>13. \A q \in v8 : p <= q
  BY DEF Batching!First
<1>14. \A r \in B, q \in v8 \ B : r < q /\ ~Batching!Together(r, q)
  <2>1. ASSUME NEW r \in B, NEW q \in v8 \ B PROVE ~Batching!Together(r, q)
    <3>1. Batching!Together(p, r)
      BY <1>4
    <3>2. ~Batching!Together(p, q)
      BY <1>4
    <3>. QED
      BY <3>1, <3>2 DEF Batching!Together
  <2>2. ASSUME NEW r \in B, NEW q \in v8 \ B, ~(r < q) PROVE FALSE
    <3>1. /\ r \in v8 /\ q \in v8 /\ r \in Nat /\ q \in Nat /\ p \in Nat
          /\ p <= q /\ q <= r
      <4>1. r \in v8 /\ q \in v8 /\ p \in v8
        BY <1>4
      <4>2. r \in D /\ q \in D /\ p \in D
        BY <1>2, <4>1
      <4>. QED
        BY <1>2, <1>13, <2>2, <4>1, <4>2 DEF D
    <3>2. Batching!Together(p, r)
      BY <1>4
    <3>3. ASSUME NEW c \in v6 PROVE c <= p <=> c <= q
      <4>1. c \in Nat /\ (c <= p <=> c <= r)
        BY <1>2, <3>2 DEF Batching!Together, D
      <4>. QED
        BY <3>1, <4>1
    <3>4. Batching!Together(p, q)
      BY <3>3 DEF Batching!Together
    <3>. QED
      BY <1>4, <2>2, <3>4
  <2>. QED
    BY <2>1, <2>2
<1>15. \A r, s \in B : Batching!Together(r, s)
  BY <1>4 DEF Batching!Together
<1>16. Batching!SentHolds'
  <2>1. Batching!Made' => v8' \cup UNION {u[i] : i \in DOMAIN u} = D
    <3>1. v8 \cup UNION {v9[i] : i \in 1 .. a} = D
      BY <1>1, <1>2, <1>3, <1>7 DEF Batching!SentHolds
    <3>2. \A i \in 1 .. b : a + i \in 1 .. a + b
      BY <1>7
    <3>3. \A i \in 1 .. a : i \in 1 .. a + b
      BY <1>7
    <3>4. ASSUME NEW r \in D PROVE r \in v8' \/ \E i \in 1 .. a + b : r \in u[i]
      <4>1. CASE r \in B
        BY <1>7, <1>9, <3>2, <4>1
      <4>2. CASE r \in v8 \ B
        BY <4>2 DEF B
      <4>3. CASE r \notin v8
        <5>1. PICK i \in 1 .. a : r \in v9[i]
          BY <3>1, <4>3
        <5>. QED
          BY <1>7, <3>3, <5>1
      <4>. QED
        BY <4>1, <4>2, <4>3
    <3>5. \A i \in 1 .. a + b : u[i] \subseteq D
      <4>1. PICK R : R = SUBSET D
        OBVIOUS
      <4>2. \A i \in DOMAIN u : u[i] \in R
        BY <1>7, <4>1, SequenceElements
      <4>. QED
        BY <1>7, <4>1, <4>2
    <3>6. v8' \subseteq D
      BY <1>2
    <3>7. \A r : r \in UNION {u[i] : i \in DOMAIN u} <=> \E i \in 1 .. a + b : r \in u[i]
      BY <1>7
    <3>8. \A r : r \in v8' \cup UNION {u[i] : i \in DOMAIN u} <=> r \in D
      BY <3>4, <3>5, <3>6, <3>7
    <3>. QED
      BY <3>8
  <2>2. ASSUME NEW i \in 1 .. a + b
        PROVE  u[i] # {} /\ \A r \in u[i] :
                  /\ \A q \in v8' : r < q /\ ~Batching!Together(r, q)
                  /\ \A q \in u[i] : Batching!Together(r, q)
    <3>1. v8' \subseteq v8 /\ v8' = v8 \ B
      BY DEF B
    <3>2. CASE i \in 1 .. a
      BY <1>7, <1>10, <3>1, <3>2
    <3>3. CASE i - a \in 1 .. b /\ i = a + (i - a)
      <4>1. u[i] = t[i - a]
        BY <1>7, <3>3
      <4>2. u[i] # {} /\ u[i] \subseteq B
        BY <1>8, <3>3, <4>1
      <4>. QED
        BY <1>14, <1>15, <3>1, <4>2
    <3>. QED
      BY <1>7, <3>2, <3>3, BatchesOfBoth
  <2>3. ASSUME NEW i \in 1 .. a + b, NEW j \in 1 .. a + b, i < j,
               NEW r \in u[i], NEW s \in u[j]
        PROVE  r < s
    <3>1. CASE j \in 1 .. a
      <4>1. i \in 1 .. a
        BY <1>7, <2>3, <3>1
      <4>. QED
        BY <1>7, <1>11, <2>3, <3>1, <4>1
    <3>2. CASE j - a \in 1 .. b /\ j = a + (j - a)
      <4>1. s \in t[j - a] /\ t[j - a] \subseteq B
        BY <1>7, <1>8, <3>2
      <4>2. CASE i \in 1 .. a
        <5>1. r \in v9[i] /\ s \in v8
          BY <1>4, <1>7, <4>1, <4>2
        <5>. QED
          BY <1>10, <4>2, <5>1
      <4>3. CASE i - a \in 1 .. b /\ i = a + (i - a)
        <5>1. r \in t[i - a]
          BY <1>7, <4>3
        <5>2. i - a < j - a
          BY <1>7, <2>3
        <5>. QED
          BY <1>9, <3>2, <4>1, <4>3, <5>1, <5>2
      <4>. QED
        BY <1>7, <4>2, <4>3, BatchesOfBoth
    <3>. QED
      BY <1>7, <3>1, <3>2, BatchesOfBoth
  <2>4. v5' = v5 /\ v9' = u /\ DOMAIN v5 = D /\ DOMAIN u = 1 .. a + b
    BY <1>2, <1>6, <1>7
  <2>. QED
    BY <1>3, <1>12, <2>1, <2>2, <2>3, <2>4 DEF Batching!SentHolds
<1>17. Batching!TypeOK'
  <2>1. v8' \subseteq D
    BY <1>2
  <2>. QED
    BY <1>1, <1>2, <1>6, <1>7, <2>1 DEF Batching!TypeOK
<1>18. Batching!OrderHolds' /\ Batching!GroupsHold' /\ Batching!FamiliesWhole'
  <2>1. Batching!OrderHolds'
    BY <1>1 DEF Batching!OrderHolds, Batching!Header
  <2>2. Batching!GroupsHold'
    <3>1. \A r, s : Batching!Alike(r, s)' <=> Batching!Alike(r, s)
      BY DEF Batching!Alike, Batching!Cell
    <3>2. Batching!Family' <=> Batching!Family
      BY DEF Batching!Family
    <3>. QED
      BY <1>1, <1>3, <1>12, <3>1, <3>2 DEF Batching!GroupsHold
  <2>3. Batching!FamiliesWhole'
    BY <1>1, <1>3, <1>12 DEF Batching!FamiliesWhole, Batching!Family, Batching!Parent
  <2>. QED
    BY <2>1, <2>2, <2>3
<1>. QED
  BY <1>16, <1>17, <1>18 DEF Batching!BatchInv

(* A batch sent whole.                                                     *)
LEMMA BatchSubmitWhole ==
    ASSUME Batching!BatchInv, Batching!SubmitWhole
    PROVE  Batching!BatchInv'
<1>1. PICK p \in v8 : /\ Batching!First(p) /\ v8' = v8 \ Batching!Batch(p)
                      /\ v9' = Append(v9, Batching!Batch(p))
  BY DEF Batching!SubmitWhole
<1>. DEFINE B == Batching!Batch(p)
            t == <<B>>
<1>2. UNCHANGED <<v1, v2, v3, v4, v5, v6, v7>>
  BY DEF Batching!SubmitWhole
<1>3. p \in B /\ B \subseteq v8
  BY DEF Batching!Batch, Batching!Together
<1>. HIDE DEF B
<1>4. t \in Seq(SUBSET B) /\ DOMAIN t = {1} /\ t[1] = B
  OBVIOUS
<1>5. v9' = v9 \o t
  <2>1. PICK R : R = SUBSET (1 .. Len(v5))
    OBVIOUS
  <2>2. v9 \in Seq(R) /\ B \in R
    BY <1>3, <2>1, BatchTypes DEF Batching!BatchInv
  <2>3. v9' = Append(v9, B)
    BY <1>1 DEF B
  <2>. QED
    BY <2>2, <2>3
<1>6. \A i \in DOMAIN t : t[i] # {}
  BY <1>3, <1>4
<1>7. \A r \in B : \E i \in DOMAIN t : r \in t[i]
  BY <1>4
<1>8. \A i, j \in DOMAIN t : i < j => \A r \in t[i], s \in t[j] : r < s
  BY <1>4
<1>. HIDE DEF t
<1>. QED
  BY <1>1, <1>2, <1>4, <1>5, <1>6, <1>7, <1>8, BatchSent DEF B

(* A batch sent in pieces.                                                 *)
LEMMA BatchSubmit ==
    ASSUME Batching!BatchInv, NEW size \in BatchingSizes, Batching!Submit(size)
    PROVE  Batching!BatchInv'
<1>1. PICK p \in v8 :
         /\ Batching!First(p) /\ v8' = v8 \ Batching!Batch(p)
         /\ v9' = v9 \o [i \in 1 .. Batching!SliceCount(Batching!Batch(p), size) |->
                              Batching!Slice(Batching!Batch(p), size, i)]
  BY DEF Batching!Submit
<1>. DEFINE B == Batching!Batch(p)
            m == SliceCount(B, size)
            t == [i \in 1 .. m |-> Slice(B, size, i)]
<1>2. UNCHANGED <<v1, v2, v3, v4, v5, v6, v7>> /\ size \in Nat \ {0}
  BY BatchingAssumption DEF Batching!Submit
<1>3. B \in SUBSET Nat /\ IsFiniteSet(B)
  <2>1. Len(v5) \in Nat /\ v8 \subseteq 1 .. Len(v5)
    BY BatchTypes DEF Batching!BatchInv
  <2>2. B \subseteq 1 .. Len(v5)
    BY <2>1 DEF Batching!Batch
  <2>3. IsFiniteSet(1 .. Len(v5))
    BY <2>1, FS_Interval
  <2>4. \A q \in 1 .. Len(v5) : q \in Nat
    BY <2>1
  <2>. QED
    BY <2>2, <2>3, <2>4, FS_Subset
<1>4. \A S, k, i : Batching!Slice(S, k, i) = Slice(S, k, i)
                /\ Batching!SliceCount(S, k) = SliceCount(S, k)
  BY DEF Batching!Slice, Slice, Batching!SliceCount, SliceCount, Batching!Pos, Pos,
         Batching!Cardinality, Cardinality
<1>. HIDE DEF B
<1>5. /\ m \in Nat /\ \A i \in 1 .. m : Slice(B, size, i) \subseteq B /\ Slice(B, size, i) # {}
      /\ \A r \in B : \E i \in 1 .. m : r \in Slice(B, size, i)
  <2>1. m \in Nat /\ \A r \in B : \E i \in 1 .. m : r \in Slice(B, size, i)
    BY <1>2, <1>3, SlicesPartition
  <2>2. \A i \in 1 .. m : Slice(B, size, i) # {}
    BY <1>2, <1>3, SlicesBounded
  <2>3. \A i : Slice(B, size, i) \subseteq B
    BY DEF Slice
  <2>. QED
    BY <2>1, <2>2, <2>3
<1>6. \A i, j \in 1 .. m : i < j =>
         \A r \in Slice(B, size, i), s \in Slice(B, size, j) : r < s
  <2>1. ASSUME NEW i \in 1 .. m, NEW j \in 1 .. m, i < j,
               NEW r \in Slice(B, size, i), NEW s \in Slice(B, size, j)
        PROVE  r < s
    <3>1. /\ r \in B /\ s \in B /\ r \in Nat /\ s \in Nat
          /\ Pos(B, r) <= i * size /\ (j - 1) * size < Pos(B, s)
      BY <1>3 DEF Slice
    <3>2. Pos(B, r) \in Nat /\ Pos(B, s) \in Nat
      BY <1>3, <3>1, Positions
    <3>3. i * size <= (j - 1) * size /\ i * size \in Nat /\ (j - 1) * size \in Nat
      <4>1. i \in Nat /\ j \in Nat /\ j - 1 \in Nat
        BY <1>5
      <4>. QED
        BY <1>2, <2>1, <4>1, SlicesInOrder
    <3>4. Pos(B, r) < Pos(B, s)
      BY <3>1, <3>2, <3>3
    <3>5. s < r => Pos(B, s) < Pos(B, r)
      BY <1>3, <3>1, PositionsGrow
    <3>6. r # s
      BY <3>2, <3>4
    <3>7. ~(s < r)
      BY <3>2, <3>4, <3>5
    <3>. QED
      BY <3>1, <3>6, <3>7
  <2>. QED
    BY <2>1
<1>. HIDE DEF m
<1>7. /\ DOMAIN t = 1 .. m /\ t = [i \in 1 .. m |-> t[i]]
      /\ \A i \in 1 .. m : t[i] = Slice(B, size, i)
  OBVIOUS
<1>8. v9' = v9 \o t
  BY <1>1, <1>4 DEF B, m
<1>. HIDE DEF t
<1>9. t \in Seq(SUBSET B)
  <2>1. \A i \in 1 .. m : t[i] \in SUBSET B
    BY <1>5, <1>7
  <2>. QED
    BY <1>5, <1>7, <2>1, SequenceOf
<1>10. \A i \in DOMAIN t : t[i] # {}
  BY <1>5, <1>7
<1>11. \A r \in B : \E i \in DOMAIN t : r \in t[i]
  BY <1>5, <1>7
<1>12. \A i, j \in DOMAIN t : i < j => \A r \in t[i], s \in t[j] : r < s
  BY <1>6, <1>7
<1>. QED
  BY <1>1, <1>2, <1>8, <1>9, <1>10, <1>11, <1>12, BatchSent DEF B

LEMMA BatchInitHolds == ASSUME Batching!Init PROVE Batching!BatchInv
<1>1. /\ v1 \in BatchingFiles /\ v2 \in BatchingRequests /\ v3 \in BOOLEAN /\ v4 \in BOOLEAN
      /\ v5 = [r \in DOMAIN v1 |-> r] /\ v6 = {1} /\ v7 = 0 /\ v8 = {} /\ v9 = << >>
  BY DEF Batching!Init
<1>2. Len(v1) \in Nat \ {0} /\ DOMAIN v1 = 1 .. Len(v1)
  <2>1. v1 \in Seq([id : BOOLEAN, val : Seq(Nat)])
    BY <1>1, BatchingAssumption
  <2>2. v1 # << >>
    BY <1>1, BatchingAssumption
  <2>. QED
    BY <2>1, <2>2
<1>3. Len(v2) \in Nat /\ DOMAIN v2 = 1 .. Len(v2)
  <2>1. v2 \in Seq(Nat)
    BY <1>1, BatchingAssumption
  <2>. QED
    BY <2>1
<1>4. DOMAIN v5 = DOMAIN v1 /\ \A p \in DOMAIN v1 : v5[p] = p
  BY <1>1
<1>5. v5 \in Seq(DOMAIN v1)
  <2>1. v5 = [i \in 1 .. Len(v1) |-> v5[i]] /\ DOMAIN v5 = 1 .. Len(v1)
    BY <1>1, <1>2, <1>4
  <2>2. \A i \in 1 .. Len(v1) : v5[i] \in DOMAIN v1
    BY <1>2, <1>4
  <2>. QED
    BY <1>2, <2>1, <2>2, SequenceOf
<1>6. ~Batching!Made
  BY <1>1, <1>3 DEF Batching!Made
<1>7. Batching!TypeOK
  <2>1. v9 \in Seq(SUBSET DOMAIN v5)
    BY <1>1, SequenceEmpty
  <2>2. v7 \in 0 .. Len(v2) + 1 /\ v6 \subseteq DOMAIN v5 /\ v8 \subseteq DOMAIN v5
    BY <1>1, <1>2, <1>3, <1>4
  <2>. QED
    BY <1>1, <1>5, <2>1, <2>2 DEF Batching!TypeOK
<1>8. \A i \in DOMAIN v2 : ~(i <= v7)
  BY <1>1, <1>3
<1>9. Batching!OrderHolds
  BY <1>1, <1>4, <1>8 DEF Batching!OrderHolds
<1>10. Batching!GroupsHold
  <2>1. \A p, q \in DOMAIN v5 : Batching!Together(p, q) /\ Batching!Alike(p, q)
    <3>1. \A p \in DOMAIN v5 : 1 <= p
      BY <1>2, <1>4
    <3>. QED
      BY <1>1, <1>8, <3>1 DEF Batching!Together, Batching!Alike
  <2>2. \A p, k : Batching!Alike(p, k)
    BY <1>8 DEF Batching!Alike
  <2>. QED
    BY <1>4, <1>6, <2>1, <2>2 DEF Batching!GroupsHold
<1>11. Batching!SentHolds /\ Batching!FamiliesWhole
  BY <1>1, <1>6 DEF Batching!SentHolds, Batching!FamiliesWhole
<1>. QED
  BY <1>7, <1>9, <1>10, <1>11 DEF Batching!BatchInv

LEMMA BatchStill == Batching!BatchInv /\ UNCHANGED Batching!vars => Batching!BatchInv'
<1>. SUFFICES ASSUME Batching!BatchInv, UNCHANGED Batching!vars PROVE Batching!BatchInv'
  OBVIOUS
<1>1. UNCHANGED <<v1, v2, v3, v4, v5, v6, v7, v8, v9>>
  BY DEF Batching!vars
<1>2. \A p, q : (Batching!Together(p, q)' <=> Batching!Together(p, q))
              /\ (Batching!Alike(p, q)' <=> Batching!Alike(p, q))
  BY <1>1 DEF Batching!Together, Batching!Alike, Batching!Cell
<1>3. (Batching!Made' <=> Batching!Made) /\ (Batching!Family' <=> Batching!Family)
      /\ Batching!Header' = Batching!Header
      /\ \A r : Batching!Parent(r)' = Batching!Parent(r)
  BY <1>1 DEF Batching!Made, Batching!Family, Batching!Header, Batching!Parent
<1>4. Batching!TypeOK'
  BY <1>1 DEF Batching!BatchInv, Batching!TypeOK
<1>5. Batching!OrderHolds'
  BY <1>1, <1>3 DEF Batching!BatchInv, Batching!OrderHolds
<1>6. Batching!GroupsHold'
  BY <1>1, <1>2, <1>3 DEF Batching!BatchInv, Batching!GroupsHold
<1>7. Batching!SentHolds'
  BY <1>1, <1>2, <1>3 DEF Batching!BatchInv, Batching!SentHolds
<1>8. Batching!FamiliesWhole'
  BY <1>1, <1>2, <1>3 DEF Batching!BatchInv, Batching!FamiliesWhole
<1>. QED
  BY <1>4, <1>5, <1>6, <1>7, <1>8 DEF Batching!BatchInv

(* BatchInv holds in the first state and is kept by every step.            *)
THEOREM BatchesKeepTheirGroups == Batching!Spec => []Batching!BatchInv
<1>1. Batching!Init => Batching!BatchInv
  BY BatchInitHolds
<1>2. Batching!BatchInv /\ [Batching!Next]_Batching!vars => Batching!BatchInv'
  BY BatchStill, BatchGroupBy, BatchGroupByNone, BatchCreate, BatchSubmitWhole, BatchSubmit
     DEF Batching!Next
<1>. QED
  BY <1>1, <1>2, PTL DEF Batching!Spec

LEMMA BatchGivesRight == ASSUME Batching!BatchInv PROVE Batching!BatchesAreRight
<1>1. /\ Batching!TypeOK /\ Batching!OrderHolds /\ Batching!GroupsHold /\ Batching!SentHolds
      /\ Batching!FamiliesWhole
  BY DEF Batching!BatchInv
<1>2. /\ Len(v5) \in Nat /\ DOMAIN v5 = 1 .. Len(v5) /\ v9 \in Seq(SUBSET (1 .. Len(v5)))
      /\ v8 \subseteq 1 .. Len(v5) /\ v7 \in 0 .. Len(v2) + 1 /\ Len(v2) \in Nat
      /\ DOMAIN v2 = 1 .. Len(v2) /\ \A p \in 1 .. Len(v5) : v5[p] \in DOMAIN v1
  BY <1>1, BatchTypes
<1>3. Len(v9) \in Nat /\ DOMAIN v9 = 1 .. Len(v9)
      /\ \A i \in DOMAIN v9 : v9[i] \subseteq 1 .. Len(v5)
  <2>1. PICK R : R = SUBSET (1 .. Len(v5))
    OBVIOUS
  <2>2. v9 \in Seq(R)
    BY <1>2, <2>1
  <2>3. Len(v9) \in Nat /\ DOMAIN v9 = 1 .. Len(v9) /\ \A i \in DOMAIN v9 : v9[i] \in R
    BY <2>2
  <2>. QED
    BY <2>1, <2>3
<1>4. \A i, j \in DOMAIN v9 : i < j => \A p \in v9[i], q \in v9[j] : p < q
  BY <1>1 DEF Batching!SentHolds
<1>5. Batching!EachRowSentOnce
  <2>1. /\ \A p, q \in DOMAIN v5 : v5[p] = v5[q] => p = q
        /\ \A i \in DOMAIN v9 : v9[i] # {}
    BY <1>1 DEF Batching!OrderHolds, Batching!SentHolds
  <2>2. ASSUME NEW i \in DOMAIN v9, NEW j \in DOMAIN v9, i # j,
               NEW p \in v9[i], p \in v9[j]
        PROVE  FALSE
    <3>1. i < j \/ j < i
      BY <1>3, <2>2
    <3>2. p < p
      BY <1>4, <2>2, <3>1
    <3>3. p \in 1 .. Len(v5)
      BY <1>3
    <3>. QED
      BY <1>2, <3>2, <3>3
  <2>3. ASSUME Batching!Made, v8 = {}
        PROVE  {v5[p] : p \in UNION {v9[i] : i \in DOMAIN v9}} =
                  IF Batching!Known THEN DOMAIN v1 ELSE {}
    <3>1. UNION {v9[i] : i \in DOMAIN v9} = DOMAIN v5
      BY <1>1, <2>3 DEF Batching!SentHolds
    <3>2. \A i \in DOMAIN v2 : i <= v7
      BY <1>2, <2>3 DEF Batching!Made
    <3>3. Batching!Known <=> \A i \in DOMAIN v2 : i <= v7 => v2[i] \in Batching!Header
      BY <3>2 DEF Batching!Known
    <3>4. CASE Batching!Known
      <4>1. \A r \in DOMAIN v1 : \E p \in DOMAIN v5 : v5[p] = r
        BY <1>1, <3>3, <3>4 DEF Batching!OrderHolds
      <4>2. {v5[p] : p \in DOMAIN v5} = DOMAIN v1
        BY <1>2, <4>1
      <4>. QED
        BY <3>1, <3>4, <4>2
    <3>5. CASE ~Batching!Known
      <4>1. v5 = << >>
        BY <1>1, <3>3, <3>5 DEF Batching!OrderHolds
      <4>2. DOMAIN v5 = {}
        BY <4>1
      <4>. QED
        BY <3>1, <3>5, <4>2
    <3>. QED
      BY <3>4, <3>5
  <2>. QED
    BY <2>1, <2>2, <2>3 DEF Batching!EachRowSentOnce
<1>6. Batching!GroupsTogether
  BY <1>1, <1>4 DEF Batching!GroupsTogether, Batching!GroupsHold
<1>7. \A i \in DOMAIN v9 : \A p, q \in v9[i] : Batching!Together(p, q)
  BY <1>1 DEF Batching!SentHolds
<1>8. \A i \in DOMAIN v9 : Batching!Made
  <2>1. ~Batching!Made => DOMAIN v9 = {}
    BY <1>1 DEF Batching!SentHolds
  <2>. QED
    BY <2>1
<1>9. Batching!OneGroupEach
  <2>1. ASSUME NEW i \in DOMAIN v9, NEW p \in v9[i], NEW q \in v9[i] PROVE Batching!Alike(p, q)
    <3>1. p \in DOMAIN v5 /\ q \in DOMAIN v5
      BY <1>2, <1>3
    <3>. QED
      BY <1>1, <1>7, <1>8, <3>1 DEF Batching!GroupsHold
  <2>. QED
    BY <2>1 DEF Batching!OneGroupEach
<1>10. Batching!WithinSize
  <2>1. ASSUME ~Batching!Family, NEW i \in DOMAIN v9 PROVE Cardinality(v9[i]) <= BatchingSize
    <3>1. v9[i] \in SUBSET Nat /\ v9[i] # {} /\ v9[i] \subseteq 1 .. Len(v5)
      <4>1. v9[i] \subseteq 1 .. Len(v5)
        BY <1>3
      <4>2. \A p \in 1 .. Len(v5) : p \in Nat
        BY <1>2
      <4>3. v9[i] # {}
        BY <1>1 DEF Batching!SentHolds
      <4>. QED
        BY <4>1, <4>2, <4>3
    <3>2. PICK p \in v9[i] : \A q \in v9[i] : p <= q
      BY <3>1, LeastExists
    <3>3. ASSUME NEW q \in v9[i] PROVE q \in p .. p + BatchingSize - 1
      <4>1. /\ p \in DOMAIN v5 /\ q \in DOMAIN v5 /\ p \in Nat /\ q \in Nat /\ p <= q
            /\ BatchingSize \in Nat \ {0}
        BY <1>2, <3>1, <3>2, BatchingAssumption
      <4>2. p < q => q - p < BatchingSize
        BY <1>1, <1>7, <1>8, <2>1, <4>1 DEF Batching!GroupsHold
      <4>. QED
        BY <4>1, <4>2
    <3>4. p \in Nat /\ BatchingSize \in Nat \ {0}
      BY <3>1, BatchingAssumption
    <3>5. IsFiniteSet(p .. p + BatchingSize - 1)
          /\ Cardinality(p .. p + BatchingSize - 1) = BatchingSize
      <4>1. p + BatchingSize - 1 \in Nat
            /\ (p + BatchingSize - 1) - p + 1 = BatchingSize /\ p <= p + BatchingSize - 1
        BY <3>4
      <4>. QED
        BY <3>4, <4>1, FS_Interval
    <3>. DEFINE J == p .. p + BatchingSize - 1
    <3>6. IsFiniteSet(J) /\ Cardinality(J) = BatchingSize /\ v9[i] \in SUBSET J
      BY <3>3, <3>5
    <3>. HIDE DEF J
    <3>7. Cardinality(v9[i]) <= Cardinality(J)
      BY <3>6, FS_Subset
    <3>. QED
      BY <3>6, <3>7
  <2>2. \A S : Batching!Cardinality(S) = Cardinality(S)
    BY DEF Batching!Cardinality, Cardinality
  <2>. QED
    BY <2>1, <2>2 DEF Batching!WithinSize
<1>. QED
  BY <1>1, <1>5, <1>6, <1>9, <1>10 DEF Batching!BatchesAreRight

(* For any file, --groupby, --size and pace: each row is sent once, no     *)
(* batch mixes groups or exceeds --size, groups are sent together and in   *)
(* file order, and families are whole (_create_batches,                    *)
(* _recursive_create_batches, _run_threaded_pass).                         *)
THEOREM BatchesPartTheFile == Batching!Spec => []BatchesAreRight
<1>1. Batching!BatchInv => BatchesAreRight
  BY BatchGivesRight DEF BatchesAreRight
<1>. QED
  BY <1>1, BatchesKeepTheirGroups, PTL
=============================================================================
