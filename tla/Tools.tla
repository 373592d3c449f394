------------------------------- MODULE Tools -------------------------------
(***************************************************************************)
(* The three tools that work through records of the server and the runner  *)
(* of flows, next to each other for any constants; Tools_proofs is about   *)
(* them, and MCParts runs them on small ones.                              *)
(***************************************************************************)
EXTENDS PartVariables, Integers, Sequences, FiniteSets

CONSTANTS    \* of DefaultVariants, InvoiceWorkflow, VatCheck and FlowRun, see there
    VariantsCommand, VariantsTemplate, VariantsBatch, VariantsUnique, VariantsFaults,
    InvoicesInvoice, InvoicesLegacy, InvoicesTaxes, InvoicesWorkers, InvoicesRuns,
    InvoicesFaults,
    ViesPartner, ViesBatch, ViesMax, ViesNotified, ViesFaults, ViesEdits,
    FlowName, FlowTexts, FlowOverride, FlowDepth, FlowFiles, FlowFailFile, FlowFaults

Variants ==
    INSTANCE DefaultVariants WITH
        Command <- VariantsCommand, Template <- VariantsTemplate,
        BatchSize <- VariantsBatch, Unique <- VariantsUnique, MaxFaults <- VariantsFaults,
        variants <- v1, kind <- v2, scope <- v3, at <- v4, todo <- v5, batch <- v6,
        created <- v7, failed <- v8, found <- v9, told <- v10, faults <- v11

(* A catalogue has finitely many templates, in the order of their ids, and *)
(* only so many commands are given.                                        *)
ASSUME VariantsAssumption ==
    /\ IsFiniteSet(VariantsCommand)
    /\ VariantsTemplate \subseteq Nat /\ IsFiniteSet(VariantsTemplate)
    /\ VariantsFaults \in Nat

Invoices ==
    INSTANCE InvoiceWorkflow WITH
        Invoice <- InvoicesInvoice, Legacy <- InvoicesLegacy, TaxCount <- InvoicesTaxes,
        Workers <- InvoicesWorkers, MaxRuns <- InvoicesRuns, MaxFaults <- InvoicesFaults,
        state <- v1, taxes <- v2, payments <- v3, renamed <- v4, chosen <- v5, action <- v6,
        todo <- v7, task <- v8, searched <- v9, broken <- v10, runs <- v11, faults <- v12

(* Invoices come in one of the states that the workflow knows, with at     *)
(* least one tax to compute.                                               *)
ASSUME InvoicesAssumption ==
    /\ InvoicesLegacy \in [InvoicesInvoice -> {"open", "paid", "proforma"}]
    /\ InvoicesTaxes \in Nat \ {0} /\ InvoicesRuns \in Nat /\ InvoicesFaults \in Nat

Vies ==
    INSTANCE VatCheck WITH
        Partner <- ViesPartner, BatchSize <- ViesBatch, MaxRecords <- ViesMax,
        Notified <- ViesNotified, MaxFaults <- ViesFaults, MaxEdits <- ViesEdits,
        order <- v1, vat <- v2, genuine <- v3, at <- v4, total <- v5, offset <- v6,
        page <- v7, counted <- v8, valid <- v9, invalid <- v10, erred <- v11,
        blank <- v12, guessed <- v13, told <- v14, faults <- v15, edits <- v16

(* There are finitely many partners, and a page has room for one.  Without *)
(* a limit ViesMax is 0.                                                   *)
ASSUME ViesAssumption ==
    /\ IsFiniteSet(ViesPartner) /\ ViesBatch \in Nat \ {0} /\ ViesMax \in Nat
    /\ ViesFaults \in Nat /\ ViesEdits \in Nat

Flow ==
    INSTANCE FlowRun WITH
        Name <- FlowName, Texts <- FlowTexts, Override <- FlowOverride,
        MaxDepth <- FlowDepth, Flows <- FlowFiles, FailFile <- FlowFailFile,
        MaxFaults <- FlowFaults, raw <- v1, resolving <- v2, resolved <- v3, flows <- v4,
        selected <- v5, phase <- v6, error <- v7, results <- v8, fates <- v9,
        onDisk <- v10, aborted <- v11, exit <- v12, faults <- v13

(* Texts refer to names, at most so deep; a file has been parsed, so each  *)
(* step says what to do about an error.                                    *)
ASSUME FlowAssumption ==
    /\ \A text \in FlowTexts :
          DOMAIN text \subseteq FlowName /\ \A n \in DOMAIN text : text[n] \in Seq(FlowName)
    /\ FlowOverride \subseteq Seq(FlowName)
    /\ FlowDepth \in Nat \ {0} /\ FlowFaults \in Nat
    /\ \A f \in FlowFiles :
          f.steps \in Seq([flow : DOMAIN f.names, command : STRING,
                          onError : {"abort", "continue"},
                          flowOnError : {"abort", "continue"}, file : FlowFailFile])
-----------------------------------------------------------------------------
(* A VAT number is reported as what its check said, an invoice goes        *)
(* through every step once, and every template gets its variants or is     *)
(* counted as failed (vies_manager.py, invoice_v9.py, variant_manager.py). *)
ToolsAreSound ==
    /\ part = "vies" => Vies!CheckIsHonest
    /\ part = "invoices" => Invoices!InvoicesAreSound
    /\ part = "variants" => Variants!VariantsAreSound

(* Cycles, unknown names and too deep references are refused and nothing   *)
(* else is; the steps run in order until the one that aborts, and exit     *)
(* code and failed rows are of this run (lib/flow.py, lib/flow_runner.py). *)
FlowIsSound == part = "flow" => Flow!FlowIsSound
=============================================================================
