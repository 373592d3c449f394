\* LoadBatch: a server that may also store some of the rows, rows without an
\* external id, and rows too short to be sent
CONSTANTS
    N = 4
    Xid <- SomeIds
    Ragged = {2}
    Short = {2}
    Bad = {}
    Ignoring = TRUE
    Modes = {"batch"}
    MaxSerial = 2
    Shapes = {"all", "none", "short"}
    MaxLost = 1
    \* BatchPlan
    BatchingFiles <- BatchFiles
    BatchingRequests <- BatchRequests
    BatchingSize = 2
    BatchingSizes = {1, 2}
    \* SudoCommand
    SudoUser = {"u1", "u2"}
    SudoRule = {"r1", "r2"}
    SudoModelRules <- RulesOfModels
    SudoProduct = {"x", "y", "z"}
    SudoImported <- ImportedByUsers
    SudoFaults = 1
    SudoEdits = 1
    \* Throttle
    PacingThread = {1, 2}
    PacingTimes = {1, 6}
    PacingThresholds <- ResponseThresholds
    PacingWindow = 2
    PacingRecovery = 2
    PacingPower = 1
    PacingErrors = 2
    \* ExportCommand
    ExportRecord = {"r", "s"}
    ExportLang = {"nl", "de"}
    ExportText = {"a", "b"}
    ExportWanted = "a"
    ExportFaults = 1
    ExportEdits = 1
    \* RowFilter
    FilterDotted = {"m.a", "m.c"}
    FilterUndotted = {"b"}
    FilterVal = {"1", "2"}
    FilterBefore = "2"
    FilterFiles <- FilesToFilter
    FilterFaults = 2
    FilterEdits = 1
    \* ImportCommand
    ImportOwner = {1, 2, 3}
    ImportTarget = {"t", "u"}
    ImportAsked <- CommandAsked
    ImportParents <- CommandParents
    ImportHasLines = {2}
    ImportPlain = {}
    ImportSpaced = {}
    ImportQualified <- CommandQualified
    ImportWorker = 1
    ImportOptions <- CommandOptions
    ImportRuns = 2
    ImportFaults = 1
    \* Preflight
    ChecksColumn = {"name", "nameL", "cost1", "partner", "tags"}
    ChecksQualifier <- CheckQualifier
    ChecksSchemas <- CheckSchemas
    ChecksRefs <- CheckRefs
    ChecksStructured = {}
    ChecksSpoken = {"nl"}
    ChecksCollides = FALSE
    ChecksHierarchy = FALSE
    ChecksShared = {"partner"}
    ChecksLang = {"nl"}
    ChecksCompany = {"c1", "c2"}
    ChecksRef = {"r", "s"}
    ChecksOptions <- CheckOptions
    ChecksRuns = 2
    ChecksChanges = 1
    ChecksFaults = 1
    \* WriteCommand
    WriteRecord = {1, 2, 3}
    WriteValue = {"a", "b"}
    WriteUnreadable = 0
    WriteSources <- FilesToWrite
    WriteBatch = 2
    WriteWorkers = 2
    WriteRuns = 2
    \* DefaultVariants
    VariantsCommand = {"c", "d"}
    VariantsTemplate = {1, 2}
    VariantsBatch = 2
    VariantsUnique = FALSE
    VariantsFaults = 2
    \* InvoiceWorkflow
    InvoicesInvoice = {"i", "j", "k"}
    InvoicesLegacy <- InvoiceLegacy
    InvoicesTaxes = 2
    InvoicesWorkers = 2
    InvoicesRuns = 2
    InvoicesFaults = 2
    \* VatCheck
    ViesPartner = {"p", "q", "r"}
    ViesBatch = 2
    ViesMax = 0
    ViesNotified = {"n"}
    ViesFaults = 1
    ViesEdits = 2
    \* FlowRun
    FlowName = {"a", "b", "c", "d"}
    FlowTexts <- TextsOfVariables
    FlowOverride <- OverridingTexts
    FlowDepth = 3
    FlowFiles <- FilesOfFlows
    FlowFailFile = {"f"}
    FlowFaults = 2
SPECIFICATION PartsSpec
INVARIANTS
    IdMapFaithful
    StoredRight
    BatchesAreRight
    PacingIsSound
    FiltersAreSound
    CommandIsSound
    ChecksAreSound
    WriteIsSound
    SudoIsSound
    ToolsAreSound
    ExportIsWhole
    FlowIsSound
CHECK_DEADLOCK FALSE
