# Fluvo in TLA+

Fluvo imports CSV files into Odoo and exports them from it, over RPC, with a
pool of threads, retries, checkpoints and fail files. Its README makes promises
about that machinery: every source row is accounted for, bad rows end up in a
fail file and do not sink the run, an interrupted import is simply run again.
This directory models the code behind those promises, checks it with TLC on
small instances, and proves the central results with TLAPS for every value of
the constants.

All paths below are relative to `src/fluvo/` unless they start with `README`,
`docs/` or `lib/` (which is `src/fluvo/lib/`).

## 1. The system

### Components, their state and how they interact

| Component | Source | State it keeps | Operations | What makes it correct |
|---|---|---|---|---|
| Import command and strategies | `importer.py: run_import`, `lib/relational_import.py`, `lib/sort.py`, `lib/cache.py` | fail files, id map cache, the plan; on the server: records, links, children | choose and sort the file, import, write relations by the strategies, one update pass per language and company, summary | links are as asked; each row of a run is stored or on the fail file; "complete" is true |
| Preflight checks | `lib/preflight.py` | the plan, a cache of the model's fields | ten checks in order of registration, each stops the import or adds to the plan | every column is written by one kind of pass, required fields are not deferred, no silent company |
| Import run | `import_threaded.py: import_data`, `lib/checkpoint.py` | on disk: source file, fail file, checkpoint; on the server: records and relations; in memory: id map, failed lines | read the file, resume or not, Pass 1, save the checkpoint, Pass 2, report, delete the checkpoint | re-running after a crash creates and links everything that can be; reports add up; checkpoints are true |
| Idempotent filters | `import_data` before Pass 1, `lib/idempotent.py` | rows kept, id map of the rows skipped | `--skip-unchanged`, `--skip-existing` | skipping a row has the effect of importing it |
| Thread pool pass | `_run_threaded_pass`, `lib/internal/rpc_thread.py` | futures, aggregated results, consecutive failures, abort flag | submit (split by the throttle), collect in any order, abort, shut down | no row loaded twice, a clean return has read every result, no thread outlives the pass |
| Streaming Pass 1 | `_orchestrate_streaming_pass_1`, `_stream_csv_batches` | as a pass, with a position in the file | cut batches off the file, submit, wait, gather | every row is created, failed or counted as unaccounted |
| Batch worker (Pass 1) | `_execute_load_batch`, `_load_batch_with_binary_fallback`, `_load_records_individually` | position in the batch, chunk size, retry counts, id map, failed lines | send a chunk, match ids to rows, halve and retry, search for the bad row, load rows one by one | one outcome per row; the id map never names a wrong record; termination |
| Throttle and backoff | `lib/throttle.py`, `lib/retry.py` | health, window of response times, applied size and delay, the shared attempt count | record a response, judge, apply, back off | pace and health agree; recovery; backoff stays computable |
| Relation pass (Pass 2) | `_prepare_pass_2_data`, `_resolve_external_id_for_pass2`, `_orchestrate_pass_2`, `_execute_write_batch` | lookup cache, updates, groups, super-batches, failed writes | resolve, group, cut, pack, write with retries, map failures back to rows | every resolvable relation is in one batch; success means it is written; failures are attributed to their row |
| Write command | `writer.py`, `write_threaded.py` | batches, counts, fail file | read, group by values, write, account | "Write Complete" is true, no row is forgotten, no batch writes late |
| `--sudo` and stock post-actions | `__main__.py: import_cmd, export_cmd, _execute_post_action, _update_inventory_move_dates` | on the server: rules in force, stock moves; in memory: what was switched off | find and switch off, work, apply, date, restore | rules come back however commands overlap; only this run's moves are dated |
| Export with sessions | `export_threaded.py`, `lib/cache.py` | session directory (all ids, completed ids), output file, rows in memory | start or resume, fetch, split on errors, record, write, clean up | a session writes no record twice, nothing forgotten, a failed record can be resumed |
| Translated export, Parquet, migration | `exporter.py`, `migrator.py` | the merged frame, the output | base pass, one pass per language, join, write or import | the output of a success is whole; an export of which a pass failed leaves none |
| VAT validation switch | `lib/actions/vies_manager.py` | on the server: the settings; on disk: the backup file, the file of `vat disable --output`; in memory: the original settings | disable, import, restore with retries, recover from the backup | what the settings were is never lost; "restored" is true; they come back after any crash |
| VAT number check | `lib/actions/vies_manager.py: run_vies_validation` | offset, page, classes counted | count, page, check, notify | counts add up, each partner is checked once |
| Invoice workflow | `lib/workflow/invoice_v9.py` | on the server: state, taxes, payments and numbers of invoices | five actions, each with a task per invoice on threads | nothing is done twice over repeated runs; a full run completes |
| Default variants | `lib/actions/variant_manager.py` | templates found, counts | search, create in batches, then one by one | each template is accounted for and gets one variant |
| Flow runner | `lib/flow.py`, `lib/flow_runner.py`, `__main__.py` | variables, selected steps, results | resolve, select, run, summarise | cycles are found, steps run in order until the one that aborts, the exit code is right |
| Batch construction | `_create_batches`, `_recursive_create_batches`, `batch` | none | sort and group by columns, cut by size or by parent row | each row in one batch, groups unmixed and together, families whole |
| Validation and assessment, transformation library, geographical data, modules, transport, configuration | see `PROJECT.json` | none that outlives a call | pure functions, reports, single RPC calls | not modelled, see section 5 |

How they interact: a command may be a step of a flow. `import` switches record
rules off, runs the preflight checks and lets their plan choose what is
deferred; `run_import` then calls `import_data`, which reads the file, consults
the checkpoint, takes out rows that need no import and runs Pass 1 through the
pool (or streams it); each pool task is one batch worker. The main thread
collects the id map and the failed lines from the futures' results, writes
failed lines to the fail file as they come, saves a checkpoint of the id map and
runs Pass 2 through the same pool with another worker. The strategies and update
passes follow. Workers share nothing but the connection and the throttle; files
are touched by the main thread only. The server is the one shared state that
outlives a run, and a call that times out or whose connection breaks may change
it afterwards.

### What is hard

`PROJECT.json` lists the hazards with their lines. They fall in these groups:
replies matched with rows by position after rows were dropped or chunks cut;
retries of what may have been done already; results that arrive in any order
while a pass may be aborted; state left on disk by a run that was killed, and
read by one of another kind (`--fail`) or after an edit; things recorded before
they are true (`completed_ids.txt`, the checkpoint's hash); what was read from
the server once and acted on later, while other users and other commands change
it (record rules, paging, variants, the cache of fields); and summaries and exit
codes put together from parts that may each have failed.

## 2. The modules

| Module | Models | Checked in |
|---|---|---|
| `RowLedger` | the promise: each row gets one final outcome | refined by `LoadBatch`, `ThreadedPass` and `StreamPass` |
| `LoadBatch`, `MCLoadBatch` | one batch worker against a server | `load_batch`, `parts` |
| `ThreadedPass` | the pool and the main thread of a pass | `threaded_pass` |
| `StreamPass`, `MCThreadedPass` | the same pool driven by `--stream` | `threaded_pass` |
| `RelationPass`, `MCRelationPass` | Pass 2 with its write workers | `relation_pass` |
| `ImportRun`, `MCImportRun`, `MCPacedImport` | a user's runs over one file, with crashes | `import_run` and two violation runs |
| `BatchPlan` | rows cut into batches, and these while they are submitted | `parts` |
| `Throttle` | response times, health, pace and backoff, shared by threads | `parts`, `import_run` |
| `RowFilter`, `MCRowFilter` | rows taken out before Pass 1 | `parts`, `skip_existing_loses_links` |
| `ImportCommand`, `MCImportCommand` | `run_import` around `import_data`, strategies, update passes | `parts`, `add_mode_removes_links` |
| `Preflight` | the checks and the plan | `parts` |
| `WriteCommand` | `fluvo write` | `parts` |
| `SudoCommand` | record rules and stock post-actions around a command | `parts` |
| `VatCheck`, `InvoiceWorkflow`, `DefaultVariants` | the tools that work on the server's records | `parts` |
| `ExportCommand` | translated and Parquet exports, migration | `parts` |
| `FlowRun` | flows of commands | `parts` |
| `Slicing` | `batch(data, n)`, for the modules that cut | with those |
| `PartVariables`, `Parts`, `Tools`, `MCParts` | the instances of the small modules over shared variables: `Parts` and `Tools` those with proofs, for any constants, `MCParts` the run | `parts` |
| `ExportSession`, `MCExportSession` | one export job and its resumes | `export_session`, `completed_not_written` |
| `VatSwitch`, `MCVatSwitch` | VAT validation switched off and on again | `vat_switch` |
| `LoadBatch_proofs`, `StreamPass_proofs`, `RelationPass_proofs`, `ImportRun_proofs`, `ExportSession_proofs`, `Slicing_proofs`, `Parts_proofs`, `Tools_proofs` | theorems about the modules they are named after; `StreamPass_proofs` is about `ThreadedPass` too, which `StreamPass` extends, and `Tools_proofs` about `VatSwitch` too | |

The modules form layers. `FlowRun` sees a command as an exit code, and
`ImportCommand` sees `import_data` as an outcome per row. `RowLedger` says what
a batch worker promises, and `LoadBatch` is shown to implement it; a pass, the
workers and their results together, promises the same of all its rows.
`ThreadedPass` uses only that promise of its workers: a worker settles each row
of its batch as made or failed, or raises and leaves some rows stored, and a
call of it whose reply is lost is carried out now, later or never;
`StreamPass` takes the pool from it and brings a main thread of its own.
`ImportRun` sees a pass as rows stored on the server, results collected later,
and an abort. `RelationPass` is the detail of what `ImportRun` calls `Prepare`,
`Write` and `WriteFailed`; it leaves the pool to `ThreadedPass`. `RowFilter`
stands between reading the file and Pass 1 of `ImportRun` and keeps only what
it needs of both: the checkpoint and one value and one relation per record.
`BatchPlan` makes the batches that `ThreadedPass` takes as given.

`MCParts` and `MCPacedImport` put several small systems into one run: a
variable `part`, chosen at the start, says which of them a behaviour is of, and
the variables of the others rest. They share nothing, so such a run explores
the union of their state spaces. The variables `v1`, `v2`, ... stand for those of
whichever module is running, in the order in which it declares them; the
instances are in `Parts` and `Tools`, with constants of their own and the
assumptions their proofs need.

A definition placed right before another one and named after it with a suffix
(`MadeOffByOne` before `Made`) is that definition with a plausible bug; no
specification uses it. `PROJECT.json` pairs each with the property that catches
it.

### LoadBatch

A row is its position in the batch, so a slice is a set of consecutive rows and
the n-th row of a request is the n-th smallest of its set. State: `head`
(`lines_to_process`), `chunk` (`chunk_size`, only ever halved), `serial`
(`serialization_retry_count`), `idMap`, `failed` (lines per row, so that a row
written twice shows), and `pending`, which stands for the call stack of the
binary fallback: its recursive calls return results that are merged without
being looked at, so the stack is the set of segments still to try, and depth
first from left to right means the segment with the least row is next.

One action per path of the chunk loop: `MainSend` (with the rows too short for
the kept columns written to the failed lines first, each time round),
`MainLoaded`, `MainReadTimeout`, `MainTooLarge`, `MainHalve`,
`MainSerialization`, `MainFallback`; `Search`, `SearchLoaded`, `SearchSplit` for
the fallback; `SingleLoaded`, `SingleFailed` for single rows. The server
executes a call with any subset of its acceptable rows and a reply of one of
the `Shapes`, refuses it, or the call is lost and may have been, may later be,
or may never be carried out (`late`, `LateStore`). `overload` and `transient`
differ in the code by a sleep only.

Kept out: which columns are removed (a row is short or it is not), the entry in
`ir.model.data` made for a row whose external id was lost
(`_create_xmlid_entry`: its result is the id already in hand), the throttle's
measurements.

### ThreadedPass

`kind` is the worker of the pass, which decides what its success flag means: a
load always reports success, a `--fail` load if it made a record, a write if
nothing failed. The main thread's program counter goes through `submit`,
`collect` and `shutdown`; `queue`, `running` and `finished` are the executor.
`Collect` takes any finished result (`as_completed`), `CollectRaised` is the
path of a worker exception, `Interrupt` Ctrl-C during collection and
`InterruptSubmit` Ctrl-C before it, which nothing catches. `Cancel` and `Exit`
are the `finally` block: an abort when nothing succeeded, cancelled futures,
and a wait for the threads.

The server counts how often each row is stored. A worker stores the rows it
reports as made; what else it does there comes from lost replies: `Lose` is a
call that breaks or times out (`import_threaded.py:2136-2163`) and is left with
the server, and `LateStore` its being carried out, while the worker goes on,
after it has reported the row as failed, or after the pass. A row may so be
stored though it is on the fail file, or twice. What `LoadBatch` says of a
worker with `lost`, `ThreadedPass` takes over.

The pass refines `RowLedger` (`Ledger`): a row is created when it is in the
aggregated map, failed when it has a line in the fail file, and the books are
closed by a return without the abort flag. Workers promise this for a batch,
`LoadBatch` keeps it, and the pass makes it a promise about all batches. A pass
that aborts leaves its books open. `StreamLedger` says it of a streamed pass.

### StreamPass

The pool, its workers and the books are `ThreadedPass`'s. `ReadBatch` is the
generator: batches are cut before the row that would be one too many or too
large in bytes, and malformed rows are skipped. Results are read only after the
pool is down (`Waited`, `Gather`, `Gathered`); a worker that raised is logged
and its rows are `dropped`. `Unreadable` and `InterruptStream` leave without
stopping the pool, as in the code.

### RelationPass

Rows are prepared in order: `SkipRow` (no record, or no value), `ResolveHere`
(id map, or a cached lookup), `LookUp` and `LoseLookUp` (an exception in the
lookup is cached as "not found"). `Batch` groups equal values in order of
appearance, cuts groups into operations and packs operations greedily under
the two limits; these are folds over sequences, as in the code. Each
super-batch has a worker that writes its operations one after the other;
`Refuse` is an error the server answers with. A call without an answer
(`NoReply`) has been carried out, or is left with the server, which may do so
whenever it likes (`LateWrite`): `TimeOut` repeats the call up to `MaxRetries`
times, and `BreakOff`, any other error such as a reset connection or a bad
gateway, fails it at once (`import_threaded.py:2401`). `Collect`,
`Abort`, `Finish` and `FinishAborted` are the main thread.

What is written on a record is one value: the fields of a row, and the id lists
of a many2many, are not told apart. Relations are external ids in `/id`
columns, and the proxy for lookups is there; a value that is not in the id map
and not in an `/id` column is skipped by the code as a missing target is.

### ImportRun

Disk (`version` and `stamp` of the source file, `failFile`, `long`, `ckpt`),
server (`stored`, `linked`) and process are separate groups of variables;
`Crash` forgets the last. `Start` validates the checkpoint against the file,
`Read` reads the file, `Connect` is the opening (and so emptying) of the fail
file, `Store`, `CollectMade`,
`CollectFailed` Pass 1, `SaveCheckpoint` the atomic rename, `Prepare`, `Write`,
`WriteFailed` Pass 2, `Finish` the report and clean-up.

The user may edit the source file at any moment, in a run too. `version` is what
the file holds, and `Hash` is what `_compute_file_hash` takes of it, size and
first and last MB: `stamp`, the last edit that changed these, and for the fail
file its number of rows and those of them in the hashed part (`Hashed`). A run
hashes at `Start`, reads at `Read` and hashes again at `SaveCheckpoint`, each
time the file as it then is. `blind` is a history of the edits that this cannot
tell: those of the middle of the file, and those between a hash and the
reading, or the reading and the hash that is saved. `long` holds the rows whose line has one field more than the
header, which makes them `malformed` for the next `--fail` run. The checkpoint
of the code is found by path, configuration and model; here by the kind of run.

Left out: `--resolve-relations` and `--auto-clean`, which change the rows read;
`--skip-existing` and `--skip-unchanged` are in `RowFilter`.

### BatchPlan

Rows are their numbers in the file. `order` lists them as they are sorted so far,
and `begins` holds the places where a group begins, then those where a batch
does: both are consecutive places. The code recurses into each group, sorts it
and groups it by the next column; `GroupBy` does one column for all groups at
once, which moves no row out of its group. The sort is stated by what it
returns (`Sorts`): each place comes from a place of its group, each is come
from once, ordered with empty cells last, and stable. A column that the header
lacks leaves nothing to send. `CreateBatches` cuts the groups by size, or with
`--o2m` before each row that has an id (`pass_1_batches` is a list, made before
anything is sent); `Submit` gives the first batch left to the pool in pieces of
the size the throttle recommends, `SubmitWhole` without one.

### Throttle

`Record`, `Judge`, `Decide` and `Apply` are the statements of `record_response`
and `_update_health` between which another thread may run: there is no lock.
`saw` is what a thread has in its local variables; `Apply` reads the health
again for each level it asks for. `pace` stands for the delay and the batch
factor, which are set together. `ReadAttempt` and `Backoff` are the
unsynchronised count that all workers share; beyond `MaxPower` the power of two
is no float and the error leaves the worker. `calm` is the server recovering
for good. Left out: `retry_with_backoff`, which nothing calls, and statistics.

### RowFilter

One action per step of `import_data`: `SkipUnchanged`, `SkipExisting`, the rows
of Pass 1, its end with the checkpoint, Pass 2, the report, and `Crash` and
`Edit` anywhere. A row has a value and may name a target; ids with and without
a module differ, because they are looked up differently. `blind` and `narrow`
are histories: a look-up that failed, or left the relations out, and a
checkpoint made by a run that had left existing records out. Values are equal
or not; the comparison of numbers, booleans and pairs is not modelled.

### ImportCommand

Runs follow one another, with and without `--fail`, while rows are corrected
and the related model is imported. `Start` chooses the file and empties the fail
file; `LoadRow`, `AbortLoad`, `LoadDone` are `import_data` with one outcome per
row, in the order the sort gives; no run resumes, because the file is imported
from a sorted copy under a new temporary name, under which no checkpoint of an
earlier run is found (`importer.py:769`, `lib/checkpoint.py:94`), and the fail
file of a `--fail` run that Pass 2 failed has changed since its checkpoint was
saved. `Resolve` reads the id map cache or the server;
`WriteTuple` and `WriteO2m` are the two strategies that are planned; `UpdatePass`
is a language or company; `Report` the banner. Left out:
`resolve_relations_in_df`, and `run_direct_relational_import`, which no plan
reaches (`_handle_m2m_field` picks `write_tuple` in both its branches).

### Preflight

One action per check, in their order of registration, each reading the
server's fields through a cache that nothing invalidates while the server
changes (`Change`). A check stops the run or adds to `plan`; `Use` is what
`run_import` makes of the plan. A column is its kind: plain, qualified with a
language or a company, or with something that is neither; of the cells there is
only what a check looks for: references, languages, lists or dicts.

### ExportSession

`session` and `file` are the disk; `NewExport` and `ResumeExport` start a run;
`Fetch`, `FetchInHalves` and `FetchFails` are a worker's paths through
`_execute_batch`; `Collect`, `RecordCompleted`, `Deliver`, `DeliveryFails` are
the steps of the main thread for one result, apart because a crash may come
between them; `Write`, `Drained`, `CleanUp` end the run. Batches are slices of
the ids in increasing order. `file.lines` counts the lines of each record.

Left out: exports without an output file, whose callers write the result; the
choice of method, types and fields; a torn last line of `completed_ids.txt`.

### VatSwitch

A setting is on or off, and a snapshot (`VatValidationSettings`) is a set of
settings it knows and those of them that were on. `StartJob` takes the backup
for the original settings if it can be read, else `Poll`, `OpenBackup` (the
file is truncated) and `DumpBackup` make one. `Connect` and `SwitchOff` switch
settings off one call at a time, companies before parameters; `ImportEnds` is
the `finally` of `run_import_with_vat_validation_disabled`. `Attempt`,
`Restore`, `RestorePasses` (an error that may pass: next attempt),
`RestoreRefused` (another one: the rest is still restored) and `RestoreEnds`
are the retry loop; `Recover` and `RestoreOutput` start it from the backup and
from the file of `vat disable --output`. A failing call inside a group (no
model, a failing search) has the effect of the connection failing, or of each
call failing.

`wanted` is what administrators set. `Excused` names the settings nothing can
be promised of: changed by an administrator while a snapshot was on disk
(`stale`; the restoration undoes the change), never backed up because the file
could not be written (`unsaved`), or handled on a record that does not hold
them (`unknown`): their value could not be read (`vies_manager.py:588` logs it
and goes on), the backup found was made by a job for other companies
(`vies_manager.py:644`), or a restoration from another file replaced it
(`vies_manager.py:879` deletes the backup whatever it holds). All of these happen in the model.

Left out: the checking of VAT numbers itself, runs that overlap, a torn file of
`--output`, and a sound backup that cannot be read for a passing reason, which
the code treats as no backup (`vies_manager.py:285`) and overwrites.

### WriteCommand

The pool is explicit because Ctrl-C and the summary race with it: `Launch`,
`Begin`, `Write` for each group of equal values, `End`. An answer is done,
refused, lost, or one that cannot be read. `unsure` is a history of the rows
that are only counted.

### SudoCommand

Two users run commands at once. `Find` and `SwitchOff` are separate calls for
each model's rules; what was switched off is noted only after the call has
returned, so `SetupFails` may leave rules off that nobody will restore. Such
rules, those of a process that is killed, and those an administrator switches
meanwhile are `excused`. `PostAction`
may time out, which counts as done, while the server goes on (`Applied`);
`Date` dates the moves it made; `Finally` restores.

### VatCheck, InvoiceWorkflow, DefaultVariants

`VatCheck` pages through partners by offset while users edit them, and puts
each number to VIES or, where it is not installed, to whatever the server has,
which may count as valid what nothing has answered for (`guessed`).
`InvoiceWorkflow` runs five searches and, after each, a task per invoice on the
pool; a task has as many steps as it makes calls and may end at each, and the
command may die and be run again. `DefaultVariants` lets commands overlap that
search first and create afterwards, in batches and after an error one by one.

### ExportCommand

A translated export is a pass for the records the domain selects and a pass per
language joined on the database id; users edit and delete records between two
passes. Parquet and migration have the same frame and another ending. Each pass
is one step. `Write` may break off and leave part of the rows, and a Parquet
file may turn out unreadable after it was written; both end the command with an
error. A migration whose export fails exits with 0 and has written nothing.

### FlowRun

`Resolve` is one turn of `resolve_one` with its stack, so cycles, unknown names
and the depth limit are met where the code meets them; `Select` picks flows by
name; `Step` runs one command with one of five fates and applies `on_error`;
`Finish` sets the exit code. The text of a variable is the sequence of names it
refers to, and its value the set of names whose texts went into it; the steps of
all flows are one sequence, each with its flow; YAML is valid or not.

## 3. What is checked

Passing runs (two workers, times on a small machine):

| Run | Instance | States | Shows |
|---|---|---|---|
| `load_batch` | 5 rows with ids of their own, one ragged, one never accepted, replies all or nothing | 59 thousand, 10 s | one outcome per row, a failed row is certainly not stored unless a reply was lost, refinement of `RowLedger`, termination |
| `parts` | the thirteen specifications of `MCParts`, below | 1.6 million, 60 s | a batch worker against replies of any shape: the id map is faithful, no needless duplicate, nothing dropped that was not stored; and the safety of each small module |
| `threaded_pass` | 3 batches of 4 rows, 2 threads, splits into single rows, all three workers, two rows whose calls may lose a reply; or the lines of a file streamed, one malformed, batches cut by rows and by bytes | 450 thousand, 48 s | completeness of the aggregated results and their truth but for lost replies, refinement of `RowLedger`, causes of an abort, the pool is down at the end, the books of a streamed pass, the pass ends |
| `relation_pass` | every file of 3 rows over 3 targets, two rows sharing a record or one without, one retry, unbounded timeouts and broken connections | 213 thousand, 43 s | packing, what is written and reported, the pass ends |
| `import_run` | 3 rows, one never accepted or a relation never accepted, both kinds of run with all flags, one edit at any moment, seen by the hash or not, 2 faults; or two paced workers, quick and slow answers | 477 thousand, 140 s | checkpoints and resumes are sound, reports add up, success means linked, re-running converges; the pace recovers |
| `export_session` | 3 records in 2 batches, one may be deleted, both methods, streamed or not, 2 faults | 241 thousand, 31 s | no session repeats a record and an uneventful export is exact, failures can be resumed, success has fetched all, nothing remains in the end |
| `vat_switch` | 2 companies and a parameter, jobs for all or for one company, one retry, one edit, 2 faults | 758 thousand, 56 s | the original settings are never lost, "restored" is true, the settings come back |

What `parts` shows of each small module, in the invariant named:

* `BatchesAreRight`: each row is sent once; groups are neither mixed nor met again
  later and keep the order of the file; no batch exceeds `--size`; and families
  of `--o2m` are whole, until the throttle or a grouping cuts them.
* `PacingIsSound`: when no worker is recording, and none has recorded while
  another did, delay and batch size are those of the health reported; no worker
  is lost to its own backoff before the server has failed more often than a
  float has powers of two (one, in the instance).
* `FiltersAreSound`: a finished run with `--skip-unchanged` leaves every record
  as its row says, whatever runs died before, unless someone edited it or the
  relations could not be read; one with `--skip-existing` changes nothing that
  was there and makes all that was not.
* `CommandIsSound`: a row of a sorted file is not refused for a parent that has
  no parent itself; the links of a record become those of its row while the
  cached ids are current; and "complete" is true when no pass gave up.
* `ChecksAreSound`: no import of a company-aware model without a company
  chosen, unless allowed; each qualified column is written by exactly one kind
  of pass; no required field is deferred; references that could not be looked
  up do not count as missing.
* `WriteIsSound`: "Write Complete" is true, every row is accounted for, no batch
  writes after the report.
* `SudoIsSound`: when the last command has ended, the record rules are as the
  administrators want them; a post-action's moves are dated, and no others.
* `ToolsAreSound`: VAT statistics add up and each partner is checked once if
  nobody edits; an invoice gets no tax line twice and at most one posted
  payment over repeated runs, and a full run brings those without a failure to
  their state and number; each template found is
  accounted for and gets a second variant only where the server allows it.
* `ExportIsWhole`: the output of a command that exits with 0 has the records the
  domain selects (those that had the wanted text throughout, and none that
  never had it), with texts they had, and each language for all records or for
  none; and an export of which a pass failed leaves no file. A command that
  exits with 0 may have written nothing (a domain that cannot be parsed; a
  migration whose export failed).
* `FlowIsSound`: cyclic, dangling and too deep variables are refused and no
  others; the steps that ran are those up to the first one that aborts; exit
  code and failed rows are of this run.

`SudoCommand!RunsWithoutRules`, `FlowRun!FatalStepStops` and, in `BatchPlan`,
`SameWorker`, `EmptyFirst` and `FamiliesStay` are stated and not checked, as the
code keeps none of them: a command that ends restores rules another one still
needs off, commands that return early without raising let a flow go on, and
the last three are among the disagreements below.

Some properties leave out a case in which the code does what its documentation
does not say; each says so where it is stated. `RunsConverge` is checked with
a relation that the server never accepts: Pass 2 then fails each time, the
checkpoint stays, and runs resume from it for good, so rows declared failed in
Pass 1 and relations of records that the checkpoint does not have stay undone
(`Stuck`); everything else still converges. `CheckpointIsSound` lets a run skip
Pass 1 for rows that were never loaded after an edit no hash can tell
(`EditedBlindly`). `FailedCanBeResumed` excepts ids that an earlier session left
in `completed_ids.txt`. `FileIsExact` counts what one session writes: a session
resumed onto the file of another repeats records of that one
(`export_threaded.py:911`). `StoredRight` and `OneOutcome` leave out a None in a
reply of full length (`NoHoles`) and rows shorter than the header when columns
are ignored. `LinkingIsSound` and the properties of `relation_pass` are about
relations whose target was found.

Bounds, and why they suffice. Five rows give the batch worker a chunk that is
halved twice, an odd half, and a fallback three levels deep; `MaxSerial = 2`
replaces 3 and `Limit = 2` replaces 50, since the code compares counters with
them and nothing else. `MaxLost = 1` lets each row be in one call given up on,
which is enough for a duplicate. Three batches on two threads make one wait in
the queue while results arrive in either order. Three rows are a target, a row
that refers to it and one that fails. `MaxFaults` bounds crashes, aborts and
failures that need not be: two cover a fault in a run and one in its resumed
run. `MaxVersion = 2` is one edit, of the part that is hashed or of the middle,
between two runs or at any step of one. `Bad` and `BadLink` are not in one
instance: a row that is never stored is in one part of `import_run`, a relation
that is never accepted in another. In
`vat_switch` two faults are a crash and a failure in the run that repairs it,
and one retry (5 in the code) has a first, a repeated and a last attempt. In
`relation_pass` timeouts and broken connections are not bounded: the retry
counter is enough. In
`parts`, averages are over two responses (5 in the code) and two healthy ones
recover (3), which still needs several in a row; two users, two commands and
two worker threads are the least that overlap; two runs are one and its repeat;
a depth of three (25) is met by one of the variable files; and five rows hold a
group that is larger than a batch and met twice, and a family of four.

### Fairness

* `LoadBatch`: weak fairness of the worker and of an answer. A thread runs, and
  every call has a socket timeout, so it ends in a reply or an error.
* `ThreadedPass`, `StreamPass`: weak fairness of the main thread of either and
  of the workers together, which is what `LoadBatch`'s termination gives.
  Ctrl-C, lost replies and late stores are not fair.
* `RelationPass`: the same. Late writes and aborts are not fair.
* `ImportRun`: weak fairness of the running process, strong fairness of the user
  starting the default import, which is the promise's own premise ("run it
  again"). Faults are finite in number, as a promise of convergence needs.
* `Throttle`: weak fairness of each worker thread, in `import_run` only. The
  server's recovery (`Calm`) is not fair: the property begins with it.
* `ExportSession`: as `ImportRun`, with resumed exports.
* `VatSwitch`: weak fairness of the running process, strong fairness of someone
  restoring from a backup that was left behind.
* `parts` checks safety only and assumes none.

### Disagreements found

Each of these is a run of its own in which TLC violates the quoted statement;
the quotations are in `PROJECT.json`.

* `resume_loses_rejected_rows`: a resumed run empties the fail file and has no
  failed lines from Pass 1, so rejected rows are in no fail file
  (`import_threaded.py:3604`, README.md:36).
* `fail_run_malforms_rows`: a row failing again in a `--fail` run is written
  with one field more than the header and is never sent again
  (`import_threaded.py:449`, README.md:36).
* `skip_existing_loses_links`: a run with `--skip-existing` after one that died
  before Pass 2 leaves the records of that run without their relations and
  succeeds (`import_threaded.py:3503`, docs/guides/advanced_usage.md:844).
* `add_mode_removes_links`: Pass 2 replaces the links of a deferred field
  before `--m2m-mode add` adds to them (`import_threaded.py:673`,
  docs/guides/importing_data.md:113).
* `completed_not_written`: an export lists ids as completed before their rows
  are in the file; killed in between, it never exports them
  (`export_threaded.py:630`, docs/guides/exporting_data.md:92).

Others are visible in the actions and have no run of their own; `PROJECT.json`
quotes what they contradict: a group of `--groupby` larger than a batch is loaded
by several workers at once (`import_threaded.py:858`), and its empty values come
last, not first (`import_threaded.py:881`); lines of `--o2m` are parted from
their parent by the throttle or a grouping (`import_threaded.py:2508`); a short row is counted once per attempt on its
chunk (`import_threaded.py:1804`); one relation that cannot be written keeps a
checkpoint alive that skips the rows that failed in Pass 1
(`import_threaded.py:3604`); a checkpoint is resumed although the file has
changed, if in its middle or while it was being imported
(`lib/checkpoint.py:188`); a file with a parent column never finds its
checkpoint again (`importer.py:769`); ids an earlier session left in
`completed_ids.txt` are not asked for again, fetched or not
(`export_threaded.py:869`); ids without a module are never skipped
(`import_threaded.py:3508`); the cache of fields is never invalidated
(`lib/cache.py:296`); one2many children are created again by each run
(`lib/relational_import.py:872`); a hierarchy of more than two levels may be
sorted wrongly (`lib/sort.py:76`); the banner may be green after an update pass
that gave up (`importer.py:1134`); strategies never run with `--fail`
(`importer.py:919`); `write --fail` cannot read its own file
(`write_threaded.py:222`); `migrate` and `write` exit with 0 after a fatal error
(`migrator.py:67`).

The passing properties are stated so as to leave room for exactly these: for
instance `SuccessMeansLinked`, a part of `LinkingIsSound`, leaves out resumed
`--fail` runs (the checkpoint's hash is taken after Pass 1, when a `--fail` run
has rewritten the file it read, so the next one may resume with rows nobody
loaded: `import_threaded.py:3654`), and `NothingDroppedUnstored`, a part of `StoredRight`, allows a stored
row to have no outcome, because a row loaded alone after a search has its id map
dropped (`import_threaded.py:1594`), and a None in a list of full length is
passed over.

## 4. What is proved

`LoadBatch_proofs` (every batch size, assignment of ids, and bound):

* `TypeCorrect`: `Spec => []TypeOK`.
* `MapIsFaithful`: the id map names, for each id, a record made from a row with
  that id, whatever shape the replies have. `IdMapFaithful` alone is not
  inductive: between the reply and its reading, what makes the map right is in
  the reply. `MapInv` adds `AnswerIsTrue`: each id of the reply under way names
  the row at its position in the request, and that row is stored.
* `LoadImplementsLedger` and `OneOutcomeEach`, under `Contract`: a server that
  answers with all ids or none, rows with distinct external ids, and no rows
  too short when columns are ignored. A short row counted twice and a row that
  is stored without an outcome (section 3) are what the last and the first of
  the three keep out; equal ids would share one entry of the map. `LedgerInv`
  says that each row is in one place (ahead, in a pending segment, in the call,
  or settled: `OnePlace`), that replies are whole (`WholeAnswer`), and that
  exactly the settled rows have one outcome (`Settled`). A lemma per action names the rows it settles.
* `FailuresAreCertain` and `StoresAreRight`, from `StoreInv`: each row is in one
  place (`OnePlaceEach`), and what is stored or may still be stored of a row is
  at most one more than the replies lost for it, and no more than those while
  the row is not confirmed (`Accounted`); a row in no place has been mapped,
  failed or at least stored (`NothingForgotten`). The second theorem has the
  premise `NoHoles`, a server that leaves no None in an id list of full length:
  with one the worker passes the row over, as section 3 says.

`ImportRun_proofs` (every file, relation, number of runs, edits and faults):

* `TypeCorrect`.
* `CheckpointsAreSound` (what is saved and what is resumed) and `LinksHold`, from
  `DiskInv`: the maps in memory and in both checkpoints are of stored records,
  relations to be written are between stored records, and a hash that was saved
  is at least as old as the last edit it can tell, the others since the reading
  being among the `blind` ones. It is inductive because no step removes a
  record, so what was true of a map stays true of its checkpoint across crashes,
  and because versions only grow. The theorem promises nothing of rows after a
  blind edit: the code does not either.
* `ReportsAddUp`, `SuccessIsLinked` and, with `LinksHold`, `LinkingHolds`, from
  `RunInv`: a run that did not resume has each row in one place (to do, in the
  map, failed), failed lines are on file, and Pass 2 has each relation between
  rows of the map to do, written or failed. The report inherits this when the run ends, and later runs keep it
  true since links are never removed.

`StreamPass_proofs` (any batches, threads, splits and files, in both forms of the
pass):

* `RowsKeepTheirPlace`: `PassInv` is inductive. A row is to come, queued, running,
  in an unread result or settled, in one of them only (`Apart`, `InPieces`) and in
  one at least (`Nowhere`); what a result or the books say of it is so on the
  server, but for calls whose reply was lost: these account for each store of a
  row that is not made, and for each further one of a row that is (`Told`).
  `RowLoadedOnce` alone is not inductive: that a piece taken from
  the queue holds no row that was loaded before needs all the places.
* From it `NoRowLoadedTwice`, `ReturnsAreRight`, `ReportsHold`,
  `ThreadsEndWithPass`, and `StreamsAddUp` for a streamed pass.
* `PassKeepsLedger` and `StreamKeepsLedger`: the pass implements `RowLedger`, as
  its workers do (`LoadImplementsLedger`). What is noted of a row is final because
  a result that is read has no row in common with any that was read before
  (`Apart`), and the books are closed only as `CleanReturns` or `StreamSums` allow.

`Slicing_proofs`: `SlicesPartition` and `SlicesBounded`, which say that `batch`
loses and repeats nothing and makes slices of one to n items. Cardinalities of
initial segments take the place of indices, so no induction over sequences is
needed; the least and the greatest element of a set of numbers come from the
library's well-foundedness of `<`.

`ExportSession_proofs` (any records, batches, crashes, resumes):

* `RecordsKeepTheirPlace`: `ExportInv`. An id of the session is completed, on its
  way, given up or to do (`OnTheWay`, `TasksApart`); one that was given up stays
  to be asked for (`GivenUpStays`); in a run that met nothing none is forgotten
  (`NoneForgotten`); and the file has the lines of what was delivered
  (`FileAnew`).
* From it `FilesAreExact`, `FailuresCanBeResumed`, `SuccessesAreComplete`. The
  first is about the lines one session writes and about uneventful exports, the
  second excepts the ids an earlier session left as completed (`inherited`).

`RelationPass_proofs` (files, targets and limits of any size):

* `PackingIsRight`: grouping in order of appearance, cutting by `BatchSize` and
  packing under two limits keep each relation in exactly one operation of one
  super-batch. The three are folds; each is taken apart into its steps by one
  lemma (`FoldExists`: the value after n items exists and satisfies the
  recursion), and a counterexample of least length is refuted, which is
  induction without an operator parameter.
* `LinksWereAsked`, `SuccessesAreTrue`, `ReportsAreComplete`, from `RelInv`
  (`WritesAreExplained`): a link that is set was written by an operation passed
  or by a call without a reply (`Explained`), an operation passed has failed or
  written (`WrittenOrFailed`), late calls are of operations that had no reply
  (`LateOnes`). So a relation listed as failed may be on the server, but only if
  a call for it timed out or broke off.

`Parts_proofs` (the instances of `Parts`, any constants that satisfy the ASSUME
after the instance; each invariant is in the module it is about and was checked by
TLC before it was proved):

* `SudoCommand`: `RulesAndMovesAreRight` from `SudoInv`. While commands overlap a
  wanted rule may be out of force, so `RulesHeld` says who holds it and will put
  it back, and that what a command is about to switch off is wanted.
* `Throttle`: `PacingIsRight` from `PacingInv`. Between judging and applying, pace
  and health differ, so `PaceFollows` names the one thread that may be there and
  the levels it has passed by; `AttemptsCounted` bounds the shared count by the
  errors although threads overwrite each other's increments.
* `ExportCommand`: `ExportsAreWhole` from `ExportInv`. Texts are deleted in every
  language at once (`RecordsAreWhole`), cells come from the server
  (`CellsAreTrue`), a language is there for all records left or none
  (`ColumnsAreWhole`), and the frame keeps the records the base pass selected
  while the server's change (`SelectionIsKept`).
* `RowFilter`: `FiltersAreRight` from `FilterInv`, which carries what a checkpoint
  of a killed run says of the records (`CheckpointHolds`) into the next one.
* `ImportCommand`: `CommandsAreRight` from `CommandInv`: each row of the run is to do, in
  the id map or on the fail file; links follow the cached ids as long as these
  are the server's; and a pass that is over has written its rows or is flagged.
* `Preflight`: `ChecksAreRight` from `CheckInv`. The two checks for qualified
  columns divide them as the fields say as long as both have read the same
  fields (`ColumnsHold`), which is the premise of `EachColumnOnce` as well: the
  cache may change between them.
* `WriteCommand`: `WritesAreRight` from `WriteInv`. What has left a batch is
  settled (`RowsHold`): written, on the fail file or only counted; and if nothing
  is counted the fail file is empty (`BooksHold`), which is what the banner relies
  on. Batches are slices, so `SlicesPartition` gives that every row is in one.
* `BatchPlan`: `BatchesPartTheFile` from `BatchInv` (`BatchesKeepTheirGroups`).
  Until they are cut, groups are exactly the rows alike in the columns done, in
  file order and next to each other (`GroupsHold`): in a sorted group, cells that
  are equal at two places are equal in between, so parting where the value
  changes parts nothing that is alike. What was sent lies before what is left,
  and no batch is cut except into its own pieces (`SentHolds`).

`Tools_proofs` (`VatSwitch` for any settings, jobs, number of runs, faults and
edits, and the instances of `Tools` for any constants that satisfy the ASSUME
after the instance):

* `TypeCorrect`, of `VatSwitch`.
* `NothingIsLost` and `RestorationsAreTrue`, from `VatInv`. `Recoverable` alone
  is not inductive: switching a setting off keeps it true only because the
  backup holds what was read, and deleting the backup only because the
  restoration has dealt with all it holds. So `SnapshotsAreTrue` says that
  every snapshot is right about what is not excused, `BackupFollows` that there
  is no backup while one is being made and that it is the original settings
  while they are switched off, and `RestoredSoFar` what an attempt has restored
  as long as nothing was refused.
* `DefaultVariants`: `VariantsStayRight`. That a template is accounted for needs
  where each one found is (`CountsHold`: to do, in a failed batch, counted), and
  the bound on variants counts the commands that have tried a template once and
  those that have tried it again (`VariantsHold`): commands may overlap.
* `InvoiceWorkflow`: `InvoicesKeepTheirState`. A thread acts on what a search
  found earlier; it may, because nobody else changes an invoice of its action
  meanwhile (`TasksHold`). `PaidOnce` bounds payments by the runs begun, and
  `Advanced` says how far each action of a full run has brought an invoice.
* `VatCheck`: `ChecksKeepTheirFigures`. `PagesHold` bounds what was counted by the
  room in the pages gone by, whatever is edited; `InOrder` says that undisturbed
  the partners seen are the first ones of the search, each once.
* `ToolsAreRight`: from the three, `ToolsAreSound` of a behaviour of any of them.
* `FlowRun`: `FlowsKeepTheirOrder` and, from it, `FlowsRunAsWritten`. What a name
  leads to is the least set that is closed under the texts, so no path is spoken
  of: a name on the stack leads to all those above it (`StackHolds`), hence one
  that is met again leads to itself; names with a value are closed under what
  they refer to (`ValuesHold`), hence none of them is on a cycle. `StepsHold` says
  that a flow goes on exactly until a step that failed and says abort.

The assumptions are the named ASSUMEs of the modules: finite files, ids that
are numbers, positive bounds, and for the parts that values which stand for
"none" or "gone" are no texts or ids. None restricts what the code can meet.

Type correctness of `LoadBatch`, `ImportRun` and `VatSwitch` is proved and is not
an invariant of a run; every other module's is a part of an invariant its run
checks.

Model-checked only:

* everything about liveness (`Termination`, `PassEnds`, `RunsConverge`,
  `PacingRecovers`, `NothingRemains`, `SettingsComeBack`): what a fair scheduler
  brings about rests on ENABLED, which is out of the prover's reach.

Every safety invariant of the passing runs is stated by a theorem. The configurations stay: they show what the theorems' premises are
worth on instances where the interesting cases occur, and they are what the
mutants are tried on.

## 5. Plan

`ImportRun` with the refinement of `RowLedger` as its picture of a pass, so that
what it assumes of one (rows settled once, results collected later, an abort)
follows from `PassKeepsLedger` in place of the comparison in section 2.

### Not modelled

* The transformation library (`lib/transform.py`, `lib/clean.py`,
  `lib/clean_expr.py`, mappers): pure functions of strings and data frames,
  correct or not in their text.
* Validation and `assess`: they read a file and the server once and print a
  table.
* Geographical data, module installation, transport and configuration:
  downloads, single RPC calls and connections. Their failures are the failing
  calls of the other modules.
* `--resolve-relations` and `--auto-clean`, which rewrite cells before an
  import; the mapping of a migration; the formats and checksums of VAT numbers.
* Code nothing reaches: `retry_with_backoff`, `cleanup_old_checkpoints`,
  `run_direct_relational_import`.
