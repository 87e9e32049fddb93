# actually-fine: a TLA+ model of the data contract gates

`actually-fine` checks a stream of records against a *contract* (a list of rules)
and routes every record: cleared records are accepted, others are dropped,
quarantined, or stop the run. The verdicts, the evidence published about them and
the exit code are what a pipeline branches on. This project models the code that
decides and reports them, checks it with TLC on small instances, and proves some of
what it promises with TLAPS for every instance.

## 1. Inventory

| Component | Code | State it keeps | Operations |
| --- | --- | --- | --- |
| contract artifact | `contract/contract.go` | none in the program; a file and its digest around it | `Validate`, `Normalize`, `Decode`, `CanonicalJSON`, `Digest` |
| rule engine | `engine/engine.go` | `StreamChecker`: the keys seen per unique rule, the record count | `Check`, `Finalize` |
| result protocol | `result/result.go` | none | `Event.Validate`, the exit codes |
| NDJSON gate | `adapter/brokoli/gate.go` | line counter, `Summary`, a scanner, a checker | `Run` |
| batch gate | `adapter/brokoli/batch.go`, `transport/batch.go` | `Summary`, a checker, two slices per batch | `RunBatches` |
| CLI | `cmd/actually-fine/main.go` | counters, `interrupted`, `halted`, four streams, the signal context | `run`, `validate`, `inspect`, `version` |
| Arrow transport | `transport/arrow` | the writer's schema | `BatchReader.Next`, `BatchWriter.Write`, `RunGate`, `Encode`, `Decode` |
| SDKs | `sdk/python`, `sdk/typescript` | none | build, validate and normalize contracts |
| schema, benchmarks, test data, CI | `schema`, `bench`, `testdata`, `.github` | none | |

**How they interact.** A loop (NDJSON gate, batch gate or CLI) owns one
`StreamChecker` and one `Summary`. It takes a line or a batch from a source it does
not control (an `io.Reader` under `bufio.Scanner`, a `BatchSource`), asks the checker
for violations, makes an event of each, and hands events and records to sinks it does
not control either (callbacks of the host, files, standard output). Any of these calls may
fail. The context may be cancelled by another goroutine at any moment, and in the CLI
a second goroutine closes the input when SIGINT cancels it. A contract reaches a loop as a
Go value, or as a file that an author wrote, an SDK compiled or `inspect` printed; the file
may come with a digest, which `validate` and `inspect` recompute.

**What is hard.** (1) Partial failure: every call of a sink can fail between two
others that belong together. (2) Order: evidence before routing, record rules before
stream rules, lines in order. (3) Histories: a unique rule judges a record by every
record before it, whatever became of them. (4) The ends of a stream: the empty stream,
a halt, a read error after buffered lines, the torn last line a scanner hands over
after an error. (5) The interrupt, which may find the program anywhere. (6) Numbers: the same
integer is a `float64` from JSON, an `int64` from Arrow, anything from a Go host, and past
2^53 these are not the same. (7) One contract in three languages. The hazards in
`PROJECT.json` list these at their lines.

**What makes each component correct.**

- *Gates*: every verdict is a function of the lines read; evidence is complete for a
  record before the record is routed and before the next line is read; the accepted
  and quarantined outputs are prefixes of what the verdicts say; a halt reads nothing
  more; a failure loses the line in progress, or one batch; count rules are reported on
  complete streams only; the summary and the exit code agree with the evidence; the loop ends.
- *Engine*: a verdict depends on JSON values and on the history its rule speaks of: not on
  Go types, not on the order or the fate of other rules. No two accepted records share the
  key of an enforcing unique rule.
- *Contract and result*: whatever `Validate` admits makes events `Event.Validate` admits;
  what an SDK compiles is admitted and has the digest the SDK gave; equivalent contracts
  have one digest, others have two.
- *CLI*: the same as the gates, on the normalized contract; the two event streams say
  the same, in the canonical order; a run that left a torn line does not exit with 0 or 1; a
  refused command line touches no output; the exit code is sound; an interrupted run returns,
  unless it waits for an input it cannot close or in a write that nobody reads.
- *Arrow*: what a Go host encodes it decodes; no row and no value is lost or made up, a
  stream has one schema, writers are closed unless a `Close` fails, and success means complete outputs.

## 2. Modules

| Module | What it is |
| --- | --- |
| `Contract` | rules and contracts as records, `Validate`, `Normalize` |
| `Result` | exit codes, events, `Event.Validate` |
| `Numbers` | numbers as `float64` and `int64` hold them, and the digits JSON gives them |
| `Engine` | lookup, predicates, `StreamChecker` as pure operators |
| `Reporting` | the decisions the three loops share: outcome, counters, events, final line |
| `Gate` | the abstract specification: what a gate promises, over the history of lines |
| `NdjsonGate`, `NdjsonGateProperties` | `brokoli.Run` and its properties |
| `BatchGate`, `BatchGateProperties` | `brokoli.RunBatches` and its properties |
| `CliRun`, `CliRunProperties` | `actually-fine run` and its properties |
| `StreamChecker`, `StreamCheckerProperties` | `engine.StreamChecker` by itself, under every predicate |
| `ArrowGate`, `ArrowGateProperties` | `arrow.RunGate`: the steps of `BatchGate` composed with two `BatchWriter`s, and `Encode` and `Decode` at both ends |
| `Artifact`, `ArtifactProperties` | the contract file between authors, SDKs and the commands |
| `EngineLemmas` | what the operators of `Numbers`, `Contract`, `Engine` and `Reporting` return, which the proofs share, and how a recursive function is proved about; the theorems about `Normalize` |
| `StreamCheckerProofs` | theorems about `StreamChecker` |
| `NdjsonGateProofs` | theorems about `NdjsonGate`, and that it implements `Gate` |
| `BatchGateProofs` | theorems about `BatchGate`, and that it implements `Gate` |
| `CliRunProofs`, `CliRunRefinement` | theorems about `CliRun`; that it implements `Gate` |
| `ArrowGateProofs` | theorems about `ArrowGate` |
| `ArtifactProofs` | theorems about `Artifact` |
| `MCContracts`, `MCNdjsonGate`, `MCBatchGate`, `MCCliRun`, `MCStreamChecker`, `MCArrowGate`, `MCArtifact` | small instances |

`Contract` <- `Result` <- `Engine` (with `Numbers`) <- `Reporting` <- each loop <- its
properties <- its MC module; `StreamChecker` stands on `Engine`, `ArrowGate` on `BatchGate`,
and `Artifact` on `Result` and `Numbers`. The
properties modules of the three loops instantiate `Gate` with a refinement mapping and
state `RefinesGate == Promise!Spec`.

### State and actions, and the code

*Data.* A rule id is a number (its order stands for Go's order of strings; 0 is the empty
string). A path is the sequence of its parts. A JSON value is `[t, v]`, a kind and a
number. A record is a number, `Member` gives its fields. A line is `[ok, whole, rec]`:
whether it parses to an object, whether it is the line its producer wrote, the object.
Texts that no verdict depends on (messages, values, record ids) are left out of events.

*`Numbers`.* Numbers are counted in halves, so that 1.5 is one. `Rounded` is the conversion
of an integer to `float64`: floats are 1 apart up to `Exact` (2^53),
then 2, 4, 8 (`Spacings`); halves are floats up to half of `Exact`. `Digits`
is the shortest text that reads back as a float, which past `Exact` may be that of another
integer (`Spelling`): 2^63 is written 9223372036854775808 by an integer and
9223372036854776000 by a float.

*`Engine`.* A record's violations are the set of indexes of the rules it breaches
(`Violated`), `seen` maps rule ids to key sets and `Remember` is its update. The Go
code appends violations to a slice, all record rules before all stream rules;
`Precedes` is that order and `IsFirst` picks the next one to report. Range compares
`Float64` of a value, unique and enum compare `Key`, the text `json.Marshal` gives it. The key
of an object is its `Text`: two objects have one text exactly if they have the same names and
the keys of their members are the same (`TextAssumption`), and an object that holds NaN at any
depth has none. An array is opaque, a number for the text of its elements.

*`NdjsonGate`.* `pc` is the place where `Run` waits for the world: `scan` (in
`scanner.Scan()`), `divert` and `diverted` (a malformed line, its sink and its event),
`report` (the events of a record and its sink), `end`, `final` (the events of the count
rules). One action is what happens between two calls that can fail: `ScanRecord` parses,
counts and checks a line; `Report` publishes one event; `Route` counts the outcome
and calls the sink; `ReadFailed`, `Finalize`, `ReportFinal`, `ReturnSummary` are the code
after the loop. `Cancel` is the host. `input` is the history of lines; the line counter
and `Summary.Total` are its length. `broken` is `scanner.Err()`: it may become
true while lines are still buffered, and after it the scanner may give one last
`Fragment`, as `bufio.Scanner` does.

*`BatchGate`.* `NextBatch` takes a batch of any size (zero included), `CheckRecord`,
`Report` and `Tally` are the inner loop, `Accept` and `Quarantine` the two sink calls.
`keep` and `divert` are the local slices `accepted` and `quarantined`.

*`CliRun`.* The main goroutine (`Main`), the goroutine that closes the input (`CloseInput`),
SIGINT (`Interrupt`) and the input's answers to a pending read (`Answer`). `Scan` may give a
buffered line or wait in `Read`; on a closed file Read fails at once. A command line is an
`invocation`: whether flags, contract and files are sound, which outputs exist, whether closing
the input wakes a pending read. `OpenInput` and one `CreateOutput` per file come before the
signal handler: `created` is what has been emptied, and a SIGINT in between kills the process
(`Interrupted`). `WriteAll` writes to several streams in the code's order, each line as its text
and then its newline: the first failing write ends the run, with exit code 3 or, on a broken
pipe at standard output, by SIGPIPE (`Killed`), and may leave a line without its end (`torn`).

*`StreamChecker`.* `Check` and `Finalize` on a contract `Validate` admits, with the history
of records as a history variable. `FromJSON` is what `json.Unmarshal` makes of a value's text:
every number becomes a float, at any depth of an object (`Read` names the object that results).
Rules at `$` see the whole record, which `lookup` hands over as an `engine.Record`.

*`ArrowGate`.* `stage` is where `RunGate` is: opening the input, in `RunBatches` (`GateStep`
takes the steps of `BatchGate`), closing the accepted and then the quarantined writer. A writer
is its state, the column kinds its first batch fixed, and its rows; `Converted` is what
`appendValue` makes of a value. A column of the input has one kind and `valueAt` gives nulls and
values of that kind (`Fits`), none of them past `int64`. A host may `Encode` its rows as the
input (`hosted`), which are then the only batch the reader gives (`Feed`); `Decoded` is what it
reads from an output.

*`Artifact`.* A draft is a contract as an author states it: a member may be `Unset`, bounds are
the digits written. `Write` puts it in the file by hand, in a `form` that may be no contract
at all; `Compile` is either SDK's `to_ir` and `canonical_json`, `Canonicalize` a Go
program's `CanonicalJSON`, `Adopt` makes what `inspect` printed the file: these three
announce a digest. `Refuse`, `Answer` and `Run` are the commands, `reports` what they said.

*`Gate`.* No seen-set, no counter, no pending state: `Verdict(i)` of line `i` is defined
from the history of lines. `Take` reads a line only when the evidence of the earlier ones is
complete and none stopped the gate; `Advance` lets outputs grow within what the verdicts
call for; `Conclude` publishes findings of the count rules on a complete stream; `Complete`
and `Halt` end a run whose outputs are exactly what the verdicts say.

*What a failed call leaves.* A host's sink that fails leaves nothing behind: the code cannot
know more. A failing write of the CLI leaves nothing, or the line without its newline: more
than one line cannot be in question, since the program buffers nothing.

## 3. Runs

| Run | Instance | Shows |
| --- | --- | --- |
| `ndjson_gate` | 5 contracts, 3 records and a malformed line, up to 3 lines, hosts with all, none and some sinks | safety, refinement of `Gate`, termination of `Run` |
| `batch_gate` | the same contracts, up to 3 records in batches of 0 to 2 | the same gate over batches, however they are cut; what a failure loses |
| `stream_checker` | 20 objects with numbers as `int64`, `float64` and `json.Number` on both sides of 2^53, null, NaN, texts, arrays and nested objects; 6 contracts with every predicate, one of them with unique and enum at `$`, and 2 that are refused; 3 records | verdicts depend on values and history only; NDJSON, Arrow and Go hosts get the same ones |
| `arrow_gate` | 3 rows with null cells, or up to 2 of a host's with integers past 2^53 and past `int64` and columns of mixed kinds; 4 contracts, batches of up to 2 | rows, values, schema, closing; a host gets back what it encoded |
| `cli_run` | the same lines and contracts as the gates, 5 kinds of command line, good and bad files, SIGINT from the first step on | streams and their order, torn lines, exit codes, refinement, an interrupted run returns |
| `contract_artifact` | 17 drafts, two languages, four forms of file, two commands | the SDKs, the engine and the commands agree on what is a contract and on its digest |
| `cli_interrupt` | standard input in blocking mode | *violation*: a forgotten interrupt |
| `cli_fragment` | an input that fails inside a line | *violation*: a torn line reported as a breach |
| `cli_broken_pipe` | a reader of standard output that goes away | *violation*: no exit code of the protocol |
| `gate_canonical` | contracts as a host wrote them | *violation*: rules are not sorted |
| `root_type` | a type rule at `$` | *violation*: no record is an object |
| `arrow_types` | a column that is null in a writer's first batch | *violation*: its integers become text |

**Why the bounds are enough.** Three lines are what it takes to repeat a key, to accept,
drop and divert in one run, to exceed and to fall short of a count of 2, to
halt before the end, and to have a torn line after good ones. The records are: two with
the same key, one complete and one without an e-mail, and one with a null key and no
e-mail. The contracts put every action on record rules, unique rules and count rules, have
two unique rules on one field, list rules out of the order of their ids, put stream
rules before record rules, and include one contract that `Validate` refuses. Batches of up
to two records over three records give every way of cutting them that matters: a halt inside
a batch, at its end, an empty batch, a batch after a batch. `Exact` stands for 2^53 (8 in
the runs): what matters is that integers lie on both sides of it and are rounded past it: with 8 the
floats from 8 on are 2 apart and those from 16 on 4, and the runs have integers that are
floats, that fall half way between two, and that are spelled otherwise. `MaxInt64` (15)
lies past `Exact` and below a `uint64`. Two reports are what an agreement of two commands
needs; the drafts differ in one respect each: what they leave out, order, kinds that
contradict the predicate, patterns of one language only, wide bounds (whole and half), equal
ids.

**Fairness.** `Run` and `RunBatches` are sequential code: weak fairness of their next step says
that they are scheduled and that a reader or sink returns. `Termination` of `Run` is about
inputs of at most `MaxLines` lines: on an endless input it runs until it is cancelled. A source
that answers with empty batches for ever would keep `RunBatches` busy, so its termination
assumes that a source asked again and again ends (strong fairness of `SourceEnds`); nobody has
to cancel. In the CLI both goroutines are scheduled (weak fairness of `~Writing /\ Main` and of
`CloseInput`), and nothing is assumed of the world: a read may wait for ever, and so may a write
to standard output or to an output that is a full pipe or FIFO with a reader that stalls
(`Writing`; writes to standard error are part of their steps and taken to return).
`InterruptReturns` is what the closing goroutine is for. There are two places where an
interrupted run hangs, and the property says that there is no third: a pending read of a
standard input in blocking mode, which closing does not wake, and a write that never returns.
SIGINT no longer kills the process then, since `signal.NotifyContext` took it (`main.go:114`),
and closing the input wakes no write.

**Deadlock** is checked in every run but those of `StreamChecker`, which ends when it is
finalized, and of `Artifact`, which ends with the last report; a returned program stutters (`Returned`).

## 4. Findings

1. `cli_interrupt`. `docs/streaming.md:40-42` gives exit code 3 to an interrupted
   execution. The context is looked at only when `Scan` has given a line (`main.go:126`).
   If SIGINT comes during a pending read of a blocking standard input and the input then
   ends (the usual end of `producer | actually-fine run` when both get the signal),
   `interrupted` stays false, the count rules are applied to the partial stream and the run
   exits 0 or 1. `InterruptedExits3` leaves death by SIGPIPE aside, which is finding 4.
2. `cli_fragment`. When a read fails inside a line, `bufio.Scanner` hands over the torn
   rest, and under `--invalid-record quarantine` it is quarantined and reported as an
   `input.parse` breach before the scanner's error is met. `docs/streaming.md:40-42` calls
   scanner errors "runtime failures, not data breaches". `brokoli.Run` does the same.
3. `gate_canonical`. `docs/contract-ir.md:8-12` says a contract is normalized before
   execution; `brokoli.Run` and `RunBatches` only validate it. Verdicts do not depend on it
   (`RefinesGate` holds), the order of the findings does.

4. `cli_broken_pipe`. `docs/streaming.md:40-42` gives exit code 3 to a broken pipe. The
   program asks for SIGINT only (`main.go:114`), so a write to a broken pipe at standard
   output ends it by SIGPIPE.
5. `root_type`. `type: object` at `$` breaches on every record: `lookup` returns an
   `engine.Record`, and `typeMatches` asserts `map[string]any` (`engine.go:223`).
6. `arrow_types`. `BatchWriter` takes the type of a column from the first batch it is given
   and makes it text if it is null there (`codec.go:106`), whatever the input's schema
   says; integers of later batches are printed. `CellsSurvive` shows that this is the worst
   that happens: nothing is replaced by 0.

Met while reading, and not a run:

- Exit code 4 (`result.PolicyFailure`) is documented and never returned.
- A failed write of the human summary and a failed close of an output go unnoticed
  (`main.go:248`, `main.go:98`). SIGINT before the handler is in place ends the process with
  outputs emptied (`created`).
- Once the handler is in place, SIGINT does not end a run that waits in a write (a full pipe,
  a FIFO nobody reads): the context is looked at after a scan only (`main.go:126`), and the
  goroutine at `main.go:116` closes the input and no output.
- `closeWriters` returns at the first `Close` that fails (`arrow/gate.go:64`), and the quarantined
  writer behind it stays open: a stream without its end. `WritersClosed` says that this is the only way.
- When the accepted sink of `RunBatches` fails, the quarantined records of the batch go to nobody
  although their findings are published (`batch.go:93`); `AtMostOneBatchInFlight` bounds the loss.
- An output that names the input file empties it before a line is read (`main.go:101`), and the
  run reports an empty stream.
- An output of `RunGate` that received no batch is empty, which no Arrow reader opens.
- NDJSON numbers pass through `float64`, so distinct integers past 2^53 become one key of a unique
  rule; over Arrow they stay two. The same happens to whole rows under a unique rule at `$`.
  `TransportsAgree` shows that the error goes one way: NDJSON never lets a duplicate pass that
  Arrow finds. An enum of wide integers breaches over Arrow on the members it lists, because the
  contract's own numbers were rounded (`engine.go:136`), and never admits there what it refuses
  over NDJSON. A `json.Number` spelled 1.0 is not a member of the enum [1], and is a key of its
  own; likewise -0.
- `Encode` wraps a `uint64` past `int64` (`codec.go:329`), writes 0 for a float in a column that
  begins with an integer, and panics on a number in a column that begins with a boolean
  (`codec.go:298`). `HostedSurvive` shows that columns of one kind are safe.
- The SDKs compile patterns that RE2 has not (lookahead), which the engine refuses:
  `CompiledAdmitted` excludes them (`PortablePatterns`). TypeScript sorts ids by UTF-16 units,
  Go and Python by code points, so an id outside the basic plane may sort otherwise
  (`PortableIds`). An empty pattern or an explicit empty text is kept by the SDKs and dropped by
  Go's `omitempty`; Python keeps integers past 2^53 that Go rounds (`PortableSpelling` excludes
  both). Python also writes 1e-05 where Go writes 0.00001: the model's numbers are halves, so it
  has no such number. In each case the digest the SDK gives is not the one
  `inspect` prints.

## 5. Proofs

The theorems hold for every value of the constants: any rules, requests or command lines,
any records, any number of lines and any cut into batches. The invariants they rest on were
checked by TLC on the instances of section 3 before they were proved.

| Theorem | States |
| --- | --- |
| `NdjsonGateProofs!TypeCorrect` | `TypeOK`: every published event is complete, counters and outputs are what they should be |
| `NdjsonGateProofs!EventsAlwaysValid` | `EventsValid`: `publish` never meets an event that `Event.Validate` refuses |
| `NdjsonGateProofs!AcceptedOutputUnique` | `AcceptedUnique`: no two accepted lines share the key of an enforcing unique rule |
| `NdjsonGateProofs!SummaryAlwaysAgrees` | `SummaryAgrees`: between two lines the counters are what the sinks hold |
| `NdjsonGateProofs!ExitCodeAlwaysSound` | `ExitCodeSound`: `Breach` exactly if an enforcement finding was published |
| `NdjsonGateProofs!EvidenceAlwaysInOrder` | `EvidenceInOrder`: by line, within a line by rule, nothing twice |
| `NdjsonGateProofs!GateRefined` | `RefinesGate`: every behaviour is one that `Gate` allows |
| `NdjsonGateProofs!EvidenceLeadsRecords` | `EvidenceFirst`: no sink holds a record before its evidence, also after a failure |
| `NdjsonGateProofs!OneLineInFlight` | `AtMostOneInFlight`: whatever stops a run, only its last line may be missing |
| `BatchGateProofs!TypeCorrect`, `SummaryAlwaysAgrees`, `GateRefined`, `EvidenceLeadsRecords` | the same of `RunBatches` |
| `BatchGateProofs!OneBatchInFlight` | `AtMostOneBatchInFlight`: whatever stops a run, only records of its last batch, and findings of its last record, may be missing |
| `CliRunProofs!TypeCorrect` | `TypeOK` |
| `CliRunProofs!StreamsAlwaysAgree` | `StreamsAgree`: results file and standard output hold the same events but for the last |
| `CliRunProofs!TornOutputsAlwaysFail` | `TornOutputsFail`: a run that left a torn line does not exit with 0 or 1 |
| `CliRunProofs!EvidenceAlwaysSorted` | `EvidenceSorted`: by line, then record rules before stream rules, then by id, whatever the file's order |
| `CliRunRefinement!GateRefined` | `RefinesGate`, on the normalized contract |
| `CliRunRefinement!ExitCodeAlwaysSound` | `ExitCodeSound`: 1 exactly if a verdict was not to accept, or a count rule that enforces was broken |
| `StreamCheckerProofs!TypeCorrect` | `TypeOK`: no key of a null or of a value without an encoding, no more keys than records |
| `StreamCheckerProofs!UniqueJudgesHistory` | `UniqueOnce`: a record breaches a unique rule exactly if it has no comparable value, or shares one with an earlier record |
| `EngineLemmas!NormalizeKeepsValid`, `NormalizeCanonical`, `NormalizeIdempotent` | what `Validate` admits stays admitted and gets rules in strictly rising order of ids; equivalent contracts become the same contract; normalizing twice is normalizing once |
| `ArrowGateProofs!TypeCorrect` | `TypeOK`: an output has one schema, every cell null or of its column's kind |
| `ArrowGateProofs!CellsAlwaysSurvive` | `CellsSurvive`: a row is written as it was read, or with cells printed as text |
| `ArrowGateProofs!HostedAlwaysSurvive` | `HostedSurvive`: what a host encoded from columns of one kind, it decodes |
| `ArrowGateProofs!WritersAlwaysClosed` | `WritersClosed`: every writer is closed, but the quarantined one where closing the accepted one failed |
| `ArrowGateProofs!StreamsAlwaysComplete` | `StreamsComplete`: success means that the outputs hold every row |
| `StreamCheckerProofs!NormalizationKeepsVerdicts` | `VerdictsCanonical`: a checker of the canonical contract breaches the same rules on the same history |
| `StreamCheckerProofs!ValueDecidesVerdict` | `JSONDecides`: values with one JSON text are judged alike, whatever Go types carry them |
| `StreamCheckerProofs!TransportsJudgeAlike` | `TransportsAgree`: NDJSON, Arrow and Go hosts get the same verdicts while integers are floats, whole rows at `$` included; past 2^53 rounding hides no duplicate, and no enum of a contract file loses a member to it |
| `ArtifactProofs!TypeCorrect` | `TypeOK`: a digest is taken of a document that leaves nothing to a default |
| `ArtifactProofs!EngineAdmitsCompiled` | `CompiledAdmitted`: what an SDK compiles, the engine admits, and with portable ids finds normal |
| `ArtifactProofs!OneDigest` | `DigestsAgree`: the digest that came with a contract is the one the commands compute |
| `ArtifactProofs!DigestIdentifiesMeaning` | `EquivalentContracts`: one digest exactly if the contracts mean the same, and then one answer |

### The arguments

*Types and events (both gates).* `TypeOK` is not inductive: that events are complete depends
on the contract having passed `Validate`, and that a line number is positive depends on
`input` not being empty where events are made. `Inv` adds `Admitted` (past `Begin` the
contract is one `Accepts` admits) and `Numbered` (`Records` in `BatchGate`: where a line is in
progress, there is one, and it parsed where its events are reported). `EventsValid` follows
from it: `Validate` gives ids, versions and actions; `FinalLine` and the input give the line.

*Uniqueness.* `AcceptedUnique` needs the link between the history and the checker's memory.
`UniqueInv` says that `seen` covers the keys of every accepted line (and of the line in
progress), and that while a record is reported `flagged` still tells the truth about it:
if no enforcing unique rule flags it, its key exists and is new. When `Route` accepts
a line its key is therefore none of those `seen` covered before it, hence none of an
accepted line.

*Summary and exit code.* `Accounts` says at every step, not between lines only, how the
counters and the sinks differ: `Counted` (each line is counted once, the line in progress
not yet), `Held` (a sink holds what was counted for it unless a call of it failed), `Halting`
(a halt is on its way out). In `BatchGate` the local slices take part: what was counted for a
sink is what it holds and what the slice holds. `Exits` relates the counters to the published
findings.

*Order of evidence.* `EvidenceInOrder` is kept by `Ordered`: between lines every event is of an
earlier line (`OrderedBetween`), while a line is in progress its events come from the rules
flagged and no longer pending, and each of these precedes each pending one (`Queued`).

*Refinement.* `Gate` has no counter, no memory and no pending state; its verdict on a line is
a function of the lines up to it. `History` gives all state of the loop in those terms: `seen`
is the union of the keys of the lines read (`SeenExact`), `count` their number (`CountExact`),
and, place by place (`Waiting`, `Diverting`, `InProgress`, `Ending`, `Concluding`), the outputs
are the lines that the verdicts route there and the published pairs of line and rule are
the findings, but for the line in progress, where they are those flagged and not pending.
With it, `flagged` is `Gate`'s set of breaches of the line, and its outcome `Gate`'s verdict.
Verdicts on a prefix do not change as lines come (`VerdictsStand`), so each action of the loop
is `Take`, `Advance`, `Conclude`, `Complete`, `Halt` or a stutter; the step and the next
`History` are proved together (`Implemented`), one action at a time. `EvidenceFirst` and
`AtMostOneInFlight` are read off `History`; a run that failed keeps them because nothing moves
any more (`Left`). `AtMostOneBatchInFlight` adds `Recent`: what the slices hold came in the last
`MaxBatch` records, since a batch clears them and `Len(batch)` counts what is left of it.

*The CLI* has many more steps, most of which move the same few things. They are sorted into
kinds, each of which says what an arbitrary step of it moves (`Quits`, `Continues`,
`StopsReading`, `Takes`, `Wrote`), and invariants are kept kind by kind. `Inv` is `TypeOK`
with `Loaded` (the rules are those of a normalized, admitted contract), `Numbered`,
`Unfinished` (before the end no line is torn) and `Abreast` (the event streams are equal
between writes). `History` then is that of the gates, over the lines of each stream that are
whole (`Intact`). `EvidenceSorted` rests on
`NormalizeKeepsValid`: the order of the rules that run is that of their ids (`RulesInOrder`), within
each of the two groups that the checker reports one after the other.

*The checker.* `UniqueOnce` speaks of the history, the checker of its memory. `Remembers` ties
them: under each rule `seen` is the union of the keys of all records so far. It is inductive
because `Validate` admits no two rules of one id (`OwnKeys`: then no rule sees another's
keys), and `CheckUnique` reads a verdict off it: that two values share a key means that
`EqualJSON` holds of them. `Bounded` adds one key at most per record (`KeysFew`).

*Verdicts.* `Judged` says what the last call returned in terms of the history alone: the rules
it is `BreachedBy`. It holds beside `Inv`, by `FreshVerdict`: a memory that is the union of the
keys so far finds what the history says. The three properties are read off it.
`VerdictsCanonical` compares with a checker that was never run, whose memory is a recursive
function of the history: `SeenAfterIs` finds it to be `Kept`, the union again, and
`DefaultVerdict` and `NormalizeRearranges` take care of the rest. `JSONDecides` goes by cases on two
values with one key (`KeysMeet`): they are equal, or both missing, or an integer and the whole
float that it spells (`Spells`), and no predicate tells them apart (`SameVerdict`).
`TransportsAgree` needs to know what reading a row from JSON does to a value: to two values with
one key (`EqualsFromJSON`: they still have one, which is why rounding hides no duplicate), to a
member of a contract file's enum (`EnumFromJSON`) and to a portable value (`PortableFromJSON`: nothing
a predicate sees changes). Each is proved of scalars first (`ReadScalar`, `EqualScalars`,
`PortableScalar`). A row at `$` holds scalars (`Plain`): `MembersFound` and `PlainRead` say what is
read of it member by member, and `TextAssumption` turns equal members into equal texts
(`TextsRead`, `PortableText`).

*Numbers.* `Rounded` picks one of the two multiples of the spacing around a number.
`RoundedTwice` (a float is its own rounding) and `RoundedMonotone` (bounds in order stay in
order) are not obvious where a number rounds up into the next binade: `SpacingsDivide` and
`RoundedSide` say that the ends of a binade are multiples of both spacings, and that rounding
does not leave it.

*Recursion.* The library's induction theorems take an operator, which the provers cannot
instantiate. Stated of a set they need none: `InductiveSet` is induction over a subset of the naturals,
`RecursionDefines` the existence of a recursive function whose step is itself given as a function.

*The contract file.* `Sourced` says where an announced digest comes from (a document an SDK
`Emitted`, or the engine's own, `Canonical`) and `Truthful` that a report says what `Decode` and
`Digest` say of its file; both are kept by every action. What remains is about documents.
`RuleReturns` is the round trip: what Go writes it reads back as the rule it was, because the
shortest digits of a float read as that float. Hence the canonical document determines the
normalized contract, and that the meanings of the rules (`CanonicalDecides`, by
`NormalizeCanonical`). In the other direction contracts that mean the same have as many rules
and the same ids, so by counting (`OneToOne`) ids are unique in both or in neither, and both are
admitted or refused (`EquivalentAdmitted`). For the SDKs `RuleCompiled` takes each check of
`to_ir` to one of `Validate`'s, `CompiledNormal` finds the compiled rules sorted if both orders
of ids agree, and `CompiledReturns` that Go's own text of the document is the document if every
bound is spelled alike.

*Arrow.* `Schema` gives the input one kind per column. `Written` says that a writer's rows are
the rows of the lines its sink took, converted to the writer's kinds, and that each of
these kinds is the schema's or text; by `ConvertedKeeps`, a value that fits its column comes out
as it is or printed. `Staged` and `Closing` follow `RunGate` through its closing, and `Counts`
relates the sinks to the counters, which is what `StreamsComplete` needs. A host's rows
additionally survive as they are because they are one batch (`OneBatch`): a writer then
takes the kinds from all the rows that it will ever write, so a column becomes text only where
every value it gets is null (`KindsKept`).

### What the proofs assume

Only the named assumptions of the modules, which TLC evaluates in every run: requests,
contracts and command lines are well formed (`RequestsAssumption`, `GivenAssumption`,
`InvocationsAssumption`, `DefaultsAssumption`), lines are whole when they are produced
(`LineAssumption`), records are numbers (`RecordAssumption`), bounds are natural numbers
(`MaxLinesAssumption`, `BoundsAssumption`, `MaxInt64Assumption`). `ArrowGate` adds what an Arrow
batch is: every row has all columns (`ColumnsAssumption`), a column holds nulls and values of one
kind, no integer past `int64` (`RowsAssumption`), a host's cells are nulls and scalars
(`HostedAssumption`), and the rows that `Encode` writes have names in `Record`'s universe
(`NamesAssumption`: the model names rows by numbers).

`Engine` assumes what the JSON text of an object is (`TextAssumption`: objects have one text
exactly if they agree in names and in their members' keys) and `StreamChecker` what reading it
gives (`ReadAssumption`: member by member what `FromJSON` gives). Both describe `encoding/json`,
and TLC checks them of the objects of the instances. `StreamChecker` adds what a record holds
(`FieldsAssumption`: integers are whole, floats are what `Rounded` leaves alone, an object is a
record of `Member`), and `Numbers` what a decimal text of a float is (`SpellingAssumption`: it
reads back as the float, and floats up to `Exact` are spelled as they are). `Artifact` assumes
that there is a draft (`DraftsAssumption`), that ids have a place in UTF-16 order, any place
(`Utf16Assumption`), and that the mark of a member left out is no pattern (`UnsetAssumption`,
with `TextsAssumption` for the literals). The theorems about `Artifact` are about digests as
documents, so they take SHA-256 to have no collisions.

### What the proofs changed in the model

A refinement proof found two arms of `Gate`'s `Verdict` to overlap: its `CASE` left open which
of two outcomes a line has, and TLC took the first; it is now decided in the code's order. The
proof of `DigestsAgree` found Python's numbers to be wrong past `Exact`: only a whole bound is an
integer there, a half is a float like any other and was taken for exact; a draft with such a
bound is now in the run. The assumption on `Spelling` was too weak for the round trip, and
the values of a record had no type. Operators that the provers cannot see into were stated
otherwise: sorting by `SortedBy`, which puts an element after as many as come before it,
`Kind` of a column by the least index of a value, `Spacing` by the least of the spacings that
suffices instead of a count of binades, documents by a function of each rule.

### Only model-checked

- `Termination` of both gates and `InterruptReturns`: liveness under fairness, which this prover
  does not reach.
- The properties that runs show violated.

## 6. Not modelled

- The bytes of JSON, the escaping of text and SHA-256: a document stands for its canonical
  text and a digest for the document.
- The values of an `enum` in a digest, whose numbers go the way of bounds and whose objects
  each language orders by its own keys.
- The elements of an array: it is opaque, one number for its text, and no row of
  `TransportsAgree` holds one or an object.
- A Go host's values that `json.Marshal` treats in its own way (`[]byte`, values with a `MarshalJSON`,
  maps that hold themselves).
- `float32`, which compares as the `float64` it widens to and is written with fewer digits,
  and a `json.Number` that does not parse.
- A Go host's lists, maps and `json.Number`s as Arrow cells, which `appendValue` prints.
- A Go host that puts an `engine.Record` in a field of another, which `lookup` does not enter
  as it enters a `map[string]any`.
- The human summary, messages and standard error, `version` and the usage text: wording.
- The JSON Schema of the IR, which no code in the repository reads; benchmarks, the generator
  of test data and CI.

## 7. Plan

Every component with behaviour is modelled, and every invariant that a passing run checks is
proved, as is that the three loops implement `Gate`. The runs stay: they check the instances,
liveness, and the places where the code and its documents disagree. What could be added:

1. The values of an `enum` in a digest, and the escaping of texts in the three languages.
2. Lists, maps and literals as Arrow cells of a Go host.
