# TLA+ models of the turbomcp source auditors

The repository holds three batch scripts that audit a Rust code base by
pattern matching rather than by parsing:

| script | what it does |
|---|---|
| `src/audit_traits.py` | finds `trait` declarations, delimits each body by counting braces, profiles how each single-method trait is used in the corpus (impls, `dyn`, bounds) and classifies it as DEFINITELY_REMOVE, MAYBE_REMOVE or KEEP_AS_IS |
| `src/audit_arc_mutex.py` | finds `Arc<Mutex<..>>` occurrences line by line, scores each with heuristic checks (HIGH/MEDIUM/LOW), splits them into test and production code, and dumps a report |
| `src/comprehensive_audit.py` | a file overview and seven counting passes over the same corpus (TODO keywords, `.clone()` with hot spots, `Box<dyn`, string allocations, `#[must_use]`, async/await, API visibility), dumped as one report |

`spec.md` describes them as four parts:
- the **Signal Extractor** (`extract_traits`, `extract_arc_mutex_usage`);
- the **Usage Profiler** (`check_trait_usage`);
- the **Classification Engine** (`analyze_trait_necessity`, `analyze_usage_pattern`);
- the **Aggregator** (the `main` functions).

A **Corpus Provider** (`find_rust_files`, `is_test_file`) feeds all four.

Each `main` is a single-threaded loop over the files. The concurrency is
therefore the order of steps inside one run, and the failures that can occur
are failed reads. The models keep every step of those loops and every early
exit, and treat every read as one that may raise.

## Modules

| module | models | state | actions |
|---|---|---|---|
| `TraitClassifier` | `analyze_trait_necessity` (audit_traits.py 126-162) | pure operators | `KeepReasons`, `RemoveReasons` (rule tags in code order), `CategoryOfReasons` (the final if/elif/else), `Classify` |
| `TraitExtract` | `extract_traits` on one file (audit_traits.py 17-86) | `content` (a sequence of symbols), the finditer resume point `mpos`, the header found, the walk's `pos` and `brace_count`, the records appended | `FindHeader` (MULTILINE `^`, leading blanks), `NoMoreHeaders`, `ScanChar` (one iteration of the brace loop), `EndScan` (slice, member and associated-type counts, line number, resume) |
| `TraitAudit` | `main` and `check_trait_usage` of audit_traits.py | the corpus (which file declares each trait, its facts, the per-file matches of each regex), loop indices, `all_traits`, the traits still to classify, the accumulator `usage`, the filed results | `ExtractFile`, `ExtractReadFails`, `SelectSingleMethod`, `BeginUsage(t)`, `ScanFile`, `ScanReadFails` (the `except: continue`), `RecordCategory`, `SaveReport` |
| `ArcMutexExtract` | `extract_arc_mutex_usage` on one file (audit_arc_mutex.py 34-60) | `lines` (a sequence of line kinds), the loop's `ln`, the matches | `ScanLine` (captures the inner type and slices the context window), `Finish` |
| `ArcMutexAudit` | `main`, `is_test_file` and `analyze_usage_pattern` of audit_arc_mutex.py | the corpus (each file's path, occurrence signals and whole-file signals), the file and usage loop indices, `all_usages`/`test_usages`/`prod_usages`, the report | `ExtractFile`, `ExtractReadFails`, `ReadContent`, `ReadContentFails` (the second, unguarded read), `AnalyzeUsage`, `EndFile`, `SaveReport` |
| `CodebaseCorpus` | `find_rust_files` and `is_test_file` of comprehensive_audit.py (12-33), shared by the two modules below | `path`, `content` and `unreadable` of each file, chosen in `Init` | — |
| `CodebaseAudit` | `main` of comprehensive_audit.py and its seven passes (35-341) | the corpus, `pc` (the pass under way), the file index `fi`, the overview, one accumulator per pass, the report | `CountFiles`, one per-file action per pass (`AnalyzeTodosFile` ... `AnalyzeApiFile`), `ReadFails` (any pass's unguarded `open`), `RankHotSpots` (the end of the clone pass), `EndPass`, `SaveReport`, `SaveFails` |
| `CodebaseReport` | what `main` of comprehensive_audit.py promises: the report in closed form | the corpus, `status`, `report` | `Write` (only when every scanned file is readable), `Fail` |
| `TraitAuditProofs` | — | — | the TLAPS proofs about `TraitAudit` |
| `ArcMutexExtractProofs` | — | — | the TLAPS proofs about `ArcMutexExtract` |
| `TraitExtractProofs` | — | — | the TLAPS proofs about `TraitExtract` |
| `ArcMutexAuditProofs` | — | — | the TLAPS proofs about `ArcMutexAudit` |

Each `MC_*` module gives the model values that its `.cfg` files use.

### Data abstraction

**Text in TraitExtract.** A file's text is a sequence of symbols. `"hdr"` stands for a whole header ending in its `{`. The others are `"lb"` and `"rb"` for `{` and `}`, a line break, a blank, `fn name`, `type Name`, `//`, and other text. The header regex, the brace walk and the per-line comment stripping are decided on these symbols.

**Corpus in TraitAudit.** The per-file match counts of the impl, `dyn` and bound regexes are chosen in `Init`, from small sets given in the cfg.

**Lines in ArcMutexExtract.** A line is `decl_bool`, `decl_map` or `plain`.
- The inner type is a sequence of tokens: `<`, `>`, and `a` for a run of other characters.
- `Capture` decides the group `([^>]+(?:<[^>]+>)?)` by the regex engine's backtracking order. The longest `[^>]+` is tried first, the optional group before its absence, and the longest inner `[^>]+` first. This is the order Python's `re` tries them in, so the captured text is the one Python returns.

**Paths in ArcMutexAudit.** A path is `<root>/<dir>/<stem>.rs`, with dir and stem taken from small sets of real names. `IsTestFile` writes out the code's six substring tests on those names.

**Occurrences in ArcMutexAudit.** An occurrence is reduced to what `analyze_usage_pattern` reads:
- its inner type, as the pattern captures it;
- whether its window is read-heavy;
- whether its line builds and clones the Arc.

A file is reduced to its `.clone()` count and whether it mentions threading or channels.

**Corpus in CodebaseCorpus.** A file has a path built like the ones above (`src`, `tests`, `benches` or `target`, and a stem) and a content reduced to what the passes find in it: for each line, the set of TODO keywords in its upper-cased text, and the number of matches of each other regex or substring. At most one file is unreadable; it fails every time it is opened.

Text wording, console output and the JSON layout are left out.

## Runs

Every run is `tlc -workers 2 -config <cfg> <module>` in this directory.

Pass runs:

| run | module / cfg | checks | distinct states |
|---|---|---|---|
| trait_audit_profile | MC_TraitAudit / TraitAudit_profile.cfg | TypeOK, ProfileIsOfReadFiles, SkippedFilesOnlyLeanTowardsRemoval, ReportCoversSingleMethodTraits | ~70k |
| trait_audit_traits | MC_TraitAudit / TraitAudit_traits.cfg | ProfileIsOfReadFiles, SkippedFilesOnlyLeanTowardsRemoval, ReportCoversSingleMethodTraits | ~143k |
| trait_extract_body | MC_TraitExtract / TraitExtract_body.cfg | TypeOK, BodyIsMatchedSpan | ~75k |
| arc_mutex_report | MC_ArcMutexAudit / ArcMutexAudit_report.cfg | TypeOK, ReportMatchesCorpus, ProductionUsagesInCorpusOrder | ~434k |
| arc_mutex_lines | MC_ArcMutexExtract / ArcMutexExtract_lines.cfg | TypeOK, OccurrencesFollowLines, ContextHoldsMatchLine | ~8k |
| codebase_audit_report | MC_CodebaseAudit / CodebaseAudit_report.cfg | TypeOK, ReportImplemented (under `FairSpec`) | ~38k |

Violation runs. Each checks one statement of the spec, and TLC finds a counterexample to it:

| run | property | what the code does instead |
|---|---|---|
| trait_extract_unclosed | UnclosedHeaderSkipped | a header whose `{` is never closed is reported with a truncated body (audit_traits.py:47) |
| trait_extract_line | HeaderLineReported | the line is counted at `match.start()`, which lies before the blank lines `^\s*` swallows, so a header after a blank line gets the line above it (audit_traits.py:77) |
| trait_audit_abort | RunNeverAborts | the extraction read has no handler, so one unreadable file ends the run (audit_traits.py:19); audit_arc_mutex.py has the same two unguarded reads (36, 136), kept in ArcMutexAudit as `ExtractReadFails` and `ReadContentFails` |
| arc_mutex_testtag | TestTagFollowsPathConvention | `'test_' in path` files `src/latest_value.rs` as test code (audit_arc_mutex.py:30) |
| arc_mutex_symmetric | ContextWindowSymmetric | the window holds lines n-2..n+3, not n-3..n+3 (audit_arc_mutex.py:47) |
| arc_mutex_inner | InnerTypeIsDeclaredType | `Arc<Mutex<HashMap<K, V>>>` is captured as `HashMap<K, V` (audit_arc_mutex.py:41) |

### What the passing properties say

- **ProfileIsOfReadFiles.** Every profile, whether under construction or filed, is exactly the contribution of some set of files that were read, for that trait only. A file counts for all three kinds or for none. Counts are sums of per-file matches, not numbers of files. Nothing carries over from the previous trait.
- **SkippedFilesOnlyLeanTowardsRemoval.** A skipped unreadable file can only move a trait's category towards removal, never towards keeping.
- **ReportCoversSingleMethodTraits.** When the report is written, the single-method traits have each been classified exactly once.
- **BodyIsMatchedSpan.** The body of every extracted trait ends at the brace that matches its header's `{`. Headers and braces nested in the body are allowed. The record is marked closed exactly when such a brace exists.
- **ReportMatchesCorpus.** The dumped summary counts every occurrence of the corpus:
  - `total` counts every occurrence, and `test` and `production` count the occurrences of test and production files;
  - the severity counts cover production occurrences only;
  - `top_files` is `sorted_files[:20]`: the files with occurrences from most to fewest, cut after `TopFilesLimit` entries (20 in the code). Python's sort is stable, also with `reverse=True`, so equally counted files keep `by_file`'s insertion order, the order of their first usage. The property states the result against the corpus instead: ties in the order rglob returned the files. Each entry gives the number of occurrences in its file and whether it is test code.
- **ProductionUsagesInCorpusOrder.** `production_usages` lists each production occurrence once, file by file and line by line, with the analysis of that occurrence.
- **OccurrencesFollowLines.** The occurrences are one per match, in line order, each with its own 1-based line number. Once the function returns, every line has been scanned.
- **ContextHoldsMatchLine.** The window kept with an occurrence is a run of consecutive lines that contains the match line and reaches at most 3 lines either side.
- **ReportImplemented.** `CodebaseAudit` refines `CodebaseReport` (`Audit == INSTANCE CodebaseReport WITH status <- ...`, checked as the temporal property `Audit!Spec`). The mapping sends `pc` to `"running"` until the run is `done` or `crashed`; the corpus and `report` map to themselves. So:
  - every step before the dump is a stutter of the abstract run;
  - a crash in any pass, or when the report file is opened, writes nothing, and a report is written only when no scanned file is unreadable;
  - the report written is the closed form of `CodebaseReport!Report`: each count is a sum over the scanned files, each listing is in rglob order, a line holding several keywords counts once per keyword, and the clone hot spots are the files over 10 clones among the first `HotSpotLimit` when ranked by count with ties in rglob order (Python's sort is stable, also with `reverse=True`);
  - the run ends (the abstract specification is weakly fair).

Every one of these properties has a mutant in `PROJECT.json`. A mutant is a plausible bug in the code it maps to: an index starting at 0, a dropped clamp, a dropped guard, counts taken over the wrong list, or the wrong order. TLC finds each mutant's property violated under the run's own cfg.

### Bounds

- **TraitAudit.** Two files, one or two traits, and per-file match counts that sit on both sides of each classifier threshold:
  - impl counts 0, 1 and 2, for the `== 0`, `== 1` and `> 1` rules;
  - bound counts up to 2, for `> 2` with two files;
  - dyn counts 0 and 1.

  Any file read may fail. Two traits are enough to show state left over from one trait's scan reaching the next.
- **TraitExtract.** Every text of up to 6 symbols over the alphabet of each cfg. This covers a header nested in a body, two headers in one file, and unclosed bodies.
- **ArcMutexAudit.** Three files, each a test or a production file, with 0 to 2 occurrences of two kinds and either of two whole-file profiles. The kinds and profiles are chosen so that 0, 1 to 2 and 3 or more issues all occur, giving all three severities. `TopFilesLimit = 2` stands for 20: with three files, two or three can tie, and the cut drops a file whenever all three have occurrences. The test-tag run keeps two files and no effective cut.
- **ArcMutexExtract.** Every file of up to 6 lines. A match then has its window cut at the start of the file, at the end, and at both.
- **CodebaseAudit.** Three files, each with one of three paths (a production file, a test file, a file under `target/`) and one of three contents. The contents have 12, 11 and 0 clones, so two files over the threshold of 10 can tie with each other and with a third, and the cut `HotSpotLimit = 2` (20 in the code) drops one of them. One content has a line with both TODO and FIXME, one has 24 string allocations (over the hot-spot threshold of 20), one has Result functions and no `#[must_use]`. Any one file may be unreadable, so every pass can be the one that crashes.

### Fairness and termination

Each script is a batch loop with no waiting: every run of a model either reaches `done` or `crashed`. For that reason the cfgs say `CHECK_DEADLOCK FALSE`, because the program really does stop there.

`CodebaseAudit` has a fair specification, `FairSpec == Spec /\ WF_vars(Next)`. `main` runs alone in one thread and never waits, so while a step is enabled it is taken: weak fairness on `Next` is what the code guarantees. Under it `ReportImplemented` also checks termination, through the weak fairness of `CodebaseReport!Spec`. Without it TLC finds the run stuttering forever. The other models assume no fairness and check safety only.

## Proofs

`TraitAuditProofs.tla` proves the following with TLAPS, for every value of the constants that satisfies `ConstantsAssumption`. That assumption says:
- the file list names every file exactly once;
- the set of traits is finite;
- `NoTrait` is not a trait;
- the match counts are natural numbers.

The check is `tlapm TraitAuditProofs.tla`.

- **`TypeCorrect`: `Spec => []TypeOK`.**
  - `TypeOK` alone is not inductive, because `ScanFile` looks up the matches of `cur`, and `cur` is only a trait while a scan is under way. The inductive invariant is `IInv == TypeOK /\ ScanHasTrait`.
  - The lemmas `UsageUpdate` and `AddMatchesType` show that adding a file's matches keeps the accumulator a usage profile.
  - `ClassifyCategory` shows that the classifier always returns one of the three categories.
  - `NextIInv` has one step per action.
- **`ReportCoversSingleMethod`: `Spec => []ReportCoversSingleMethodTraits`.** It rests on `CoverInv`:
  - while files are read, `all_traits` is the set of traits of the files read so far, and nothing has been filed;
  - from the selection on, the filed traits together with the pending ones are the single-method traits;
  - the length of the report plus the number of pending traits is the number of single-method traits;
  - `cur` is pending during a scan;
  - nothing is pending once the report is written.

  `ExtractedAll` shows that once every file has been read, `all_traits` is every trait, using the assumption that the file list covers the corpus. `RecordCategory` then moves one trait from pending to the report, which needs `FS_RemoveElement`. TLC checked `IInv /\ CoverInv` as an invariant on the `trait_audit_traits` instance before the proof was written.

`ArcMutexExtractProofs.tla` proves, for every alphabet of line kinds and every bound on the file length allowed by `ExtractAssumption`:

- **`ContextWindowCorrect`: `Spec => []ContextHoldsMatchLine`.** The inductive invariant `IInv` says every match recorded so far is on a line already scanned (`1..ln-1`) and carries `Context` of its own line. `NextIInv` shows that `ScanLine` appends records on line `ln` (with `ConcatProperties` of `SequenceTheorems` for the appended sequence) and then advances `ln`. `IInvContext` then gives the window's two ends explicitly, `max(l-2, 1)` and `min(l+3, Len(lines))`.
- **`OccurrencesFollowLinesHolds`: `Spec => []OccurrencesFollowLines`.** It adds `OccInv` to `IInv`: the loop stops only past the last line, every record is on a matching line, the records are in line order, and every scanned line has as many records as matches.
- **`TypeCorrect`: `Spec => []TypeOK`.** The inner type is the pattern's capture. The lemmas `CaptureMap` and `CaptureBool` compute `Capture` on the token text of each declaration kind, so every recorded inner type is a sequence of `Tokens`.
- **`NestedInnerTypeTruncated`.** The capture of the `decl_map` line is `<<"a","<","a">>`, which is not the declared type: the `arc_mutex_inner` finding as a theorem about the line itself.

`TraitExtractProofs.tla` proves, for every alphabet and text length:

- **`TypeCorrect`: `Spec => []TypeOK`** and **`BodyIsMatchedSpanHolds`: `Spec => []BodyIsMatchedSpan`**, from one inductive invariant `IInv == TypeOK /\ WalkInv /\ BodyIsMatchedSpan`.
  - `WalkInv` says that during the brace walk `brace_count = Depth(hpos, pos-1)` and every intermediate depth is positive. Without it, `EndScan` could not tell that the brace it stops at is the one matching the header.
  - `Depth` counts the braces of a span with `Cardinality`. `DepthBase` and `DepthStep` give its value on one more symbol, using `FiniteSetTheorems`.
  - `WalkEnd` shows that at the end of the walk `brace_count = 0` exactly when some closing brace exists, and that such a brace is at `pos-1`.

`ArcMutexAuditProofs.tla` proves, for every corpus, file order and occurrence bound allowed by `ArcMutexAssumption`:

- **`TypeCorrect`: `Spec => []TypeOK`.**
  - The inductive invariant `AInv` adds two facts. No file holds more than `MaxOcc` occurrences, which bounds `ui`. During a file's second read and analysis, `usages` is that file's occurrence list.
  - `AnalyzeType` shows that `analyze_usage_pattern` returns lists of the issue and recommendation tags (`IssueTags`, `RecTags`) and a severity.
  - `AInvPrime` is a frame lemma that each action's step cites.
- **`ProductionUsagesInCorpusOrderHolds`: `Spec => []ProductionUsagesInCorpusOrder`** and **`ReportMatchesCorpusHolds`: `Spec => []ReportMatchesCorpus`.** Both rest on `OrderInv`.
  - `AllSeen` is the set of (file, line) pairs the loop has passed: those of the files before `fi`, and, during analysis, the lines of the current file before `ui`. `SeenOf(F)` is its part in the files of `F`.
  - `OrderInv` says that `all_usages`, `test_usages` and `prod_usages` hold exactly `AllSeen`, `SeenOf(TestFiles)` and `SeenOf(ProdFiles)`, each usage with its own analysis, each list in corpus order. At `done`, `fi` is one past the last file and `report` is `SavedReport`, the record `SaveReport` builds from the three lists.
  - `AnalyzeUsage` adds the next occurrence in corpus order at the end of `all_usages` and of the list its file goes to (`KeysAppend`, `AppendInOrder`). `EndFile` and `ExtractFile` on an empty file move a file whose lines have all been passed into the "before `fi`" part.
  - At `done`, `AllSeen` is every occurrence (`SeenAtEnd`), and `SeenOf(F)` is `OccOf(F)` (`OccOfPart`). That gives `ProductionUsagesInCorpusOrder` at once.
  - The counts need one more argument. A list in corpus order never repeats a (file, line) pair, so any set of its positions has as many pairs as positions (`KeysCard`, via `InjCard`, a bijection argument on `FS_Bijection`). So `Len(L)` is the number of pairs of `L` (`LenKeys`), which is `CountOcc(F)`.
  - The positions of `prod_usages` of severity `sv` map onto the production occurrences whose analysis has that severity (`FilterKeys`, `SeverityAtDone`).
  - The positions of `all_usages` in file `f` map onto `f`'s pairs, and there are `Len(occ[f])` of them (`PairsCard`, `FileCountAtDone`). The files of `all_usages` are those with an occurrence (`TopFilesAtDone`).
  - `top_files`: at `done`, `by_file`'s insertion order is the order of rglob (`InsertedAtDone`, from the corpus order of `all_usages`). So each file's place in the code's stable sort (`SortedPos`) is its rank in the corpus (`CorpusRank`, `SortedAtDone`). `RanksAbove` is a strict total order on the files (`RanksAboveOrder`), so ranks grow along it (`RankMono`) and take every value from 1 to the number of files with occurrences (`RankRange`, `RankOnto`, by `FS_Bijection` and `FS_Subset`). Then the `CHOOSE` in `TopFiles` finds, for each position up to the cut, the file of that rank (`TopFilesAtDoneMatch`).
  - TLC checked `AInv /\ OrderInv` on the `arc_mutex_report` instance before the proof was written.
  - To make this provable, the model counts as the code's groupings do, with `Cardinality` over index sets (`ByFileCount`, `BySeverityCount`) rather than `SelectSeq`. `CountOcc(F)` is the number of (file, line) pairs of `F`, not a sum over files. These are the same numbers, and TLC gives the same results with them.

Two limits of the installed provers shaped these modules:
- No backend proves that a string literal belongs to `STRING`. So the usage records of `ArcMutexAudit` type their issues and recommendations over the tag sets, which is stricter than `STRING`.
- Tuples with a `BOOLEAN` component and equality of literal sequences need explicit steps. These are the lemmas `TripleParts` and `TripleIn`, and `SeqEqual` given lengths and elements.

Everything else is only model-checked:
- **The trait profiler's counts.** `ProfileIsOfReadFiles` and `SkippedFilesOnlyLeanTowardsRemoval` (TraitAudit) compare counts with `MapThenSumSet` sums over sets of files and `SelectSeq` over the file list. Relating such a sum to a loop that adds one file at a time needs induction over the set, and the provers cannot instantiate the library's induction theorems. The per-match counts of that profile are sums, not sizes of sets, so the cardinality argument used for `ReportMatchesCorpus` does not apply.
- **The extractors' count references.** These count over index sets and would need induction over the text.
- **`CodebaseAudit` and its refinement of `CodebaseReport`.** Their `TypeOK` and report properties go through `SortSeq` and the folds of `FiniteSetsExt`, whose results for every input again need induction over data.
- **Liveness.** It is out of TLAPS's reach.
- **The violation runs.** These are counterexamples, and TLC's trace is their evidence.

## Not modelled

- **What the regexes of comprehensive_audit.py find.** The match counts of a file are inputs. So the look-behinds of the private-fn pattern (comprehensive_audit.py:228), which count `pub async fn` as private, are not modelled.
- **The tree changing between passes.** Each pass of comprehensive_audit.py lists the files again; the corpus is fixed in `Init`.
- **The must_use coverage percentage** (comprehensive_audit.py:298). It can exceed 100%, but it is only printed; the report keeps the two counts.
- **The `/target/` filter of audit_arc_mutex.py.** That model's files are the files the filter keeps. comprehensive_audit.py's filter is `RustFiles` in `CodebaseCorpus`. audit_traits.py has no filter, and `TraitAudit` keeps every file as the code does; no run restates spec section 6 on it.
- **The read-heavy ratio.** The ratio `reads > 0.7 * locks` over the window is an input of `ArcMutexAudit`, and the per-line regex counts are not modelled.
- **A file changing between the two reads** of audit_arc_mutex.py. The corpus is fixed in `Init`.
- **Associated types in comments.** audit_traits.py:64 counts associated types on the unstripped body, so a `type` in a `//` comment counts although members are counted after stripping comments. `AssocCount` in TraitExtract models this; no run restates it.
- **The character an unclosed body loses.** When the file ends before the matching `}`, `content[start_pos:pos-1]` (audit_traits.py:47) drops the file's last character. In TraitExtract a symbol stands for a run of characters, so `EndScan` drops the last symbol instead. No property reads an unclosed body's content: `BodyIsMatchedSpan` is about closed bodies, and `trait_extract_unclosed` shows only that such a record is reported.
- **Presentation.** Console output (with its own cuts at 10 files, 5 usages per severity and 15 types) and the JSON layout. The ranking and the cut of the report's `top_files` are modelled (`TopFiles`).

## Plan

1. The read-heavy check of `analyze_usage_pattern` over `ArcMutexExtract`'s window, composed with `ArcMutexAudit` so that the driver's `read_heavy` input is computed rather than chosen.
2. An abstract specification of the profiler, "usage of t = the sum over read files", with `TraitAudit` shown to refine it.
3. More proofs: `TypeOK` of `CodebaseAudit`, which needs lemmas about `SortSeq` and the folds; and the trait profiler's sums, if they can be restated as invariants over the loop's prefix that avoid induction over sets.
