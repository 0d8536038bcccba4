# A TLA+ verification development for reccmp

reccmp compares an original Windows binary with one rebuilt from a
reconstruction of its sources. It pairs the functions, variables, vtables and
strings of the two images in an *entity catalog*, decompiles the paired
functions in Ghidra under the same names, and reports the differences. Sources
enter through a *source index* that a Clang-based indexer collects per
translation unit.

This directory holds specifications of the parts of reccmp that keep state and
of the algorithms its verdicts rest on, the TLC configurations that check them
on small instances, and proofs checked by TLAPS. Line numbers below and in
`PROJECT.json` are those of the repository this development was written against.

State machines:

| Module | What it is |
| --- | --- |
| `EntityDb` | the entity catalog and its batch (`compare/db.py`) |
| `BatchCommit` | the loops of `EntityBatch.commit`, against `EntityDb`'s one-step commit |
| `PairCatalog` | what the catalog promises: an abstract specification |
| `MatchingStages` | the stages of `Compare.run` over `EntityDb` (`compare/core.py`, `ingest.py`, `match_msvc.py`, `match_folded.py`, `analyze.py`, `queries.py`) |
| `GhidraProject` | the cached Ghidra project of one comparison (`tools/compare.py`, `ghidriff/project_cache.py`, `ghidriff/engine.py`) |
| `AnalysisCache` | parses, catalogs and comparisons kept between commands (`analysis_cache.py`, `compare/target_analysis.py`, `compare/core.py`, `tools/compare.py`) |
| `IndexerWorkers` | the indexer's worker pool (`source/batch.py:_Workers`, `indexer.cpp:serve`) |
| `JobPool` | what the pool promises: an abstract specification |
| `SourceCollection` | collections that share a cache (`source/batch.py`) |
| `CollectorBuild` | the build of the collector they share (`source/batch.py:resolve_indexer`) |
| `InlineRetry` | the retry of a function with callees substituted (`ghidriff/inlining.py`, `engine.py`) |

Algorithms, as operators over one input:

| Module | What it is |
| --- | --- |
| `Annotations` | markers, blocks and their completion, pruning, lint (`parser/`) |
| `SourceDerivation` | facts and markers of a target from its translation units (`source/derive.py`, `observations.py`, `markers.py`) |
| `LineTable` | source lines and addresses (`compare/lines.py`) |
| `PdbNodes` | symbols of the PDB and the choice of modules (`cvdump/symbols.py`, `analysis.py`, `targeted.py`) |
| `TypeScalars`, `SourceLayout` | what a byte of a variable is, by the PDB or by the sources (`cvdump/types.py`, `source/layout.py`, `compare/variables.py`) |
| `PeImage` | addresses, bytes and text of an image (`formats/pe.py`, `image.py`) |
| `DerivedPairs` | pairs derived from pairs (`match_msvc.py`, `match_folded.py`, `analyze.py`) |
| `TableSlots` | the comparison of two virtual tables (`vtables.py`, `thunk_resolve.py`) |
| `CallCensus` | the comparison of direct calls (`call_census.py`) |
| `SharedNames` | names both programs are shown under (`ghidriff/names.py`) |
| `DataReferences` | the data a function refers to (`ghidriff/locations.py`, `contents.py`, `engine.py`) |
| `Prototypes`, `ProgramListing` | prototypes, functions and data of the programs (`ghidriff/preparation.py`, `engine.py`) |
| `ComparisonResults` | findings and outcome of a pass (`ghidriff/results.py`) |

Proofs and instances:

| Module | What it is |
| --- | --- |
| `EntityDbProofs` | theorems about `EntityDb` and the loops of `BatchCommit` |
| `SourceCollectionProofs`, `GhidraProjectProofs`, `IndexerWorkersProofs`, `AnalysisCacheProofs`, `MatchingStagesProofs` | theorems about the module in the name |
| `RulesProofs` | theorems about `InlineRetry`, `SharedNames` and `PeImage`, as one session sees them |
| `SharedFilesProofs` | theorems about `CollectorBuild`, and about the cache, where both live (`MCSharedFiles`) |
| `MCEntityDb`, `MCMatchingStages`, `MCGhidraProject`, `MCSourceCollection` | instances: constants that need a definition, symmetry |
| `MCSharedFiles` | `AnalysisCache` and `CollectorBuild` in one instance |
| `MCRules` | `InlineRetry` and the algorithms in one instance; the inputs are in `MCSourceRules`, `MCImageRules`, `MCPairRules`, `MCPrepareRules` and `MCProgramRules`, each extending the one before |

## 1. The system

### Parts, state, operations

*Entity catalog* (`compare/db.py`). Per image: known addresses with their
facts, an ordered address index, the match map; over both: the basis of each
pair, joined views of paired addresses, side-local aliases, the sealed flag.
Written by `EntityBatch` (a `with` block that stages facts and pairs and
commits at its end), `bulk_match`, `set_alias`, `freeze`. Correct when pairs
are one-to-one and final, when the copies of the pairing agree, and when an
alias is an unpaired address that names a pair.

*Matching stages* (`compare/core.py`, `ingest.py`, `match_*.py`, `analyze.py`,
`mutate.py`, `thunk_resolve.py`, `verify.py`). No state of their own: a fixed
sequence of stages that read the catalog and write it through batches; an
earlier stage has precedence because a pair is final. Two of them iterate (at
most ten rounds of reference matching, bounded thunk hops). Correct when every
pair a stage adds follows from what it read and a stage never spoils what an
earlier one established.

*Prepared-analysis cache* (`analysis_cache.py`, `compare/target_analysis.py`).
Pickled PDB and marker data and sealed catalogs under fingerprints of their
inputs. Correct when a hit is what would be computed now.

*Source index* (`source/`). `batch.py` validates a cache of per-unit artifacts,
indexes the misses on a pool of `indexer --serve` processes, publishes the new
artifacts and derives an index from all units; `index.py` and `derive.py`
resolve conflicting observations, `markers.py` and `parser/` read the
annotations. State: the cache directory, shared by processes without locks;
the job queue, shared by threads. Correct when an accepted index describes the
current sources, and when every unit is either indexed or reported.

*Code comparison* (`tools/compare.py`, `ghidriff/`). A Ghidra project per
original binary with a working, a pristine and a prepared copy of the two
programs and a stamp; a cache of completed comparisons; per function an
ordinary pass and an optional inline-normalized retry. Correct when what is
decompiled is what this run asked for, whatever earlier runs left behind.

*Readers* (`cvdump/`, `formats/`, `parser/`). One pass each, no shared state, but
with sequences and boundaries of their own: markers that are completed by what
follows them, symbols in nested scopes, sections shorter in the file than in
memory. Correct when every marker is answered and an address has one meaning.

*Project files* (`project/`), *instruction analysis* (`analysis/`), *Ghidra
importer* (`ghidra/`), *reports* (`tools/`). One pass, no shared state.

### How they interact

The collector writes the index file; `target_analysis` reads it with the
binaries and the PDB and either loads a sealed catalog from its cache or runs
the stages over an empty one, which `core.py` then freezes. The manifest built
from the sealed catalog is the only thing the Ghidra side sees. The Ghidra
project and the caches are directories: they are how one run reaches the next,
and where a killed run leaves its traces.

### Where the difficulty is

- Long sequences of catalog updates by stages that do not know of one another.
- Runs that stop between two steps on disk (project folders and stamp; an
  artifact and its digests; a binary and its stamp).
- Things read early and fingerprinted late (dependencies, source digests,
  binaries) while somebody saves a file.
- Processes and threads that die with a unit in hand.
- Copies that are meant to be equal: the four forms of the pairing; the
  pristine, prepared and working programs.

`PROJECT.json` lists these as hazards, each at its line, with the properties
that would catch it, or with the reason why none does yet.

## 2. The models

### `EntityDb`

An address is a model value, and the facts at an address are left out: no
decision in `db.py` about pairs reads them. `present` are the keys of
`_entities`, `indexed` the address index, `matches`, `basis` and `aliases` the
dictionaries of the same names, and `link` the other address of the joined view
that `_entities` holds: it is kept apart from `matches` because `set_alias` and
`get_one_match` read the view while `bulk_match` reads the map.

`OpenBatch`, `BatchSet`, `BatchMatch`, `Commit` and `Abort` are the life of a
`with db.batch()` block; `BulkMatch`, `SetAlias` and `Freeze` the calls outside
one. No stage makes those calls while it holds a batch, and no two batches are
open together. `Commit` is one step, as it is in the code: nothing else runs.
It says which staged pairs are retained (`KeepsFirst`: the first retained use
of an address wins) and which of those the catalog accepts (`Fresh`). `BatchCommit`
states the same with the code's own loops: `Retain` is the body of
`_finalized_matches`, `PutByBasis` of the grouping, `MatchOne` of `bulk_match`,
and `Committed` what they leave of the catalog. The run `commit_loops` checks
that the two agree, and `CommitIsItsLoops` proves it of every staged list, so the
declarative form may be used in the other proofs. `PairCatalog` is the promise: a growing set of pairs, one-to-one,
with alias edges that end when an address is paired, until it is sealed.

Left out: section ranges, the freezing of the facts of each side, read-only
queries.

### `MatchingStages`

`Compare.run` over the catalog of `EntityDb`, which it extends: `facts` are the
dictionaries of `SideEntity` that `EntityDb` leaves out, reduced to the keys the
stages decide on; `stage` and `turn` say where the run is. Each stage is an
action that reads the catalog, writes rows and pairs through `WriteBatch` (the
commit of a batch, with `KeepsFirst`, `Fresh` and `Install` of `EntityDb`) or
one alias through `WriteAlias`, and goes on. Stages that commit several times
take a step for each: reference rounds, `FOLDED` markers, aliases, and the two
images one after the other.

`given` is what the input files say (debug symbols, CSV rows, markers, entry
points, imports, jumps, exports, code, strings). The module says what it is made
of (`GivenOK`: rows by address, of known kinds, references to addresses) and
leaves open what it says; the instance chooses inputs. A name, symbol, text or code signature is a value
compared for equality, after `match_name` and the truncation, which are pure
functions of one name. The line table is the recompiled address a marker
resolves to, if it resolves to one. Under one key `EntityIndex` hands out the
recompiled addresses in order: `InTurn` says it as equal ranks. What a stage
hands to a batch is a set of pairs, listed in the order of the addresses it
walks (`InOrder`) or, for markers, in any order (`Listings`): which pair of two
that collide is first can matter, and only that.

`WF(StagesNext)` is the program running: one thread, no wait. The properties
say of each pair that both sides carry the evidence its basis speaks of
(`PairsHaveEvidence`), that a marker on a body is never overruled
(`BodyMarkersDecide`), that a failed selector keeps a function out of the later
annotation stages (`SelectorsDoNotFallBack`), that no two twins under a pair are
left when the rounds end, short of the bound (`TwinsPairUp`), and that the run
implements `PairCatalog` and ends sealed.

`TwinsPairUp` excepts a pair whose basis is content. `match_strings` runs after
the last round, and a jump can refer to what turns out to be a string, so that
two jumps come to refer to one pair when no round is left to see it. The
statement without the exception did not survive its proof, and a jump into the
strings among the inputs of the run refutes it. The code loses nothing by it
that its documents promise: such jumps stay unpaired and are reported so.

Left out, with what only they touch: floats, CRT records, the retyping of
zero-size rows, sizes and display names. The stages that derive pairs from
pairs (vtables, static variables, SEH records, callees) are in `DerivedPairs`,
over inputs of their own.

### `GhidraProject`

The folders `root`, `pristine` and `prepared` map a binary to what Ghidra
stores under its name: whose import purges it knows, with which of them it was
analyzed, whose memory permissions it has, and the *marks* that preparations
left in it. Every preparation key leaves its own marks, so a program that
carries the names of two catalogs is visible as such. Keys are opaque;
`BuildOf` gives the recompiled build whose digest is in a key.

The steps of `_compare_programs` are the values of `at`, each an action; a loop
over files is a step per file, and a replacement is a deletion and a copy.
`Stop` can follow any step: it is the normal end, an exception, or a kill. The
project is locked by Ghidra while it is open, so runs do not overlap. A save or
copy of one program by Ghidra is taken as one step. The completed-comparison
cache (`AnalysisCache`) stands in front of the project and only decides that a
run does not happen; keys here can repeat because what a completed comparison
depends on is more than what a preparation depends on.

### `IndexerWorkers`

A thread's place in `work`, the job in its hand and the state of its process;
the queue, the failures and the outputs on disk. `FinishJob` and `Die` are the
process's steps: it writes the output, then the reply, and can die in between,
or leave part of a reply. `StartProcess` and `ReadTornReply` are the two places
where the thread raises. `Collect` is what `collect_compile_database` does after
the join. The order in which the compile database lists the units is any order.
Fairness: each thread and each `FinishJob` weakly, and `Collect`; that is, the
operating system schedules threads, and Clang ends on every unit. The code has
no timeout, so without the second assumption the collection need not end. No
fairness is asked of `Die`. `JobPool` is the promise: each job given to one
worker once and settled once.

### `SourceCollection`

Collectors that share a cache directory. A digest stands for the contents it
was computed from, so a file that is put back has the digest it had. An artifact
is keyed by its unit and the contents of the main file (the collector and the
command are fixed), and holds the contents Clang saw; `meta` holds the digests
beside it. `Validate`, `Index`, `Digest`, `Publish`, `Load` and `Finish` are the
phases, each one unit per step, `Publish` its two renames; `End` is the end of a
collection or its death at any point. `Edit` saves a file, or puts it back;
`EditsAnyTime` says whether somebody does that while a collection runs.

A collection killed between its two renames leaves new records beside old
digests. When the sources are then put back to what those digests say, the
records are a hit, and an index of other sources is accepted: there the code is
exposed. Two auxiliary variables name exactly these units, and the properties
leave them out: `torn` are the identities left so, until they are described
again, and `returned` the units of which a torn one came to match the sources.

### `AnalysisCache`

`file` is the content of each input (both binaries as one, PDB, annotated
sources, source index; `None` is an index half written), `entries` the cache
directory, from a name to the key and the value stored under it. A value says
what it was made of, so that what a command uses can be held against what it
would make itself. Each load, each parse, each fingerprint and each store of a
command is a step, in the code's order: index, binaries, markers against
sources, fingerprint of the PDB, full parse or base parse and modules one by
one, fingerprint of all inputs, catalog, manifest, completed comparison,
engine. `Requests` are the kinds of commands: which modules the functions asked
for lie in, whether a full parse turns out to be needed after all, `--no-cache`,
a directory that cannot be written. `End` is a report, an error or a kill at
any step. `Change` is a build, an edit, or the start or end of a collection,
and may bring an earlier content back.

`raced` records that a file changed between two looks a command had at it. The
code fingerprints the PDB before it parses it, fingerprints the binaries after
everything else has been read, and puts their digest in the manifest before
Ghidra imports them; `CountsOn` names the steps in between. After such a change
the cache can hold an entry under the wrong fingerprint, and `ReusedIsOwn`
claims nothing from there on. Every other change goes on under running
commands: of the sources and the index at any step, of the PDB once it is
parsed, of the binaries before they are read, between the fingerprint and the
manifest, and after the engine.

### `CollectorBuild`

`source` is `indexer.cpp` with the LLVM version, `binary` and `stamp` the two
files in the cache, `lock` the holder of `indexer.lock`. A collector reads the
source, looks at the stamp, waits for the lock, looks again, compiles (the
compiler reads the source once more), installs and stamps. `End` can follow any
step and frees the lock, as the operating system does; `Edit` updates the
source or puts it back. `torn` records a kill between the two renames or an
edit under a build: if an earlier source comes back after that, its stamp is
still beside a binary of the later one, and `CollectorIsOwn` says nothing of
it. `wasted` records a compilation nobody lived to stamp.

### `InlineRetry`, `ComparisonResults`

`InlineRetry` follows one function that differs: the choice of the callees only
one of its bodies calls, the marks in the two programs inside their
transactions, the flush of the decompilers, two decompilations, the rollback;
each can raise. `stale` are the decompilers that would still answer with what
they made under a mark. `graph` is what the two programs are: who calls or jumps
to whom, which functions are small enough to be inlined. `Counts` is the code's
recursion over the calls of a body, as a function of the depth; `ForPair` the
selection, closed over tail jumps and over what each round of substitution
exposes, less what is on a cycle. `RetryIsSound` says when the inline pass may
overrule the ordinary one, and that nothing of it is left. Ghidra substitutes
marked functions at any depth (`Substituted`); the code looks `MaxInlineDepth`
deep, so the property holds it to that where no chain is longer (`Shallow`). `ComparisonResults` is the
comparison of the references of a pass, the pairing of contents without a name,
and the choice of the pass that is reported.

### The algorithms

Each of the other modules states one function of the code with its helpers over
records that keep what the function decides on, and one property of it. The
property is a second way to say what the result has to be, never the same
formula again: a result in another order of the same facts (`SourceDerivation`,
`LineTable`), for the same program laid out by another linker
(`DataReferences`), after a second preparation (`Prototypes`), from more of the
data (`PdbNodes`), or the ground truth that the input was built from
(`DerivedPairs`, `TableSlots`: an input is a program, its two layouts, and what
the catalog knows of it).

- `Annotations`: files of comments before each kind of code, as one or two
  translation units see them. A marker's spelling is a fact of the comment.
- `SourceDerivation`: units report facts, classes a layout or none; a layout is
  a value with a size. The winner's location of an external function that two
  units define in different places does depend on the order (`moved`).
- `LineTable`: the calls that fill it, in any order; a path is its components.
- `PdbNodes`: streams of symbol records, an address in one number. A name hint
  selects the modules of S_PROCREF records only, as the parser collects no
  other; that of a static function whose name a global shares is left out. The
  full read is one parser over all modules, a targeted one a parser per module.
- `TypeScalars`, `SourceLayout`: both end in the comparison of two buffers.
- `PeImage`: headers and tables are read already; a pointer is one byte.
- `DerivedPairs`, `TableSlots`: instructions and table words by address. `Same`
  says that two addresses of the two images stand for one thing; folding makes
  one address stand for two.
- `SharedNames`: the rendering of a name is injective (see section 4); the two
  images overlap, as programs linked at one base do.
- `DataReferences`: a function uses places of the program, in a register, by a
  mask, or through a loop's end. Where the address alone does not say which
  object is meant (`Unmistaken` is false), no claim is made. The two bounds on how
  much is read or searched (`_RAW_LIMIT`, `_BOUND_SEARCH`) exceed every object of
  the inputs and are left out.
- `Prototypes`, `ProgramListing`: what Ghidra infers of a function or reaches
  by flow is part of the input. Whether setting a return type locks a signature
  is checked both ways (`ReturnLocks`).
- `CallCensus`: `difflib`'s matching blocks are defined as the library does it.

## 3. The runs

| Run | Instance | Shows |
| --- | --- | --- |
| `catalog` | 3 addresses per image, 2 bases, batches of 2 pairs and 1 row | type, one-to-one pairs, equal copies, good aliases; pairs are final, identity only sharpens, refinement of `PairCatalog` |
| `commit_loops` | 3 addresses, 2 bases, batches of 3 pairs and no rows | the loops of commit agree with `Commit`; a pair is lost only to a collision |
| `matching_stages` | 4 addresses per image, 2 reference rounds, about 10,000 inputs | body markers decide, selectors do not fall back, pairs have their evidence, twins pair up, refinement of `PairCatalog`, the run ends |
| `name_order` | the same, names of functions only | *violation*: address order decides between two names of one body, see findings |
| `ghidra_project` | 2 builds, 3 keys (two catalogs of one build) | the stamp tells the truth, the original stays pristine and is analyzed once, what is compared is what was asked |
| `stale_names` | the same | *violation*: stale names survive, see findings |
| `indexer_workers` | 3 units, 3 threads | one worker per unit, only a raised thread loses one, no orphan process, the phase ends, refinement of `JobPool` |
| `lost_units` | 3 units, 2 threads | *violation*: a lost unit is not reported |
| `source_collection` | 2 units sharing a header, 2 collectors, 2 contents, 3 edits | a hit is of the present sources; an accepted index is current; both but for a unit torn by a kill and put back |
| `edited_while_indexing` | the same, edits at any time | *violation*: an accepted index is not current |
| `shared_files` | 2 processes, 2 contents; 3 commands with 2 changes of inputs, or collections with 2 edits | what a command reuses is what it would make; a collector is of the source that was read, and is built once |
| `rules` | the retry over an entry and two callees, one level deep; 21 sets of inputs, see below | a retry that overrules is sound and leaves nothing behind; every property of an algorithm |

Why the bounds are enough to meet the interesting cases. Three addresses per
image allow a pair, a pair that collides with it on one side, and an alias that
moves or is paired; three staged pairs allow a collision with a pair that was
itself rejected, and, over three addresses, a grouping by basis that changes the order
of the pairs (rows and aliases, which do not matter to it, are in `catalog`).
Two catalogs of one build and a second build are what it takes
to prune, restore and reset the same program in one history; runs are
unlimited. Three units and threads allow every thread to die with units queued.
The inputs of `matching_stages` vary one concern at a time (names of up to
three functions with markers, CSV rows, public names and `FOLDED` markers;
references three deep; imports; string texts; code): two addresses are enough
to compete for one, a third to be left over, and a chain of three references
exceeds two rounds. Within a concern the inputs are all combinations.
In `rules` the retry has every call graph of an entry and two callees in both
programs. The two can call each other, themselves and, the second, the entry, by
call or jump, so that there are cycles within the selection and through the
entry, chains longer than the bound, and callees only the second round exposes;
each of them may be too large to inline, and the entry may not be observed.
Two collectors, two contents and three edits allow each order of renames over two
contents of a header, with a kill in between, and contents that come back before
and after it. The theorems hold without the bounds.

In `shared_files` two processes are what it takes for one to fill the cache, or
hold the lock, while the other looks; three starts give a third command what
the two have left; two contents let an earlier one come back; two modules let a
command want one, the other or both. The end of a collection is not counted as a
change, so that an index can be collected anew under a running command. The
four requests are the whole target, one module, both modules in a directory
that cannot be written, and one that turns out to need the full parse; a
command with `--no-cache` neither loads nor stores, and is in the module and
its theorem but not in the instance.

`catalog` uses the symmetry of addresses and of bases, `ghidra_project` that of
the two catalogs of one build, `source_collection` that of the collectors and of
the contents, `shared_files` that of the processes and of the contents; none of those runs
has a liveness property. `indexer_workers` and `rules` use none. Deadlock is
checked except for `indexer_workers` and `matching_stages`, where the end of
the collection and the seal end the behaviour, `shared_files`, where starts and
changes are bounded, and `rules`, where the retry ends and an input is a state
of its own.

### The inputs of `rules`

`of` names the part, `input` is one of its inputs (the retry chooses its own in
`Init`), and each property of the run is a conjunction over the parts it is
about. All combinations of the values
named in the `MC…` module of a part are checked.

| Part | Module | Inputs | Property |
| --- | --- | --- | --- |
| retry | `InlineRetry` | 393,216 initial states: all call graphs of an entry and two callees, up to their jumps, sizes and outcomes | `RetryIsSound` |
| results | `ComparisonResults` | 65,536: pairs of up to two references a side | `ReportsAreTrue` |
| census | `CallCensus` | 10,440: bodies of up to three calls | `ReportsAreTrue` |
| data | `DataReferences` | 53,460: layouts of seven things in three orders, with and without gaps, five typings | `ReportsAreTrue` |
| names | `SharedNames` | 87,480: two pairs, two or three things alone, bodies alike or not, in programs one address apart | `ReportsAreTrue` |
| marks | `Annotations` | 19,008: up to three comments before each kind of code, one or two sightings | `MarkersAreAnswered` |
| lines | `LineTable` | 17,280: six calls in every order | `MarkersAreAnswered` |
| facts, tables | `SourceDerivation` | 42,336 and 3,375: three units, three vtable markers | `FactsAreAgreed` |
| bytes, types | `SourceLayout`, `TypeScalars` | 3,016 and 3,504: nested classes, arrays, unions, padding | `EveryByteOnce` |
| image | `PeImage` | 7,776: two or three sections shorter or longer in the file | `EveryByteOnce` |
| pdb | `PdbNodes` | 9,720: three modules with nested blocks | `TargetedTellsAll` |
| named, statics, handlers, vtables, callees | `DerivedPairs` | 63,504, 5,184, 21,600, 79,104 and 16,224: programs of two or three functions, folded or not | `DerivedPairsAreTrue` |
| slots | `TableSlots` | 172,800: tables of two or three slots | `DerivedPairsAreTrue` |
| prototypes | `Prototypes` | 40,320: a pair of every source and convention, with symbol, review and use | `PreparedAlike` |
| functions, listing | `ProgramListing` | 6,912 and 384: three entries, absorbed, split or missing | `PreparedAlike` |

## 4. Findings

- **Stale names** (`stale_names`). `prune_programs` forgets the prepared folder.
  A build that was prepared, pruned by a run of another build that stored no
  preparation itself (`--no-cache`, an unrecovered switch table, a stop), and
  then restored from the prepared folder has no pristine copy, so the next reset
  takes the named program for the analyzed one.
  `docs/code-comparison.md:185` promises that a changed annotation "never leaves
  stale names behind". The original never suffers this: `OriginalStaysPristine`.
- **Lost units** (`lost_units`). An exception in a worker thread loses its unit,
  against the docstring at `source/batch.py:297`. `LostOnlyByRaise` shows that
  nothing else does.
- **An index older than its sources** (`edited_while_indexing`). Digests are
  taken after Clang has read the files, so an index can be older than the
  sources and accepted, against `docs/source-index.md:49`.
  `AcceptedIndexIsCurrent` holds when the sources are left alone meanwhile.

- **Names decided by address order** (`name_order`). `match_functions` counts the
  bearers of each name, but a recompiled function may have several public names:
  two originals with different names that are both names of one body are each
  unique, both pairs are staged, and the lower address wins, against
  `tests/test_match_msvc.py:256` ("never an address-order identity").
  `match_annotation_selectors` counts proposals per body for this reason.

### Divergences and limits no run states

Met while modelling; the models follow the code, and where a property would not
hold its statement says so (the name is in brackets).

Order and precedence:

- `docs/csv.md:5` says that CSV metadata overwrites annotations on the same
  address, while `Compare.run` loads the CSV rows first and the markers
  overwrite them, as the comment at `compare/core.py:206` intends.
- `compare_references` takes the first consistent partner of a content, so that
  it can report a finding although another pairing leaves none (`Unambiguous`).
- The winner's location of an external function that two units define in
  different places is that of the unit collected first (`moved`).
- Unwind actions that the original's linker folded across functions are paired
  with the first function that comes.
- Inferred tables pair by canonical slots: that of one base may be paired with
  that of another base of the class. Only slot-wise truth is claimed.
- `functions_by_address` (`source/index.py:434`) raises for a folded, a folded
  and an unfolded body in this order, though its docstring prefers an unfolded.

Silence:

- A NAME comment followed by code is dropped without an alert, and the linter
  exempts STRING markers that `prune_reused_addrs` drops.
- `parser.py` collects S_PROCREF records and no S_LPROCREF, so the name hint of
  a static function whose name a global shares selects the global's module only.
- A substitution chain longer than `_MAX_INLINE_DEPTH` may count as resolved
  though the bodies call different functions (`Shallow` excludes it).
- `difflib` matching is no longest common subsequence: the call census is sound
  in what it names, and may name too much.
- `_slot_status` compares an alias with the original's slot before its jumps
  are resolved, and an original table that is longer, of unknown size, is not
  seen.

Addresses:

- An access through a register that starts where a paired array ends is named
  as the array's end although it means the next object (`Unmistaken`); a loop
  bound followed by a function or an import slot is dropped.
- A superclass's members keep the offsets they have in the superclass
  (`cvdump/types.py:_get_field_list`), and a class whose first byte belongs to
  no scalar makes `struct.unpack` raise.
- `Image.relocations` raises for a table that fills its section's raw data
  without an empty block at its end, and `_relocated_addrs` for an address
  outside all sections.
- A name that is not unique is qualified with the address in its own image
  (`names.py:57`), "so it cannot suggest a correspondence": an unpaired thing of
  the recompiled program is still shown under the name of a pair if both have
  one source name and it lies at the pair's original address. `NamesCorrespond`
  allows this one case, and the theorem says that it is the only one.
  `replaceInvalidChars` can merge two names; `SharedNames` assumes it does not.

Preparation:

- `correct_recompiled_signatures` takes the index of missing parameters before
  it changes the convention, so that a function inferred as `__thiscall` with a
  cdecl symbol keeps one parameter unchecked.
- Of a function both of whose separated parts were absorbed, the second part
  may end in no function; a known entry inside an absorbed piece is reported as
  a conflict.
- `apply_reviewed_scalar_returns` may lock a signature as the user's; retail
  signatures are taken before it, and have to be.
- A literal that overlaps code keeps Ghidra's type.

Files:

- The binaries are read first and fingerprinted last
  (`target_analysis.py:270`): one rebuilt in between enters the cache under the
  wrong fingerprint; so does a PDB rebuilt between its fingerprint and its
  parse, and a comparison whose binaries change between their digest and the
  import (`raced`). A binary rebuilt between the catalog and the manifest is
  compared by the catalog of the former build. A fingerprint of the tool itself
  (`_CVDUMP_CACHE_INPUTS`) omits `type_leaves.py`, `cvinfo.py` and
  `demangler.py`.
- A collector killed between its two renames (`batch.py:148`), and its source
  then put back, runs a binary of the other source (`torn`).
- A collection killed between its two renames (`batch.py:449`), and the sources
  of the unit then put back to what the old digests say, leaves a hit on the
  records of other sources, and an index of them is accepted (`returned`).

## 5. What is proved

### The entity catalog (`EntityDbProofs`)

For any finite or infinite sets of addresses and bases, any batch bounds, and
assuming only `CatalogAssumption`:

- `TypeCorrect`, `PairsAreOneToOne`, `CopiesAlwaysAgree`, `AliasesStayGood`: the
  invariants of the run `catalog`;
- `PairsNeverChange`, `IdentitySharpens`: its action properties;
- `CommitIsItsLoops`, `CommitLosesOnlyToCollision`: those of the run `commit_loops`;
- `CatalogImplementsPairCatalog`: the refinement.

The inductive invariant is the conjunction of the four invariants. None is
inductive without the others: `set_alias` finds its target through the joined
view, so good aliases need `CopiesAgree`; a pair is accepted when neither end is
in a match map, so equal views need the maps to be each other's inverse; and an
alias stays good because the pair it names is never undone.

The argument goes through one notion, `Installable`: a set of pairs unpaired on
both sides and disjoint. `KeptIsInstallable` and `AcceptedIsInstallable` show
that whatever a commit or a direct match hands to `Install` is of that kind,
without following the order of its loops, and the lemmas `Install…` show that
installing such a set keeps each part of the invariant. The refinement maps
the pairs to the graph of the match map and the aliases to edges; what is left
is that installation adds exactly those pairs and takes away exactly the edges
of what it paired.

`CommitIsItsLoops` follows the order of the loops. `LoopRuns` shows that a loop
whose body stays within a set of accumulators has a value after every turn, and
`EveryTurn` that what passes from each turn to the next holds of them all (a
least turn without it, `WFMin`, would be a contradiction). With them: the
reduction retains exactly the pairs `KeepsFirst` indexes (`FinalizedKeepsFirst`);
every retained pair is in the group of its basis, and the basis in the order
(`ByBasisGroups`); and one turn of `bulk_match` makes of the catalog with the
fresh ones of some pairs installed the catalog with one pair more
(`MatchOneInstalls`), so that only the set of pairs counts and not the order of
the groups. A pair that collides with one before it, or with the catalog, is
what is left over: `CommitLosesOnlyToCollision`.

### The matching stages (`MatchingStagesProofs`)

For any addresses, any number of rounds and any inputs that are `GivenOK`,
under `CatalogAssumption` and `StagesAssumption` (addresses are finitely many
numbers, since stages go by their order):

- `StagesAreTyped`, `BodyMarkersWin`, `TwinsArePaired`: the invariants of the run
  `matching_stages`;
- `SelectorsStandAlone`, `PairsAreEvident`: its action properties;
- `StagesAreOneCatalog`: the refinement of `PairCatalog`;
- `StagesKeepCatalog`, `StagesKeepPairs`, `StagesSharpenIdentity`: what is true of
  `EntityDb` by itself, of the run of all stages.

The invariant is that of the catalog with no batch open, with the
inputs and facts typed (`Core`), and with the place of the run (`StageOK`), the
entry point as the only pair before the markers (`OnlyEntryPaired`),
`BodyMarkersDecide`, and for the twins `TwinsNest`: while rounds go on, a twin
left over hangs on a chain of as many references as there were rounds.

Each step is brought to one of four kinds (`StageSteps`): it commits rows and
pairs, records an alias, writes nothing, or seals. What a commit does is said
once (`BatchWrites`), from the list alone: every pair installed is on the list
and was fresh, and a fresh pair of the list that collides with no other on it is
installed. Hence the catalog's invariant and the refinement, with the
lemmas of `EntityDbProofs`; the other properties ask of a stage only which
pairs it lists.

- `BodyMarkersDecide` needs that nothing but an entry point is paired when the
  markers are read, that a pair listed for an address which nothing else on the
  list claims is installed, and that pairs are final.
- `PairsHaveEvidence` compares, stage by stage, what is listed with the facts
  after the commit; the rows of a commit do not touch the facts its own pairs
  were listed for.
- `SelectorsDoNotFallBack` is that every stage after the selectors that pairs on
  an annotation asks for no selector, or for another type.
- `TwinsPairUp`: `InTurn` gives equal ranks to the twins under one key, so one
  side of each key is used up in a round (`TwinsAre`), and a twin that is left
  after a round refers to an entity which that round paired
  (`RoundPairsParents`); that one was a twin the round before. So each round
  lengthens the chain below a leftover twin by one reference, and the rounds end
  early only when one pairs nothing. Stages after the rounds pair nothing but
  strings (`LateStepKeepsTwins`).

Ranks are the cardinality of the addresses before one, which is why the set of
addresses is finite; `RankFacts` is proved from `FiniteSetTheorems` without
induction over lists.

### Collections of the source index (`SourceCollectionProofs`)

For any units, files, include relation, collectors, contents and number of edits,
assuming `CollectionAssumption` and that nobody edits while a collection runs
(`~EditsAnyTime`; without it `edited_while_indexing` is the counterexample):

- `TypeCorrect`, `CacheIsSound`, `AcceptedIsCurrent`: the three invariants of the
  run `source_collection`, the last two but for the units in `returned`.

`AcceptedIndexIsCurrent` speaks of the end of a collection. The invariant `Inv`
adds what each phase knows: which hits are current, which outputs and records
are, and what is being published. That a hit is current (`HitIsSeen`) is kept by
an edit because digests are of the records beside them, unless somebody is just
between the two renames, which an edit finds nobody in, or a kill left them so
(`DigestsAreKnown`): digests that the edit makes match are then of records that
match too, or the identity is torn and its unit is now `returned`
(`EditKeepsCache`). A hit stays current while a collection relies on it because
the others can only rename what is seen now over it (`PublishInstallsSeen`,
`OthersStep`), and because an edit finds every collector idle or done
(`EditKeepsCollectors`).

### The Ghidra project (`GhidraProjectProofs`)

For any builds and preparation keys, assuming `ProjectAssumption`:

- `TypeCorrect`, `StampIsTrue`, `PristineOriginal`, `ComparesAsked`: the
  invariants of the run `ghidra_project`; `AnalyzedOnce`: its action property.

`Stop` can follow every step, so the invariant has a part about what is on disk
at any time (`FolderInv`, `OrigInv`, `PreparedInv`) and a part about what a run
has achieved at each of its steps (`RunInv`). The original gets a mark only
after its pristine copy exists, which is what keeps that copy clean; a stamp is
unlinked before the prepared folder is touched and written after the last copy,
which is what makes it true; and a loop is done when `todo` is empty, which the
parts of `RunInv` follow program by program. The run of section 4 that finds
stale names shows why nothing of the kind holds of a recompiled build's
pristine copy, and `RunInv` claims nothing of it.

### The worker pool (`IndexerWorkersProofs`)

For any units and threads, assuming `WorkersAssumption`:

- `TypeCorrect`, `OnlyRaiseLoses`, `NoneOutlives`: the invariants of the run
  `indexer_workers`;
- `ImplementsPool`: the refinement of `JobPool`.

A thread's place tells what its process can be doing (`PlaceInv`); a unit is in
the queue, in one hand, failed or built, and in one of them only (`OnceInv`);
until the collection has looked none is nowhere (`KnownInv`). The refinement
reads the abstract status off these places; a step of a process is a stutter.

### The analysis cache (`AnalysisCacheProofs`)

For any commands, requests, modules and contents, under `CacheAssumption`:

- `ReuseIsSound`: the invariant `ReusedIsOwn` of `AnalysisCache`, checked in the
  run `shared_files`.

An entry is what its key says (`Truthful`), and a command has read, by the step
it is at, what its fingerprints say (`HasRead`); where it will look at a file
again, the file is still what it was (`StillSo`). All of it holds until a file
changes between two looks at it. No change makes an entry false, since an entry
speaks of its key alone.
Modules are read in the order of their numbers, so that the ones left are those
not in the parse yet.

### Builds and caches together (`SharedFilesProofs`)

For any processes, commands, sources and contents and any numbers of edits,
changes and starts, of the very specification the run `shared_files` checks, in
which collections that build their collector run beside commands that use the
cache (the two modules and the four requests are those of the instance; the
theorem of the cache by itself is without them):

- `CacheIsOwn`, `OneBuild`, `CollectsWithItsOwn`: the three properties of the
  run; `BuildInvariance`: the invariant of builds.

A step of the whole is a step of one part and leaves the other's files alone.
Of the build: the lock keeps all but one from the two files (`LockInv`). As long
as the stamp may tell, whoever is at work saw the source there is (`SeenInv`), a
settled stamp names what its binary was made from (`StampInv`), and once one has
compiled, either it still holds the lock or the stamp is there for who looks
again (`BuildInv`).

### The inline retry (`RulesProofs`)

For any finite set of paired functions, any calls and jumps between them and any
depth, under `RetryAssumption`:

- `RetrySound`: the invariant `RetryIsSound` of the run `rules`;
- `Invariance`: the inductive invariant `RetryInv`, which says which marks each
  step of a retry finds (`Stage`), under which marks each text was made
  (`Decompiled`), and that what is substituted has no cycle (`Choice`).

The rest is about the recursions of the code. `EveryRound` (what passes from
each round to the next holds of all rounds, again by a least one without it)
and `RoundsExist` give every recursion its value. `Closure`, which the code
computes with a worklist, is the least set that is closed
(`ClosureIsClosed`: as many rounds as functions are enough, because each but the
last adds one; `ClosureIsLeast`). Hence a selection without its cyclic members
has no cycles (`ForPairIsAcyclic`, `ReachesLess`). `CountsAre` unfolds the
recursion over the depth; two depths give the same counts where the selected
callees of a body have the same at one less (`Below`). So the counts no longer
depend on the depth once it exceeds the number of functions, when there is no
cycle (`AcyclicEnds`: the set reached from a callee is smaller than the one
reached from its caller), or once it exceeds the longest chain below the entry
(`ShallowEnds`); and what the code compares at its bound is what Ghidra
substitutes (`BoundIsNotFelt`).

### Names and addresses (`RulesProofs`)

Two parts of the rules are proved for inputs of any size:

- `NamesTell`: `NamesCorrespond` for every manifest and every set of small
  functions that is `WellFormed`. That is what `build_manifest` and Ghidra make
  of the catalog: finitely many pairs, an address in one of them at most, an
  alias, an unpaired thing and a pair at different addresses, no Ghidra function
  at paired data, and nothing in the source called `ICF`.
- `ImageTells`: `ImageHolds` for any sections, relocations and addresses, if the
  image is `Loadable`: numbers where the format has numbers, and no raw data in a
  section flagged as uninitialized. Linkers write such a section without raw
  data; the code does not check it, and would read a file's bytes at an address
  that it counts as uninitialized. `NoneIsNothing` says that Python's `None` is
  neither a tuple nor bytes.

Both are conjuncts of properties of the run `rules` (`ReportsAreTrue`,
`EveryByteOnce`), which also checks that its inputs are `WellFormed` and
`Loadable`.

A name comes from one of three places: from a pair the address stands for, from
the unpaired thing at it, or from its bytes (`ShownComesFrom`). Names of pairs
are injective (`CanonicalIsInjective`), an unpaired thing has one of them only
at that pair's original address (`UnpairedHasItsOwn`), and what is called after
its bytes has them in both programs (`BytesInBoth`). That a pair has one name in
both needs that both its sides are renamed or neither is (`PairIsRenamedAlike`).

Of the image: sections that do not overlap leave one section and offset for an
address (`PlaceIs`), and all reads are the same function of that offset
(`ByteAt`, `ReadIs`). Reading in parts is then arithmetic on offsets
(`PartsAreTheWhole`), and text ends before its terminator because the least
terminator is taken (`UntilIs`, `TextsEnd`).

### What is left to the model checker

Liveness under fairness (`Ends`, `RunEnds`) and `ENABLED`. The properties of
`rules` but for `RetryIsSound` and the parts `names` and `image`: each is about
what an algorithm computes from sequences and sets, most by a fold of the
community modules or a recursive function. No induction theorem of the library
can be used (they take an operator as parameter); the way round it that
`EntityDbProofs` and `RulesProofs` take, the set of turns for which something
holds and a least turn outside it, has not been taken for them. `CallCensus` and
`TableSlots` have `RECURSIVE` operators, of which the prover says nothing.

## 6. What is not modelled, and why

- Section ranges and most queries of the catalog: no pairing decision of the
  modelled stages reads them.
- Floats, CRT records, the retyping of zero-size rows, sizes and display names:
  matching stages whose results no other stage reads. The warnings and checks
  of `verify.py` change nothing.
- What the engine reports of an entry that failed (`engine.py:624`): the
  function is reported as failed either way, with another reason.
- How often a unit is named in the compile database: two entries with one
  command and main file share an identity. The models give each unit its own
  main file.
- The digest cache file, and the pointer files (they only choose the wording of
  a reason).
- Clang, Ghidra, cvdump, difflib: their calls are modelled by what this code
  relies on, and named external in the map.
- The Ghidra importer (`ghidra/`): a pass over the catalog whose every effect is
  a call of Ghidra's API. Its recursive type import is the part that could be
  checked.
- The tables a format is read from: PE directories, imports, exports, NE and
  other headers, `cvinfo.py` but for its entry of a pointer, cvdump's text
  and demangled names are parsed once into records, and the models start from
  the records.
- Instruction analysis (`analysis/`): patterns on bytes, one function each.
- Project files (`project/`): YAML read once per command.
- Reports (`tools/`) and their formats.

## 7. The plan

What is left, in this order:

1. The manifest (`compare/manifest.py`): selection and aliases, between the
   sealed catalog and the Ghidra side.
2. The type import of the Ghidra importer against the PDB's forward references.
3. Project detection, and imports and exports of PE images, over bounded inputs.

Runs stay at the size of the ones above, a few minutes at most.
