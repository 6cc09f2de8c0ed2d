# FerrumCFD in TLA+

FerrumCFD is a finite-volume solver for steady laminar flow, written in Rust. This directory holds
TLA+ models of the parts of it whose difficulty is control and not arithmetic: threads and
channels, buffers that outlive the solve they were filled for, values that may be taken once,
iterations that must leave a consistent report whatever ends them, meshes that are renumbered and
split into files, command lines that are read three times. The models are checked with TLC on small
instances; all their invariants and their safety refinements are proved with TLAPS for every value of the
constants.

Numbers in the code are mostly floating-point. A model keeps of a number what the control tells
apart (is it finite, is it below a limit, which iteration or which matrix is it from) and chooses
it freely, so a property that holds here holds whatever the arithmetic yields.

Paths below are relative to the repository; `flow.rs`, `linear.rs` and so on are the files of
`src/ferrumMesh/src/`.

## The system

Before a run a mesh is imported and may be split into regions, by two commands of their own. A run
goes through the parts in this order: the command line reads its arguments and a case, reads its dictionaries
and mesh, reads the initial fields, plans which buffers a solver needs, moves the fields into a
runtime, runs the SIMPLE loop, and writes fields and reports. All of it runs on one thread, except
for the momentum predictor, which solves its three components on three worker threads.

| Part | State it keeps | Operations | What is hard in it | What makes it correct |
|---|---|---|---|---|
| Momentum executor (`flow.rs` 2119-2480) | three threads, a command channel each, one shared result channel | `new`, `solve`, `shutdown`, `drop` | interleaving; a panicking worker; a thread that cannot be started; early returns | each answer is the serial one; every thread is joined; no call leaves work behind |
| SIMPLE loop (`flow.rs` 1017-1900) | fields, flux, residuals, totals, history | one iteration: predictor, flux, pressure solves, correction | four places to reject an iteration; values carried in separate variables | the report is that of the last accepted iteration |
| Field files (`fields.rs`, `dictionary.rs`) | a stream of tokens with its open delimiters, what was read so far | read a file, refuse it | one token of lookahead; three ways to skip what is unknown; lengths that are announced | a file is read as it is written, or refused |
| Initial field ownership (`fields.rs`, `solver_state.rs`, `runtime.rs`, `flow.rs` 6172-6300) | field set, plan, runtime, one region mesh at a time | read, plan, build, solve | a plan that is older than the fields; a failure half way; a second solve | payloads have one owner, are moved all or not at all, and never come back |
| Multigrid workspace (`linear/gamg.rs` 962-2470) | levels, coefficients, work vectors, directions | `new`, three `solve` variants | nothing is cleared between solves; failures inside cycles; rebuild policy | a solve reads only its own data; the report says what happened |
| Multigrid agglomeration (`linear/gamg.rs` 1008-1100, 2474-2850) | a map of cells to aggregates per level | one build | greedy order, ties, cells left over, two copies of the graph | every cell in one connected aggregate; both copies agree |
| Scalar linear solve (`flow.rs` 2960-3380, `linear.rs`) | preconditioner of the PCG workspace | one solve by one of seven kernels | two norms, two tests, drift, breakdown, stale factors | `converged` is true of the returned solution |
| Operators of the flow solver, gradients, geometry, matrices, wall forces, continuity | none | assembly and sums | rounding | outside of these models |
| Safe output (`safe_output.rs`) | the file system | create, create new, replace, make directories | several processes, crashes between two calls, roll-back | what is given out stays; only own directories are removed |
| Mesh topology (`foam.rs` 74-449) | faces found so far | one import, file by file | faces are found from one cell and met from another; two numberings; a write that fails or is cut short | each face once, owner first, patches cover the boundary, labels of zones are those written |
| Region split (`regions.rs`, `poly_mesh.rs`) | faces, patches and files of one region | read, check, one pass per zone, seven files | cells and faces have local numbers; a face may be reversed; regions follow each other in one process | every face of its cells once; both sides of an interface agree; what is on disk reads back |
| Interfaces (`regions.rs`, `interfaces.rs`) | counts per face zone and pair of regions | register, look up | a direction that depends on names, on owners and on flips | the registry says what the split wrote |
| Dictionary parser (`dictionary.rs`) | cursor, nesting, budgets | one parse | a stream and a cursor over a batch, first error kept, limits | both skip the same; no entry of a failed batch remains |
| Run plan, backends (`control.rs`, `solver_plan.rs`, `backends.rs`) | time entries, policy, plan | one resolution | counts in closed form; entries of which the last counts | the counts are those of the steps |
| Runner (`runner.rs`) | step, events | a dry run | it decides by itself when a write is due; a cap on events | it does what the plan counted |
| Command line (`applications/legacy/ferrumCli`, `applications/solvers/ferrumRun`) | arguments, settings, limits, outputs | one run | three passes over the arguments; three sources of a value; a failure between two outputs; outputs that collide | no argument is dropped; limits hold; no output is lost to another |
| Case input (`case_input.rs`) | none | bounded reads | files that grow while they are read | the limit holds of what was read |
| Formats and lookups (`poly_mesh.rs`, `gmsh.rs`, `properties.rs`, `numerics.rs`, `control.rs`, `patches.rs`, `check.rs`) | none | parse, print, look up | grammar | outside of these models |

The parts meet as follows. The SIMPLE loop owns the executor and calls it once per iteration
(`MomentumPredictor` is that interface). The loop's pressure equations, and each worker's
component, are scalar solves; a scalar solve owns a PCG preconditioner and a multigrid workspace
that survive it, and judges what either says about itself. The multigrid workspace is built by the
agglomeration. The runtime hands the loop its two fields once. Import, split and run meet on the
disk: each finds the files that the one before has left, whole or not.

`PROJECT.json` lists every part with its sources, and the hazards of the code at the lines where
they bite, each with the properties that would catch it. Hazards without a property say why.

## Modules

| Module | What it is |
|---|---|
| `MomentumPredictor` | abstract: a serial predictor that answers every call |
| `MomentumExecutor` | the executor, its channels and its workers, refining it |
| `MomentumExecutorProofs` | safety and the safety part of the refinement |
| `SimpleLoop` | the SIMPLE iteration and its report |
| `SimpleLoopProofs` | its safety |
| `FieldOneShot` | abstract: payloads are moved all or not at all, and used once |
| `FieldOwnership` | plan, build and solve over a set of fields, refining it |
| `Dictionary` | tokens, the delimiters that are open, and how a cursor over a batch skips an entry |
| `FieldFile` | the reader of a field file over a stream of tokens |
| `FieldGrammar` | what a field file says, by matching delimiters and not from left to right |
| `FieldProgress` | where its reader is in that grammar: the inductive invariant of `ReadAsWritten` |
| `FieldLoading` | a field file and what becomes of its values, composing `FieldFile` and `FieldOwnership` |
| `FieldLoadingProofs` | that every file is read as what it says, and both ways to skip agree on it; the safety of `FieldOwnership` and its refinement; that loading takes its steps |
| `GamgWorkspace` | a reused multigrid workspace over a sequence of solves |
| `GamgPairing` | the build of the multigrid levels |
| `GamgProofs` | the safety of both, and the rebuild policy of the workspace |
| `ScalarSolve` | one scalar solve with every kernel, over several solves |
| `ScalarSolveProofs` | its safety |
| `SafeOutput` | several processes that open one output file |
| `SafeOutputProofs` | its safety |
| `FoamFile` | what a reader sees of a file that was written, whole or in part |
| `MeshTopology` | the import of a list of cells: faces, order, zones, files |
| `RegionSplit` | the split of a mesh into regions |
| `InterfaceRegistry` | the registry of interfaces, over the mesh that is split |
| `MeshPipeline` | an import followed by splits, composing the four above |
| `MeshPipelineProofs` | the safety of splits, what is on the disk after them, the registry; that a whole import is the mesh it was given; that the splits of a pipeline are those of `RegionSplit` |
| `SolverArguments` | the command line: the look at it, the parser, the checks at its end |
| `SolverOptions` | how settings, dictionaries and defaults become the options of a solve |
| `RunPlan` | the plan of a case and its dry run |
| `CaseRun` | one run from its arguments to its last file, composing the three above |
| `CaseRunProofs` | the safety of `CaseRun` and of the three |
| `MC...` | the instances for TLC |

### MomentumExecutor

One action is what a thread does between two operations on a channel or a join handle. The main
thread's `pc` and `turn` are the loop it is in and the component the loop is at. `command[c]` is a
channel of capacity one, `results` the shared FIFO. `Listening(c)` is whether the receiver of the
command channel still exists: a worker that panicked reports first and drops its receiver after
that (`unwinding`, then `exiting`), so a send to it may succeed or fail. The verdict of each
component (report, error, panic) is chosen when the call starts, so that the answer can be compared
with what a serial solve of the same equation answers. `round` numbers the calls; jobs and outcomes
carry it, which the code has no need to, so that a stale result would be visible.

`Call` is guarded by `reply.status # "failed"`: the loop returns on the first error, which drops
the executor. `Close` is both `shutdown` and `drop`. `SpawnFails` is the error path of `new`.

### SimpleLoop

A field or a diagnostic is the number of the iteration that produced it, a residual is the
iteration and the pressure solve it is from. `options` are those that steer the loop: the largest
and smallest number of iterations, the correctors and whether the scheme makes them count, and
which criteria are configured. Each rejection is an action that copies `Reject` and what else the
code does at that place, and nothing more: that they differ is the point of the module. `Fails`
stands for every `?` of the loop: the caller gets an error and no report. The predictor, the
operators and the linear solves are inputs.

### FieldOwnership

Nothing is there before `Receive`, which makes a field set. A field has a region (the base mesh or
another), a name and a kind of `internalField`: one value, a list as long as its mesh, a list that
is not, or nothing that can be used. `source` are the fields whose list is still in
the `InitialFieldSet`, `plan` what `build_solver_state_plan` recorded, `draft` the buffers of a
running build, `runtime` those the caller holds. The plan loop keeps the mesh of one region;
`DropMesh`, `ReadMesh` and `PlanField` are its three steps. A build describes all buffers, checks
the table of transfers and then moves one list after the other; the moves cannot fail, and the
model says so by giving them no failure. Calls come in any order and number. The names of two
fields may be equal: the code reads them from files and does not compare them.

### Dictionary, FieldFile, FieldGrammar, FieldLoading

A file is a sequence of tokens. A token is its text; words that no routine asks for are one word,
and `fault` is the place where the lexer fails, whatever for: a byte, a comment, a directive, a read
or a file that is not as long as it was. How bytes become tokens is left out. What
`checked_remaining_bytes` finds is that of the shortest file with these tokens, one byte for each
and one between two that the lexer would join (`Apart`); if the count of a list passes there it
passes in every longer one.

`goals` is the stack of calls: what the routines that are running have still to read. An action
takes one token for the first goal, `Usable` says which tokens it can use, and `Refuse` is the
first error, which every caller passes on. `open` are the delimiters of the lexer, `local` those a
routine keeps for itself. `found` and `patches` are the entries read, each as the place and the
kind of its value; of a list also how many numbers were kept, which only the full policy does. The
limit on the bytes of joined values is left out.

`FieldGrammar` says the same of a file as a whole: which delimiters match, where entries end, what
an entry has to be, and that the last of several with one key counts. `SkipExact` and `SkipLine` are
the routines of the cursor that the other dictionaries of a case are read with; the reader skips
token by token, and `SkipsAgree` compares the two.

In `FieldLoading` the reading is followed by `Receive`: one field of the set is that of the file
(`Fits`), the set is sorted, and its lists are kept or not as the policy says. The other files of
the directory are read the same way and not followed; a file that is refused leaves the caller
without a set. A caller may also make a set of fields itself, in any order.

### GamgWorkspace

A work vector is in a set (`sources`, `corrections`, `residuals`) when the running V-cycle has
computed it, at that level, from vectors that were in their sets themselves; when a cycle begins
the sets are empty although the arrays keep their numbers. `sound` collects whether all that
entered the solution was so computed. These sets are history variables: nothing in the code
corresponds to them, and no action is guarded by them. `values[l]` is the version of the matrix the
coefficients of level `l` were agglomerated from; 0 in `diagonals` is a diagonal refreshed half
way. `fcg` is what the flexible outer iteration keeps: its residual, its previous direction and
whether the two are lent to a V-cycle (`mem::take`), which an error inside must undo.

The number of levels is fixed although a rebuild may change it: a rebuild replaces the workspace as
a whole. The factor of the coarsest solve is made anew by each solve and so left out, as are the
profiling counters. An uncached workspace is rebuilt only after a solve that succeeded
(`has_solved`): after a rebuild and a failed solve the agglomeration may be that of the failed
solve's matrix, which is why `AgglomerationPolicy` speaks of calls after a success. With
`nPreSweeps 0` and a positive multiplier the code drops the pre-smoothing of the levels from the
second on; `docs/solver-roadmap.md` (line 1136) keeps it so for now, and `PreSmoothingKept` is
about a positive base.

### GamgPairing

`BuildInit` takes any input: the edges with their weights and the couplings of the matrix. `Match`,
`Join`, `Leave` and `Skip` are the branches of the first loop of `pair_map_from_edges`, `Single` of
the second, `EndRest` the renumbering of a backward pass, `Coarsen` and `Stop` the end of a turn of
the level loop. Ties are broken as in the code; edges that tie in everything have the same ends,
and which of them is taken makes no difference. The weight of a coarse connection is a sum in both
copies of the graph, taken of sizes for mesh faces and of signed coefficients for the matrix, which
may cancel: a zero weight fails the build, as in the code. The matrix is symmetric, which the
workspace checks before. What can fail while coarse coefficients are summed, and the diagonals, are
left out. `matched` is a history variable: the cells that were paired, not joined.

### ScalarSolve

A residual is its L1 norm in units of the normalisation factor and its L2 norm; `Norms` are the
pairs that a vector of `Spread * Spread` components can have. Arithmetic is exact: the code's step
to the next smaller number below the L2 limit is the strict comparison of `MeetsL2`. A Krylov
kernel's residual is that of a recurrence: `drifted` says that it has left the residual of its
solution, which is then chosen again at `Recheck`. `updates` counts the updates of the solution,
`residualOf` the solution the kernel's residual belongs to; `factors` is the matrix the
preconditioner was made from. A failed solve leaves the workspace as it was at the failure. The
multigrid kernel is abstracted to what `GamgWorkspace` reports; an exact zero it reports before the
first iteration is found earlier by the caller (`EarlyReason`), so that branch of `Recheck` is kept
and never taken.

### SafeOutput

The file system is `linked` and `named`, the directories and files that have their name, `up` and
`place`, where each was made. A directory or a file is named by its maker, so that the model can
tell who loses what; the code names both by their path alone. An action is one call to the file
system, and any call may fail. `created` are the handles of the roll-back, one parent for each
directory made. Creation below a root and `ensure_dir` make directories in the same way but keep no
roll-back; `replace` is `ensure_dir` followed by `open_replace_regular`, as the region split uses
them. In a directory that has been removed nothing can be made, while its handle stays open
(POSIX). `Kill` ends a process between two calls. Links, special files and the checks of names are
not modelled. `remove_dir` fails only for a directory that is not empty; for any other failure
`NoLitter` makes no claim. It also names what the roll-back leaves: an absolute creation that fails
after the file was made (line 162) keeps the file and so its directories, and of two processes that
both fail the one that made the outer directory may leave it behind, if the other's was still in it.

### FoamFile, MeshTopology, RegionSplit, InterfaceRegistry, MeshPipeline

A file is unreadable or has data. `Torn` is what may be left when its end is lost: a list says how
many entries it has, so that a cut one is refused, but of `boundary` and the zones the number is not
compared and the end of the file ends them. The writers drop their buffered writer, so an error
while the rest is written goes unseen: `LoseEnd` and `LoseEndOfCaseFile` are that,
`WriteFails` and `CaseFileFails` an error that is seen or the end of the process. `MaxFaults`
bounds both.

`MeshTopology` names a face of a cell by its key (of `Keys`) and the sense in which the cell lists it;
`AddCell` is one turn of the loop over the cells. The code sorts by appending in the order of an index
or of the keys of a `BTreeMap`: `InOrder` puts a set of numbers in ascending order, and `Place` is where
each then stands. `PatchOrder` sorts patches by `NameOrder`, the first physical name that is theirs and
then the alphabet (`NameRank`); `FaceIndices[p]` are the labels when p patches have their faces. `Ordered`,
`WrittenPatches`, `FaceZones` and `CellZones` are what is written of the faces that were found.
`TopologyAssumption` says that the nodes of a cell differ, so that no two of its faces have the same;
otherwise a cell could be its own neighbour. `RegionSplit` keeps of a face its label in the mesh that is
split and whether its nodes were reversed. `KeepInternal`, `KeepOwned`, `KeepReversed` and `PassBy`
are the branches for one face, `Push` the accumulator of the patches, `Lay` and `Laid` its layout,
`WriteFile` one file of the seven. The checks of the zones, of their sizes and of the names of the
outputs come before the first file, so a mesh that one of them refuses leaves the regions as they
were. One check comes later: a point that is missing (`map_nodes`, `regions.rs` 611) is noticed when its
region is built, perhaps after other regions were written. Points are not modelled, and to the
properties such an end is that of a write that fails there. The label of a point, the points themselves and the report on
regions that are there already are left out. A patch that the split names has `InterfaceName` of its
zones for its name, and nothing keeps a patch or a surface of the user from having that name: the
faces of both are then in one patch. One side of an interface may so have its faces with those of
another patch, so `SidesMatch` and `RegistryAgrees` are about the other names. A reader wants as many
faces as cells (`Valid`), which a region has if each of its cells has two faces (`TwoFacesEach`).
`SplitSpec` is the split of whatever mesh is on the disk, where other writes may fail too
(`Elsewhere`). The registry is computed from the mesh that is being split; `MeshPipeline` lets either command fail, be repeated
and find what is left.

### SolverArguments, SolverOptions, RunPlan, CaseRun

An argument is a word; an option that has several spellings has one. `ScanSolver` and `ScanOther`
are the look of `ferrumRun` at every argument, one at a time, `ParseValued` and its neighbours the
parser, `ParseEnd` the checks at its end. `invocation` says which executable was called: a
`-preflight` among the arguments turns an execution into a plan, wherever it stands (also as the
value of `-case`). The controlDict that chooses the solver is that of the first `-case` anywhere among
the arguments, the case that is solved that of the last one that is read as an option: a `-case` which
is the value of another option counts for the first look and not for the parser. `ArgumentsKept` says
both: the case solved is that of the last `-case` read, and the controlDict is that of the first one
read unless `-case` is some option's value (`CaseIsOption`); so the two are one case exactly when the
first and the last `-case` agree, which the program does not ask for. A `-linearSolver` of the flow
solvers alone is kept as an error (`deferred`) until the end of the parser, since it matters only to a
scalar solve, and a later one takes it back; `cg` and `pcg` are solvers of both.
`-maxRunnerSteps` has a cap (`MostSteps`), and without
a dry run it is accepted and has no effect, as in the code. A setting and an entry of a dictionary are
sets of at most one value; `Or` is the precedence. Times are multiples of half a second, which keeps
the quotients of the plan and of the runner exact.

`CaseRun` has one action per output, opened and closed, because the files replace each other: only
the table of loads is compared with the other outputs, what the others do to one another is what
`OutputsKept` says. That the file of the plan is already there is found only when it is written,
after the solve. `Interrupt` is a failure that need not happen, or a kill, between two steps or
between the removal of an old file and the new one. The solve ends with a report or an error: the
rest of it is `SimpleLoop`'s. `Follow` goes from alias to alias of a gradient scheme: on a circle it
meets no scheme, which is the error of the code.

`Init` is any command line over the words that name something (`Arguments`), any dictionaries, any
policy and any disk on which what is there has directories above it (`Disks`). `CaseRunAssumption`
asks that the disk has a place for every path that a word of a command line names. The instance
takes small sets of each and says that they fit (`Instance`).

## Runs

| Run | Instance | Distinct states | What it shows |
|---|---|---|---|
| `executor` | 3 workers, 2 calls | 18,536 | interleavings, panics, failed starts: no stale job, clean stop, every thread joined, the serial answer, and an end |
| `simple` | 3 iterations, 1 corrector | 110,571 | what every kind of report carries |
| `simple_control` | 2 iterations, 1 corrector | | a counterexample, see Findings |
| `ownership` | 3 fields; some 4,000 files, most of them one edit away from six that are well formed | 546,027 | files are read as written or refused, both ways to skip agree, one owner, one mesh at a time, the one-shot contract |
| `gamg` | 4 levels, 2 matrices, 3 solves | 55,352 | nothing stale is read, reports are true, every solve returns |
| `pairing` | 6 cells, 8 possible connections, 2 coarsenings | 216,711 | aggregates are seeded once, connected, and follow the matrix |
| `scalar` | 7 kernels, 3 preconditioners, 2 solves, norms to 3 | 131,724 | what is called converged is, of the returned solution |
| `output` | 3 processes, 2 directories | 678,098 (symmetry) | no roll-back or failed creation costs another process its file or its directory |
| `scalar_target` | the same as `scalar` | | a counterexample, see Findings |
| `regions` | meshes of 3 and 4 cells, every assignment of zones, 8 lists of surfaces, 1 fault | 806,859 | faces are neither lost nor doubled, both sides of an interface list them alike, the registry agrees, what was reported reads back, no region is written over another |
| `regions_types` | the same as `regions` | | a counterexample, see Findings |
| `case` | lines of up to 3 of 28 arguments; time entries and policies from small sets; dictionaries with one or two unusual entries; 6 kinds of output on 8 disks | 3,375,192 | no argument is dropped, limits hold, the dry run does what the plan counted, no output is lost to another, U and p are written together |

Why the bounds are enough. Three workers are the code's number, and a second call is the first that
can meet what an earlier one left; a third meets nothing a second does not, since the state between
calls is the same. Three iterations allow a rejection after two acceptances, which tells "the last
accepted" from "the one before" and "the first"; one corrector tells the first pressure solve from
the last. Three fields are U, p and one more of either name before, between or after them, in
either region. The files have every kind of entry in every block, and one token replaced (by any of
16), inserted, removed or swapped, or the end cut off, at every place; lists announce more, fewer or
as many values as they have, down to the very end of a file, and the limits on nesting (4) and on
what is kept (5 numbers) are passed. Four levels have a first, a middle and a last step of the descent; two versions of
the matrix tell "this" from "another"; three solves allow a failure between two successes. Six
cells in a ring with two chords allow pairs, cells that join a pair, cells that join such a cell,
cells alone, parallel faces, and a second coarsening, whose pass runs backward; a path of joins
longer than two needs no new step. Two of three processes race in `output` while the third
replaces the file; of two directories one may be there and the other not, and the order of their
removal matters. Four cells in a square have internal faces in, between and around any two or three
zones, and one of the lists of surfaces has the name that the split gives to an interface; three cells around an edge let a region touch two others; three cells on one face are the
face that is not manifold; a second split over a failed first one is part of the run, and one fault
may hit any write of any command. In `case` one part of a run is unusual at a time (the arguments,
the numbers of the plan, the dictionaries, or the outputs), since they meet only in settings that
have one value; the caps on iterations (2 and 3) and on the events of a dry run (14) are small
enough to be passed. The `MaxResidual`, `MaxNorm` and `MaxSolves` constants only
bound the choices.

`CHECK_DEADLOCK FALSE` is set where a caller may make no further call (`gamg`, `scalar`), a build
ends (`pairing`), every process has opened its file (`output`), or an import whose mesh cannot be
read has no command left (`regions`). `executor`, `simple` and `case` end in a state that stutters
explicitly.

Some properties are proved and not run: `ResultHasRoom`, `HistoryChains`, `BuffersUsable`, `PreSmoothingKept`,
`AgglomerationPolicy`, `OwnDirectories` and the types. The proofs cover every instance.

## Fairness

`MomentumExecutor` assumes weak fairness of the main thread and of each worker: the operating
system runs every thread that is not blocked. `Call` and `Close` belong to the main thread, so the
loop does not stop between two iterations for ever; that the iterations are finitely many is
`max_simple_iterations`. Under it every call returns, every executor is closed and the refinement
of `MomentumPredictor` holds with its own fairness. `GamgWorkspace` assumes it of a running call
only (`Running`): a call that has begun is sequential code that runs on, and nothing obliges the
caller to make another. The other specifications are of safety alone.

## Proofs

Each proof module shows an inductive invariant `IInv`: initially true, kept by every action (one
lemma for each action or phase), with the properties among its conjuncts or implied by them.

*Executor* (any number of workers and calls). The properties are not inductive: that a result in
the channel is fresh needs that a job is fresh wherever it is (`Fresh`), and that the main thread
finds its workers receiving needs `Ready` and `Healthy`. `Counted` ties `pending` to the number of
components without an outcome, from which a solve that waits is waiting for somebody
(`NeverDisconnected`). `ResultHasRoom` follows by the pigeonhole principle: results in the channel
are of different components, none of them of the one that wants to send. `ImplementsSerial` is the
safety part of the refinement, step by step. `EveryThreadJoined` has a second invariant, `Held`: the
workers that were started are the first ones, and the handles are of those not joined yet, so that
the loop that stops at the first missing handle has missed none. The channel is kept unexpanded (`ChannelOK`) and
touched by two lemmas about sequences (`AppendFacts`, `TailFacts`).

*Field ownership* (any number of fields). The invariant says for each phase which payloads are where
and how far the running loop has come. `ImplementsOneShot` maps a build to one abstract step at its
commit and every other step but the reading to a stutter. It is of `FieldOwnership` from any field set;
`LoadingImplementsOwnership` says that `FieldLoading` takes the same steps from fewer of them, so that
all of it holds of a set that was read (`LoadedAsOwned`).

*Reading a field file* (any file of tokens, any limits). `SkipsAgree` compares a reader that takes one
token at a time, and knows the delimiters that are open and those of the group or line it is in, with a
cursor that follows a recursive function over the rest of the file. The invariant, `ReaderOK`, says what
the reader is in the middle of: the delimiters of the lexer are those that a count over the file before
`at` leaves open (`Lexed`, by `LevelFacts` and `TrackFacts`); the goals are those that the routines can
leave to each other (`GoalsOK`); and between the first token of a skipped entry and its end, what the
cursor's function is at the entry it is from here on (`SkipInv`). One token taken by `TakeGroup` or
`TakeRest` is one step of that function. At the end the two are at one place; at an error the function
is 0. In a file that is `Whole` the lexer has no error of its own (`WholeLexes`). `GroupEnd` and
`LineEnd` are functions from places to functions of delimiters; that there are such functions is shown
from the end of the file backwards (`RecursionExists`), with sets of numbers, since the library's
theorems cannot be instantiated.

`ReadAsWritten` compares what the reader has with a grammar that looks at the file as a whole, so its
invariant, `WrittenOK` of `FieldProgress` (with `ReaderOK`), says where in that grammar the reader is. No
run has it: a goal carries a token or a number, and TLC does not compare the two. Between two entries
(`AtHead`) the goals are those of the block it is in, the keys of the block are those before `at` and
those from `at` on (`OnTrack`), the entries before are valid, and `found` is what they say. In an entry
(`InEntry`) it is at one of twelve stages (`Stage`): what has been read of the value, what is left to
read of it, how deep it is, and that no semicolon has ended it before (`Going`); everything that is
found but for the slot of this key is as before it. The other two places are the braces of the blocks
that are read (`Opening`, `Closing`). Each stage has a lemma that takes one token to the next stage or
to the end of the entry (`StageTaken`), where the end that was reached is the one that the grammar finds
from the key (`EntryDone`). That a valid file is never refused is the same walk from the other side:
at each place and each stage the token is one that is accepted (`WhereAccepts`), since a valid entry
has its end ahead and every delimiter of a whole file is closed within it (`PartnerExists`). The goals
of a list are as many as its count says, in closed form (`ItemsAre`), with five to each vector.

*Multigrid workspace* (any number of levels, versions, options and solves). `Phases` locates the
loops, `Coefficients` says how far a refresh has come, `Provenance` which vectors a V-cycle has
computed when it is at a level, `History` that the previous direction is that of the iteration
before, `Agglomerated` which matrix the agglomeration is from.

*Agglomeration* (any graph, weights, number of cells and levels). `Assigned` says that a connected
cell which the first loop has passed is assigned, so the second loop finds isolated cells only;
`Seeded` keeps the one matched pair of each aggregate; `FromMatrix` that connections taken from a
matrix are its own. `Connected` is kept by a join because a division of the larger aggregate either
separates the new cell, and is crossed by the edge it joined by, or divides the old one. Coarsening
maps the edges and the couplings by the same map of cells, so `FollowsMatrix` carries over.

*Safe output* (any number of processes and directories). `OnePath` says that the directories that
have their name are one path with at most one file below it. `Owned` says that what a process will
roll back is still there and still its own, which is what makes removing by name safe: it rests on
`NotYet` (a process makes each directory once) and on the other processes' `Owned`. `Given` and
`Kept` follow files, `Accounted` every directory of a creation at an absolute path to the end: it
is rolled back, in use, or holds one that is. `Quiet` and `Loud` reduce a step to the part of the
process that takes it.

*SIMPLE loop* (any number of iterations and correctors, any options). `Progress` says how long the
history is in every phase and that all but perhaps its last entry were accepted, so that the last
accepted entry is the last or the one before. `FromLast` follows the residuals through an iteration:
those of the last accepted one are in `residuals` or in `saved`, and `Solving` says how many
corrector solves have overwritten them, which is what a rejection half way leaves; `AtEnd` is what
remains of them in a report. `Reasons` ties the reason that each way out records to the history.
The totals are sums over the history, written as a recursive function. The library's induction
theorems cannot be instantiated here; `SetInduction` does their work, by the least place at which a
set of numbers would lack the next one (`TotalsAreSums`).

*Scalar solve* (any kernels, norms and number of solves). `Paired` says that a kernel's residual is
of the solution it has, `Claimed` what a kernel has seen when it says that it has converged, and
`Fresh` of which matrix the factors are. That `ClaimKept` holds for any number of components is
arithmetic on the two norms (`TargetFacts`, `L2Suffices`): a residual below the L2 limit is below the
L1 target.

*Region split* (any mesh, zones, patches, names and faults). A place of a face in a patch is a
*slot*. While faces are collected (`Collecting`) every face that has been passed and touches the zone
is in `internal` or in one slot, and in one only; while they are laid out (`Laying`) it is in `faces`
or in a slot of a patch still to come; when they are written (`Writing`) it is in `faces`. `PushFacts`
says that `Push` fills one slot more, whether its patch is there or new, and leaves the others alone.
`RegionsAreApart` needs only `Zones`: the summaries are of the zones before the present one, whose
output names were compared before the first file.

A second layer, `JInv`, has what the files say. `Patched`: a patch has one name, that which the name
of each of its faces chooses (`NameFor`), and its faces in the order of the mesh; `Push` keeps both
because the faces of the mesh come in order and go to the patch of their name. `Placed`: the patches
that have been laid out stand behind the internal faces, one after the other, without a gap. From the
two a region that is written is one (`IsRegion`, a predicate of its faces and patches alone, so that it
can be carried on when the variables go to the next zone). `Filing`: each file written so far has its
content or what a lost end left. `Reported`: for every summary there are faces and patches that make
up a region of that zone, and its files are theirs; later zones write to other directories. What the
readers find is then a matter of the region alone: `ReadBack` counts faces and cells (`EnoughFaces`:
each cell has two faces, each face at most two cells), `SidesMatch` maps a patch of one side to the
patch of the other that has its name, and `RegistryAgrees` counts entries and faces by a bijection
(`SameCount`).

*Mesh pipeline* (any cells, surfaces, names, patch types and faults). `ImportInv` has four parts.
`FoundOK`: the faces found are those of the cells before the next, each once, and of each the owner is
the first of these cells and the neighbour the second (`FoundRight`, over `Seen`); `AddCellFacts` says
what one turn makes of the list. `ImportOK`: all cells have been seen when files are written.
`FilesTyped`: whatever a fault has left, a file that can be read is a list of what it should be, since a
cut list is one of the same (`LeftTyped`). `FilesWritten`: without a fault each file written so far is
the one meant, and faces do not change any more (`SameContents`). The rest is about the operators.
`FaceIndices` is a function by recursion over the patches; the library's theorems about those cannot
be instantiated, so `ChainExists` makes such a function by induction with a set of numbers
(`NatInduction2`), and `LaidAll` carries three facts along it: no face is laid twice (`LaidOnce`),
internal faces keep their places (`InternalLaid`), and each patch has the places its entry in
`boundary` names (`PatchLaid`). So `Ordered` is a permutation whose internal faces come first
(`OrderedFacts`), labels are its inverse (`LabelFacts`), and zones follow (`ZoneLabelsFacts`).
`ImportsAreSound` puts these together; the readers' check of cells rests on `ReachedCells`, by which a
cell that is none of the two of a face has both before it. `PipelineSplits` is the refinement: with
`FilesTyped` whatever a split reads is a mesh of `Meshes`, and a step of an import leaves the split
alone or is `Elsewhere`. What holds of `SplitSpec` so holds of the pipeline (`PipelineIsSafe`).

*Case run* (any command line, dictionaries, policy, stages, caps and disk). Four invariants, one for
each part of a run. `ArgumentsInv`: what was read is what is set (`ReadKept`), the first `-case` among the
arguments that are passed is the first one read (`CaseKept`), and each pass over the
arguments has its stage (`ParseStage`), so that nothing after the parser sees settings that it has not
accepted. `RunPlanInv`: the plan is the one of the dictionaries, and what the dry run has expanded is
its first steps, as many events as stages, starts and writes of them (`Expanded`). That the plan
counted as many writes is arithmetic of quotients: every interval-th step (`CountMultiples`), and a
time that crosses a multiple of the interval once for each of them (`CountCrossings`), by induction
over the steps with a set of numbers (`SetInduction`). `LimitsInv`: limits are resolved from settings
and a case in which nothing was refused. `OutputsInv`: outputs are written in the order of `Outputs`
(`Ordered`), only that of the stage is open and its file torn (`OpenAt`, `TornOpen`), at the path of a
finished one is a file of an output that was asked for there (`Kept`), the loads have a path of their
own (`LoadsKept`), and the place for p stays one while U is written (`FieldReady`), which is why
looking at both before the first is enough. Outputs may replace each other, so `Kept` says that some
output is there and not which; a failure between the removal of an old file and the new one leaves
nothing there, which is why it speaks of runs that were not interrupted.

The assumptions are the named ones of each module on its constants; TLC evaluates them in the runs.

Only model-checked: `Termination`, `Returns` and the liveness part of `SerialSpec` (liveness and
ENABLED are beyond the prover). An earlier grammar let the last line of a block end at a semicolon
behind the block; the attempt to prove that the keys of a block have their ends in it failed on a file
in which an entry without a semicolon is followed by a second patch. The well-formed relative of that
file is now the sixth of `ownership`.

## Findings

* `simple_control`: when a non-orthogonal corrector breaks down, the criterion for p is evaluated
  with the corrector's initial residual (`flow.rs` 1592), where `docs/architecture.md` (line 593)
  says that the first pressure solve of the iteration decides. The iteration is rejected either
  way; what differs is the criterion in the history of the report.
* `scalar_target`: with tolerance and relTol zero, a multigrid solve of an exactly zero residual is
  converged with the reason `ExactZero`, at once (`flow.rs` 3083 and 3104) or after its cycles (3322), where `docs/user-guide.md` (line 804)
  requires the residual of every converged solve to be strictly below its target.

* `regions_types`: the patch of a region has the type of the first face that is pushed under its
  name (`regions.rs` 763), and faces between regions come before external ones. When a physical
  surface covers faces of both kinds, the external patch becomes one of type `patch` in the region,
  where `docs/user-guide.md` (line 301) says that "existing external boundary patch names and types
  are preserved".

## Plan

Done, in this order: the executor, the SIMPLE loop, field ownership, the multigrid workspace, the
scalar solve, the agglomeration, the safe output; the import and the split of meshes with their
files; the command line with its plan, its options and its outputs; the proofs of the SIMPLE loop,
the scalar solve, the split with its files and its registry, the case run, and the import with the
pipeline; the dictionary stream and the field files. Left, the most important first:

1. The rest of `Dictionary`: cursors that read values into lists of strings, with the limits of a
   batch, and the other readers of a case that use them.
2. The rest of `SolverPlan` and `Backends`: the copies of mesh, fields and properties under limits on
   their size, compared with a reference definition over small inputs.
3. A refinement of `CaseRun`'s writes by `SafeOutput`'s operations, several runs at once.

## Not modelled

* Floating-point assembly, gradients, limiters, matrices, geometry, wall forces, continuity errors
  and mesh generation have no control of their own. The models take from them only whether a value is
  finite and how a residual compares with a limit. They are most of the code that is left.
* How bytes become tokens (comments, quotes, UTF-8, the sizes of tokens and batches), and the grammar
  of case dictionaries, meshes, Gmsh files and reports, whose errors are those of one call; of a mesh
  file it is modelled what a cut one is taken for.
* Points and their numbering, in the import and in the split.
* Collisions of outputs other than the table of loads are not refused by the code. The model has
  them; what it says of them is `OutputsKept`.
* Links, special files and strict roots of `safe_output.rs`; bounded reads of `case_input.rs`, each of
  which is one loop that counts what it reads.
* The crates that consist of a README.
