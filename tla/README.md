# A TLA+ development of the PMW research platform's runtime

The platform runs a frozen plan of research sessions on some backend (a local
command or the Pi agent), watches the resources they use, publishes what
successful sessions contribute into a shared file-based world, leaves one
immutable receipt per session and one settlement per launch, and afterwards
verifies candidates with a pinned verifier.  The modules here model the host
side of that: who may run, what a stop is proven by, what is recorded and
survives, what the shared world may contain, and what a reader of the records
may conclude.  Paths below are relative to `src/pmw_platform/` of the
repository.

* [1. The system](#1-the-system) — the inventory
* [2. The modules](#2-the-modules) — how state and actions correspond to the code
* [3. What the runs show](#3-what-the-runs-show) — questions, bounds, fairness
* [4. Where the code departs from its own text](#4-where-the-code-departs-from-its-own-text)
* [5. What is proved](#5-what-is-proved)
* [6. What is not modelled](#6-what-is-not-modelled)
* [7. Plan](#7-plan)

## 1. The system

| part | state it keeps | operations | hard behaviours | what makes it correct |
|---|---|---|---|---|
| **Orchestrator** `runtime/orchestrator.py` | queue cursor, `stop_new`, `unsafe`, `external_cancel`, receipts in memory; per session the local state of `run_one` between its awaits | `worker`, `run_one`, `_start`, `_arbitrate`, `_stop`, `_publish`, `_persist`, `settle_missing`, settlement | N workers interleaving at every await; cancellation shielded until the end; start timeouts with late handles; a failure inside the error path; two independent opinions (controller, store) of what is legal | bounded concurrency counting lost backends; nothing starts after an UNKNOWN; lost work is always flagged; a settlement other than UNSAFE means nothing runs; receipts account for publications; every launch ends |
| **Resource guard** `runtime/resource_guard.py` | latched cohort event, latched session events, warnings, monitor tasks | `start`, `activate`, `finish`, `event_for`, `close`, disk and tree loops | monitors race with each other, with the terminal measurement and with `close`; scans fail | latches are permanent; a breach reaches the receipt; no monitor survives; persistent breaches are found |
| **Runtime store** `runtime/store.py` | claim file, launch, states, inputs, receipts, settlement on disk | `create_launch`, `write_*`, `read_*`, `RuntimeClaim` | death between two steps, a link that is visible but whose directory was not synced, concurrent launchers and readers | exclusive launch, immutable documents, a settlement backed by its receipts, a status that meets only documents which agree and is refused at most while the launch runs |
| **Plan store** `sessions/store.py` | the plan bundle on disk | `save_plan`, `load_plan`, `load_briefing` | racing planners, rename and sync | a bundle is complete or absent, and one planner's |
| **Command backend** `runtime/command.py` | process, group, pipes, drainers, completion task, cached group proof | `start`, `wait`, `stop`, `_run`, `_terminate_group`, capture | process creation has a gap in which cancellation finds a process without a handle; stop races completion; descendants hold pipes or survive SIGKILL | proofs are true and never retracted; an answer leaves nothing behind; successes are clean; stop and wait return |
| **Pi backend** `runtime/pi.py` | RPC transport (readers, writer, watcher), pending call, event queue, tool channel, observer, one shutdown task | `start`, `call`, `next_event`, `shutdown`, `wait`, `stop` | a shutdown shared by everybody under repeated cancellation; a reader blocked on a full queue; channel settlement after process finality; threads that outlive their await | the same backend contract; one order of finality; a channel settled once |
| **Agenda arm** `experiments/agenda_arm.py`, `experiments/agenda_treatments/` | ledger of admissions (the clock), settled sessions | `review`, `observe`, `settle`, `session_evidence` | review and observe enclose an await; leases expire by admissions; holders settle; publications fail after admission | one live lease per task; dependencies first; completion by the holder only; leases vacated at settlement |
| **Artifact store** `artifacts.py` | content-addressed objects, import receipts and manifests | `copy_object`, `resolve`, `import_legacy` | concurrent writers of one object, one of which has not synced; death in the middle of an import | an object's name is its digest; a document's objects are as durable as it is |
| **Source materializer** `source_materializer.py` | cache of locked source trees, a lock file | `ensure`, its audit | lock, staging, rename, sync and death between them; readers without the lock | racers agree; nobody waits for a dead holder |
| **Verifier** `verifier.py`, `apparatus.py` | pinned interpreter and source, captured candidate, a process group, receipts | `capture`, `verify`, `_run_bounded`, `persist_verification_receipt` | the candidate, the source and the interpreter change while it looks; descendants that hold the pipes; a timeout racing an exit | a receipt is true of bytes that existed, and backed by them; the call comes back |
| **Verifier kit** `verifier_kit.py`, `verifier_kit_runner.py` | ledger of invocations in the session's workspace | `amf-verify`, `read_session_verifier_kit_evidence` | concurrent invocations that race for an ordinal, are killed half way, or outlive the session | the advisory count is honest |
| **World store** `world/store.py`, `runtime/publish.py` | admitted records in an external git-backed world | `_publish_record`, `records`, `head` | a failed response to an admitted record | a record is admitted at most once |
| **Session runner** `sessions/runner.py` | receipts in memory | `run_cohort` | cancellation during a receipt's sink | receipts say what was known |
| **Gates** `runtime/preflight.py`, `readiness.py`, `auth.py`, `context.py` | none | read-only checks before a launch | — | — |
| **Command line** `cli.py` | latched SIGINT | argument parsing, `status`, the commands | repeated SIGINT during settlement | one cooperative cancellation |

**How they interact.**  `save_plan` freezes a cohort.  `run_prepared_cohort`
authenticates the bundle, takes the runtime claim, creates the launch in the
store, starts the guard and a fixed pool of workers.  Each worker takes sessions
in plan order and runs `run_one`: activate the guard, start the backend, wait
for the first of completion, guard event, wall limit or cohort stop, stop the
backend, let the guard measure, publish the outcome's contributions (through the
agenda arm, under one lock), build the receipt (settling the session's leases
and counting what its verifier kit left) and write it.  When the pool has
drained, `settle_missing` writes a receipt for whatever has none, the guard is
closed and the settlement indexes all receipts.  The backend is called through
two protocols (`RuntimeBackend`, `RunningSession`); the guard calls nothing back
but returns events; the publisher is external.  A status reader may look at any
time.  Afterwards an operator verifies candidates: the service captures one into
the artifact store, runs the verifier from the source cache in a process group
of its own, and leaves a receipt beside the session's evidence.

**Hazards.**  `PROJECT.json` lists them one by one, each at its line and with
the properties that would catch it.  They fall in six groups: interleavings at
awaits (orchestrator, guard, agenda lock, Pi's shared shutdown), bounded waits
racing late answers (start, stop, drain, the verifier's timeout), partial
failures of writes and publications, processes and power failing between two
steps of a file protocol, state that was checked and changes before it is used
(candidate, source, interpreter, entry), and limits (capture, event queue, lease
ticks, invocations).

## 2. The modules

```
CohortContract <--implements-- CohortRun --relies on--> BackendContract <--implements-- CommandSession
      |                            |    \                            ^--implements-- PiSession
      |                            |     \--relies on--> GuardContract <--implements-- ResourceGuard
CohortContractProofs               |
                 CohortRunProps, CohortRunInvariant, CohortRunProofs
                 CommandSessionProps, CommandSessionProofs
                 PiSessionProps, PiSessionProofs
                 ResourceGuardProps, ResourceGuardProofs

WorklistContract <--implements-- AgendaArm   (the orchestrator's _publish and the arm)
                                 AgendaArmProps, AgendaArmProofs

DurableTree <--uses-- PlanStore <--uses-- RuntimeStore <--uses-- CohortFiles
     ^                                            CohortFilesProps, CohortFilesProofs
     |--uses-- ObjectStore <--uses-- SourceCache -\
                              VerifierProcess, VerifierKit --composed in--> Verification
                                                  VerificationProps, VerificationProofs
```

The host is one asyncio event loop.  Code between two awaits is one atomic
action; every await where other work can get in is a point between actions.
That is the modelling rule of the modules about the loop.  In the modules about
files, several processes share a tree, and an action is one system call that
others can see.

| module | models |
|---|---|
| `CohortContract` | the abstract launch: bounded slots, nothing started after an UNKNOWN, one verdict per session, one settlement that indexes them |
| `CohortRun` | `run_prepared_cohort` and `_Controller`, with what they see of store, guard, backend, publisher and caller |
| `CohortRunProps` | its properties and the refinement mapping to `CohortContract` |
| `CohortRunInvariant` | the inductive invariants of a launch |
| `CohortRunProofs` | types and who may run; receipts, settlement and the refinement |
| `CohortContractProofs` | theorems about the abstract launch |
| `BackendContract` | what the host asks of one session of any backend |
| `CommandSession` | one session of the command backend: start, completion task, stop, process group, drainers and their caps |
| `PiSession` | one session of the Pi backend: start with its threads, tool channel and spawn; observer, readers, event queue; the shared terminal cleanup, completion and stop |
| `GuardContract` | what the orchestrator is told by the guard |
| `ResourceGuard`, `MCResourceGuard` | the guard and its monitors; the checked profiles |
| `WorklistContract` | an exclusive worklist: leases, dependencies, completion |
| `AgendaArm`, `MCAgendaArm` | the arm, the lease algebra and `_publish` around them; the checked world |
| `DurableTree` | names as processes see them and names a power loss cannot take |
| `PlanStore` | `save_plan` by concurrent planners, and what `load_plan` and `load_briefing` accept |
| `RuntimeStore` | claim, `create_launch`, states, inputs, receipts, settlement, by concurrent launchers |
| `CohortFiles`, `MCCohortFiles` | planners and launchers together, with `read_status` and power losses |
| `ObjectStore` | `copy_object`, `resolve`, `import_legacy` by concurrent processes |
| `SourceCache` | `ensure`: lock, staging, rename, sync, audit, by concurrent materializers |
| `VerifierProcess` | `_run_bounded`: the process group, its pipes, the deadline and the closing |
| `VerifierKit` | in-session invocations and their ledger, and the host's count of it |
| `Verification` | one `verifier run` after another, composed with all four of the above |

Every `...Props` module states the properties of the module it is named after.
`CommandSessionProofs`, `PiSessionProofs`, `ResourceGuardProofs`,
`AgendaArmProofs`, `CohortFilesProofs` and `VerificationProofs` prove them: see
section 5.

### CohortRun

`pc[s]` names the await `run_one` is suspended at: `activating`
(`guard.activate`), `starting` (`backend.start` under its timeout), `aborting`
(joining a cancelled start), `running` (`_arbitrate`), `stopping`
(`handle.stop`), `finishing` (`guard.finish`), `publishing` (the publisher),
`persisting` (the receipt's write).  `cursor`, `stopNew`, `unsafe` are the
controller's fields of those names; `runner` and `wstate` are the workers;
`pend` is the receipt `_persist` is about to write; `receipt`, `settlement` are
the documents on disk; `indexed` is `_Controller.receipts`.  `live` is ghost
truth: sessions whose backend work was started and not proven stopped.
`admitted` is what the world really admitted, whatever the publisher said.
`impaired` records that something below the host failed; several properties
are stated for launches in which nothing did.  The store's receipt and
settlement validation (`_validate_receipt_value`, `_validate_settlement_value`)
is translated on its own, from the store's text, so that a disagreement with
the controller would show.

Abstracted: manifests, digests, timestamps, the contents of contributions.  The
arm is a coin (accepted or rejected) here and has its own module.  A backend
start is cancelled at most once by the host.

### CommandSession

`boot` is `start` (including the gap between process creation and handle in
which a cancellation finds a process nobody owns), `run` the completion task,
`stop` the host's stop call, `lock` the termination lock, `signal` the strongest
signal sent, `groupProof` the cached proof.  `leader` and `child` stand for the
process group, `outsider` for a descendant that left it and still holds the
pipes.  The processes and the pipes are the environment and fork, exit, ignore
SIGTERM or survive SIGKILL as they like.  A stream that crosses its cap sets the
same event in the code as in the model; its bytes are not modelled.

### PiSession

`boot` is `PiBackend.start`: inputs materialized in a thread (`writing` outlives
a cancelled await), the tool channel opened, the process spawned in a thread and
its identity verified, each with the join the code makes when it is cancelled
there.  `run` is the session task: one RPC call (`ask`), the event loop, the end.
`reader` and `errReader` are the transport's two readers; the event queue is
bounded (`QueueBound`), so a reader may wait in `put` while everybody else waits
for it.  `cleanup` is the one shared shutdown task, whoever asked first: discover
the group, abort by RPC, SIGTERM, SIGKILL, join the readers, seal the channel;
`base` is the proof about the group, `proof` the one published after evidence
and channel are settled too.  `observer` is notified around them.

Abstracted: prompts, usage accounting, the contents of RPC messages, the
configuration, the pinned executables.  One call is pending at a time.

### ResourceGuard

The guard's own event loop tasks: `use` is a session's call in progress
(activate, finish), `treeLoop` and `diskLoop` the monitors, `cohort`, `breached`
and `warnings` the latches.  `low` and `over` are truth about disk and trees,
which the environment changes.  `profile` is the frozen safety profile.  A scan
is one step with one result, which may be "uncertain" at any time.

### AgendaArm

`entries` is the arm's ledger, whose length is the clock; `world` is the truth
behind it; `lock` is `agenda_lock`; `stage` is where a session is in
`_publish`.  An admission ref is the record it was made from, because the world
is idempotent: publishing one record twice admits it once.  Base records are
sorted by ref, so their order in the ledger is any order.  Abstracted: verdict
counts and evidence, completion contracts, treatments that judge one record
alone, the cap on released refs.

### The file modules

`DurableTree` keeps two functions from paths to contents: `seen`, what processes
read, and `kept`, what the disk has.  Linking or renaming a name changes `seen`;
syncing a file keeps its bytes; syncing a directory keeps the names in it.  A
power loss leaves `kept` and, of each unsynced name, a choice of the file system;
a name whose directory is gone is gone too.  Names start with what is under a
root the code assumes to be there.

`PlanStore` and `RuntimeStore` give every process its own position in the code
(`planner[a]`; `run[l]`, `at[l]` in the layout, `doing[l]` between a link and its
directory sync, `stage[l][s]` of a session).  `holder` is the claim file.  A
document is `[by |-> who wrote it, plan |-> ..., rows |-> ...]`: contents are
reduced to their author and to what other documents check in them.
`Authenticate` is `_authenticate_bundle`; the names an unpinned document may
have changed to are those another planner may have left.  The terminal state of
a session follows its receipt without an await (`_persist`), so `ReceiptSynced`
has both: the state may be there, be there for good, or have failed.

`CohortFiles` adds the power loss and a reader that goes from file to file, with
launchers moving in between.  A state is the one document that is replaced, so
the reader takes two steps for it, as `_safe_file_bytes` does: the `lstat`
(`LookAtState`) and the `open`, which refuses another file than the `lstat` saw
(`ReadState`, reading `"moved"`).  A file is known by its inode number, which may
be used again after two replacements; so another file may be accepted.  Documents
that are never replaced are read in one step.  `quiet` records that the launch
had ended when the reader looked.  `promised` records settlements a caller was
given.  `Crowds` are the parties of a behaviour; the others never begin.

Abstracted: the states of a session between RUNNING and the terminal one, which
are written as RUNNING is; the briefing's text, the manifests' fields.

### The verification modules

A candidate has two chunks that are read one after the other while an editor
may still replace them; `stamp` is the metadata the capture compares.  `pinned`
is the interpreter frozen when the service is built and `interpreter` the one
installed; drift moves the latter and spoils the source cache.  The verifier
itself is a predicate: the pinned interpreter decides `Accepted`, another says
anything.  `phase` is `_run_bounded` from spawn to the join of its readers, in
which an escaped descendant may hold the pipes.  A kit invocation runs the same
bounded protocol, so only its outcome is a choice; what is modelled of it is
the ordinal it claims, the receipt it writes, and a host that counts them while
some are still at work (`before`: those that had returned when it began).
`Verification` starts in one of four situations: the host alone, beside a
historical import, beside two materializers, or before settlement with two kit
invocations; the parts share only the tree and the candidate.  What goes wrong
around the verifier is explored when nobody else is at work, because all it does
is change a verdict that the verifier could have brought about itself.

## 3. What the runs show

| run | question | instance |
|---|---|---|
| `ledger` | Do controller and store agree on every receipt and settlement? Are publications accounted for, slots bounded, does nothing start after an UNKNOWN, does every launch settle and every stop drain? | 2 sessions, 1 worker, every fault, up to 2 contributions |
| `pair` | Does the launch implement `CohortContract`? Is lost work flagged, and a definite settlement quiet? | 2 sessions, 2 workers, up to 1 contribution, every fault but cancellation and state writes |
| `command` | Does a command session keep `BackendContract`, leave nothing behind an answer, succeed only cleanly, and answer? | one session, every fault |
| `pi` | The same of a Pi session; and does finality come in one order? | one session, an event queue of 1, failing evidence, channel, observer and discovery |
| `guard` | Are latches permanent, breaches reported, monitors gone, persistent breaches found? | 2 sessions, a stopping and a warning profile, uncertain scans |
| `agenda` | Does the arm implement `WorklistContract`, in the face of failing and drifting publications? | 2 sessions, 2 tasks, an inherited task and claim, leases of 2, a ledger of 7 |
| `files` | Is a cohort ever half there, a document rewritten, a reported settlement lost? Does a status read ever meet documents that do not agree, or is it refused when nobody writes any more? | 2 sessions, 1 power loss; 2 planners and 2 launchers, or one of each and a reader |
| `verifier` | Is a receipt true and backed, the advisory count honest? Do racing materializers agree, and do the calls come back? | 1 import, 2 materializers, 2 kit invocations, 2 calls, 2 edits, 1 drift or power loss |
| `cancelled`, `uncertain`, `guard_interrupt`, `pi_thread` | violated: see section 4 | one or two sessions |

**Why the bounds are enough.**  Every guard of `run_one` reads the session's own
state and the cohort's flags, so two sessions already show every interference;
the order of the plan matters only through "before" and "after".  One worker
shows what happens between sessions in a slot, two what happens between slots.
The store's and the publisher's decisions are made per session from finite
classes; two contributions are enough for one admitted, one rejected and one
lost.  A backend session is unbounded only in the number of processes, of which
the code tells apart the leader, the rest of the group and everything else, and
in the length of the event queue, of which it tells apart empty, in between and
full: a queue of one is full as soon as anything is in it, which is the case in
which a reader can hold the shutdown.  In the agenda, five admissions are the
least in which one task is claimed and completed, another admitted, claimed and
completed after it; they also let a claim lapse, be taken over and its first
holder report late.  In the files, a third planner or launcher can only do what
the second does; a second power loss finds processes that begin anew, as after
the first.  A reader changes nothing, so racing parties need none; and beside one
it needs one launcher only, because a second that comes to write finds a runtime
and leaves.  In the verification every pair of parts that share something meets:
two copies of one object, two materializers, two invocations, a host beside each
of them; two edits are the least that let a chunk change before and after it is
read.  `MaxLedger`, `MaxContributions`, `MaximumWarnings`, `QueueBound`,
`PowerLosses`, `MaxCalls`, `MaxInvocations`, `MaxTroubles` and the two edits are
the only bounds on things the code leaves unbounded or bounds higher.

**Fairness.**  `CohortRun`: the event loop runs every ready continuation, start
is bounded by `startup_seconds`, stop by its contract, a publisher returns;
`handle.wait` is *not* fair.  `Settles` is stated for launches with a wall limit
whose timer fires and in which nothing below the host failed; `StopDrains` needs
no wall limit.  `CommandSession` and `PiSession`: ready tasks run, every timed
wait ends, an observer's calls are bounded; nothing is assumed of processes,
pipes, Pi's answers or the host's stop (except that a start which is aborting
calls its own cleanup).  `ResourceGuard`: timers fire and calls in progress go
on.  A disk check that finds nothing changes nothing, so its fairness is stated
for a reserve that is low; the timer fires for ever, so it fires then.
`Verification`: the host's steps and the materializers' are taken, bounded waits
end, and what was killed dies; nothing is assumed of the verifier, of what
escaped it, or of the candidate.  The files have no liveness property: every
step of a planner or launcher can fail and end it.

**Refinements.**  `ImplementsContract`, `ImplementsBackend` (twice),
`ImplementsGuard` and `ImplementsWorklist` are abstract specifications used as
properties, with the mapping in the `...Props` module.  In `ImplementsContract`
a slot is held from `backend.start` on and given back only by a stop proof.  In
`ImplementsBackend` the work is the process group: a proof that says stopped is
true when given and never taken back.  In `ImplementsWorklist` the holder of a
task is the author of a blocking claim who can still publish; leases may lapse
at any step.

**Mutants.**  Next to most definitions a comment announces a *mutant*: a form
of it that a plausible bug would give (a dropped guard, a missing reset, a
swapped order).  Every property is violated by one of them under its own run,
which is how we know that it says something about the code.

## 4. Where the code departs from its own text

* **A lost backend on record as cleanly cancelled** (`cancelled`).  If the
  receipt of an UNKNOWN session cannot be written (`_persist`,
  `runtime/orchestrator.py:698`), `settle_missing` later writes a `CANCELLED`
  receipt with a fabricated proof `NOT_STARTED` (line 1267).  The run shows a
  session whose backend was never proven stopped, on record as `CANCELLED`,
  while `docs/ARCHITECTURE.md` reads "`CANCELLED` requires either no start or a
  positive cleanup proof".
* **An uncertain scan that does not make the cohort UNSAFE** (`uncertain`).
  `_latch` keeps the first cohort-wide event only (`runtime/resource_guard.py:396`),
  so an uncertain scan after a disk breach is dropped; `docs/SAFETY.md` reads "an
  uncertain scan makes the cohort `UNSAFE`".
* **A warning that interrupts** (`guard_interrupt`).  `ResourceGuard.start`
  returns a `WARN`-disposition disk event, which the orchestrator takes for a
  stop; `docs/SAFETY.md` reads "`WARN`: retain an observation without
  interrupting research".
* **A refused start that is still writing** (`pi_thread`).  `PiBackend.start`
  awaits the session materializer in a thread, unshielded and unjoined
  (`runtime/pi.py:3578`); cancelled there it is refused with a positive stop
  proof while the thread writes on.  `RuntimeBackend.start` (`runtime/contracts.py:458`)
  "may not hide blocking side-effecting work in a thread".

Each quotes the text in `PROJECT.json`.  The models also keep, without a run of
their own, these behaviours a reader of the code may not expect:

* `_run_bounded` closes the verifier's stdout after the deadline
  (`verifier.py:1136`, and the kit's runner in the same way); closing waits for
  the reader's lock, so a descendant that left the process group and holds the
  pipe blocks the call.  `EveryCallReturns` excepts exactly this.
* `persist_verification_receipt` makes its ledger directory without syncing it
  into the evidence directory (`apparatus.py:755`); a power loss may take the
  directory with the receipts in it.  So `DocumentsAreBacked` says that the
  receipts which are there are backed, not that a returned one stays.
  Likewise a fresh data root and its `runs` are not synced into their parents.
* `_copy_exact_bytes` returns without a sync when the destination exists, which
  another process may have linked and not synced.  `copy_object` syncs before a
  name becomes visible to documents, which is why `DocumentsAreBacked` holds.
* The source cache makes its tree read-only after its sync: a power loss may
  leave an entry which the audit refuses, and `ensure` then reports a conflict
  for ever.  `RacersAgree` excepts power losses for this reason.
* A launch authenticated between a planner's rename and its directory sync is
  built on a bundle a power loss can take; `ReportedStays` speaks of launches
  whose plan was saved when they began.
* A failed directory sync after a link leaves a visible document that its writer
  reports as failed.  `read_status` may find a session's receipt missing and,
  later in the same call, the settlement.
* `read_status` of a running launch may fail with `UNSAFE_RUNTIME_PATH`: the
  `os.replace` of a session's `state.json` (`runtime/store.py:1082`) may come
  between the `lstat` and the `open` of `_safe_file_bytes` (lines 974-986), which
  then finds another inode.  `_persist` calls that file "only a live view".  So
  `StatusIsAnswered` excepts a state replaced under the reader, and says that
  this cannot happen once the launch was settled, or its process gone, when the
  reader looked at the file.
* A cancelled wait for an already failed Pi start leaves by the cancellation and
  not by `BackendStartError` (`StartEscapes`), hence without a proof.
* The kit hashes a candidate and then runs the verifier on the path, not on the
  bytes it hashed; the work package notes say so, and the count is advisory.

## 5. What is proved

Every safety property of every passing run is a theorem: the invariants, the
action properties and the five refinements.  All theorems are for every value of
the constants: every number of sessions, every pool of workers, every number of
planners, launchers, importers, materializers and invocations, every safety
profile, every lease length and earlier world, every set of faults, every bound.
The assumptions are the named `ASSUME`s of the modules:

| module | assumption |
|---|---|
| `CohortRun` | `PlanAssumption`, `PoolAssumption`, `ModeAssumption`: at least one session, finitely many workers, known modes and faults |
| `CommandSession`, `PiSession` | `FaultAssumption`, `PiAssumption`: known faults; an event queue with room for one |
| `ResourceGuard` | `ProfileAssumption`: a profile names known dispositions and warns at least once |
| `AgendaArm` | `PartiesAssumption`, `RulesAssumption`: this launch's sessions are not the earlier ones, a lease lasts at least one tick; `BaseAssumption`: a record of the world at launch is by an author of that time and about their tasks |
| `AgendaArmProps` | `NobodyAssumption`: the value that stands for no holder is no session |
| `RuntimeStore` | `CohortAssumption`: a cohort has finitely many sessions and at least one; the values for "no verdict", "lost verdict" and "nobody" are no verdict and no launcher |
| `SourceCache`, `ObjectStore` | `CacheAssumption`, `StoreAssumption`: "nobody" is no materializer, the verifying host is no importer |

In the theorems about the abstract launch, its slots are finitely many and
`NoSlot` is none of them.

* `CohortRunProofs!TypeCorrect`: `Spec => []TypeOK`.
* `CohortRunProofs!Inductive`: `Spec => []IInv`; `SlotsStayBounded`,
  `LostWorkStaysFlagged`, `SettledStaysQuiet`, `NothingStartsAfterUnknown`, from
  `IInv`.
* `CohortRunProofs!LaunchKeepsContract`: a launch implements `CohortContract`
  (a refinement, `Spec => Contract!Spec`); `StoreStaysAgreed`,
  `SettlementStaysAgreed`, `PublicationsStayAccounted`.
* `CohortContractProofs!SlotsAreExclusive`, `SlotsStayBounded`,
  `SettlementStaysFinal`: the abstract launch keeps its promises.
* `CohortFilesProofs!Inductive`, `PublishedOnce`: no planner or launcher ever
  replaces or adopts a document, and only a power loss takes one away.
* `CohortFilesProofs!CrashIsInductive`: what kills and power losses leave.
  `FilesTyped`; `LaunchesAreWhole`: a published bundle or launch is never half
  there; `ReportsAreDurable`: what a launcher was told is written stays;
  `StatusReadsSucceed`: `read_status` meets only documents that are there and
  agree, and a launch that has ended replaces no state under it.
* `AgendaArmProofs!ArmIsInductive`; `LeasesAreExclusive`,
  `DependenciesComeFirst`, `ReleasesAreComplete`, `LeasesNeverExpireEarly`;
  `ArmKeepsContract`: the arm implements `WorklistContract`.
* `VerificationProofs!CountStaysHonest`: the host's count of a session's
  advisory invocations.  `RacersStayAgreed`: materializers that race for one
  source never disagree unless the entry was disturbed.
* `VerificationProofs!DocumentsStayBacked`: an object that a receipt or manifest
  names is there, whatever was killed or lost power.
* `VerificationProofs!ReceiptsAreTrue`: a receipt's bytes are the candidate's and
  its verdict the pinned verifier's on them.  `StateIsTyped`: `TypeOK`.
* `CommandSessionProofs!SessionKeepsContract`: the command backend implements
  `BackendContract` (a refinement, `Spec => Backend!Spec`); `AnswersAreFinal`,
  `SuccessesAreClean`: the two invariants of the run `command`.
* `PiSessionProofs!PiTyped`, `PiIsInductive`; `FinalityComesInOrder`,
  `PiAnswersAreFinal`, `PiSuccessesAreProven`: the invariants of the run of Pi;
  `PiKeepsContract`: the Pi backend implements the same `BackendContract`.
* `ResourceGuardProofs!GuardKeepsContract`: the guard implements
  `GuardContract`; `GuardHasLastWord`: its invariant.

**The launch.**  None of the four safety properties is inductive.
`SlotsBounded` needs that a live session belongs to a worker and that two live
sessions do not share one: so `PoolInv` (a session between its first and last
await belongs to one working worker, for it alone) and `CustodyInv` (where a
backend may be running: from `backend.start` to its proof, and after `run_one`
only if that proof never came).  A worker could take a new session over a lost
one; that it does not is because a lost one sets `unsafe` before it leaves
`persisting`, and `unsafe` sets `stopNew`: `DoubtInv` follows every doubt (an
uncertain event, an unproven stop) from the await at which it is seen to the
flag it sets.  `SettledInv` says that a settlement is written last, and only
over a quiet ledger unless it is UNSAFE.  With the four parts `IInv` is
inductive; the proof has one step per action and under it one per part the
action can disturb.  `SlotsBounded` then follows by mapping each live session to
its worker, an injection into a finite set.

**The ledger.**  `LedgerInv` counts contributions at every await (`Counted`),
says what a verdict handed to `_persist` is worth (`Offered`: legal for the
store, whatever the guard's last measurement makes of it) and what is on record
(`Kept`).  The one way back from `publishing` is a receipt that could not be
built, and it impairs the launch; where nothing broke, the store accepts what it
is offered and the receipts count what the world admitted.  For the settlement
`AgreementInv` adds that an unsafe cohort has somebody to blame: a session on
record as UNKNOWN, one about to be, or one whose receipt is still to be written
under the cohort's uncertain event.  When the sweep is over only the first is
left, so flags and receipts call for the same outcome; that it leaves nobody out
needs the first session without a receipt, which the library's theorem on
well-founded relations gives for a set.  In the refinement, `backend.start` is a
launch into a free slot because the slot's last owner, had it not been stopped,
would have set `stopNew`; a write of a receipt is a post, an impairment or, when
refused, nothing.

**The files.**  Every step of a planner or launcher *grows* the tree: it links
a name that was not there, replaces a session's state, or makes something
durable.  A power loss keeps a name's contents as processes saw them, because
what is durable of a name agrees with what is seen of it wherever the name is no
state (`KeptAgrees`); and what is seen is closed under parents (`Sheltered`).
The proof goes through the places of the layout, which are all different and
none of them a session's state.

**Kills and power losses.**  `NeverHalfThere` and `ReportedStays` are about the
order of links and syncs, so `CrashInv` says of every document what is durable
under it: a published launch has its whole layout on the device, all of one
owner (`LaunchSafe`), a settlement stands only over a durable launch and durable
receipts that it indexes (`SettlementSafe`).  It holds because each launcher
knows what it has made durable so far: nothing before its claim (`QuietInv`), the
first `at` places of the layout while it lays it (`LayingInv`), the launch after
it (`ServingInv`); and because one launcher at most is past its claim, the holder
of the lock (`LockInv`).  A power loss is one lemma: what is durable survives if
its directory does, so what was whole stays whole or goes with its directory.
The layout is a fold over the sessions, and that every place of it is one of the
known ones takes the library's theorem on least elements.  `StatusIsAnswered`
needs of the reader that the launch it found is still there, and of a launch that
has ended that its states are the last ones (`EndedStays`): only the owner of the
launch replaces a state, an owner that left does nothing more, and one that has
named its settlement writes nothing else (`SettledInv`).

**The count.**  `KitInv` relates three records of one invocation: the ordinal it
claimed, the receipt in the ledger and its position.  Ordinals are claimed by
exclusive creation, so they and the invocations that claimed them are in
one-to-one correspondence; the host lists the names first, and whatever had
returned by then is counted already or on the list, and is not changed any more.

**The cache.**  `CacheInv` says that the lock's holder is the only materializer
between staging and its last audit, that an entry nobody disturbed is whole from
the rename on, and that the object store and the host write elsewhere.  A
conflict is then found only of an entry that drift or a power loss spoiled.

**The documents.**  `DocumentsAreBacked` speaks of what is seen now, but a power
loss may show what the device had before; so `BackInv` says of every document,
seen or on the device, that the objects it names are both seen and on the
device.  That holds because nobody names an object before the copy of it
*returned*, and a copy returns only when its name is durable, also when it found
the name made by somebody else.  An import remembers what it has not copied yet,
and the host where it is: the object in its hands is the one it is about to name.

**The receipt.**  `ReceiptIsTrue` ties together four things that can change while
the verifier runs.  `TruthInv` follows a verdict from the bytes to the paper.
`CaptureInv`: every chunk read is one the candidate had since the capture began,
so two equal looks make the chunks one version.  `InterpreterInv`: interpreters
only go forward, and what ran lies between the pinned one and the one found
afterwards; if these are the same, so is what ran.  `VerdictInv`: what the
verifier said, from its exit to the receipt, is the pinned verifier's verdict on
the captured bytes if the pinned interpreter ran it, and where the host has made
up its mind it is.
`PaperInv`: every receipt that is seen, is on the device or is about to be
linked is true; whatever is in the tree was there before, came back from the
device or is being copied (`Inherits`), and the host, which alone makes receipts,
is copying at three of its steps only (`HandInv`).  `StateIsTyped` adds to these the tree's shape: it is closed under
directories, also after a power loss, and the device has part of what is seen.

**The command session.**  `SessionInv` has a part for start (before a process
exists nothing of a session has begun), one for the lock (nobody passes the
termination without a cached proof, and a positive one is true for good, because
an empty group cannot fork), one for the end (the completion task ends after the
drainers, an answer comes after it) and one for success (a natural exit is one
nobody asked for; a group that had to be signalled after one is residual).  Every
step is then a step of the contract: a spawn, a refusal, a completion, a stop,
the last process leaving, or none.

**The Pi session.**  Several tasks ask for the end of one Pi process (a start that
failed or was cancelled, `stop`, the completion task), and one cleanup serves
them all.  `PiInv` says where start is and so what exists (`BootInv`: no process
before the spawn, a completion task behind a published handle only); that the
tool channel is opened by start and settled by the cleanup, also when start was
cancelled between the two (`ChannelInv`); that the cleanup ends both readers
before it closes the evidence, and that what it proves stays true (`CleanupInv`:
an empty group cannot fork, and descendants are looked for before the groups are
declared empty); that the completion task outlives the cleanup it asked for, and
observer and answer come after it (`RunInv`).  The refinement is to the contract
of the command session: a cleanup in a failed start is a refusal, its positive
proof the contract's, and everything about channel, readers and queue is hidden.

**The worklist.**  A review reads the ledger, a publication is awaited, and only
then is the ledger written.  `OfferInv` says that what a review saw is still so
when the record arrives, because nobody else passes `agenda_lock` (`LockInv`) and
a settled session stays settled.  So every own entry was earned (`EarnedInv`),
and a task has at most one lease that can be used, none when it is completed
(`ExclusiveInv`).  `DependenciesFirst` is about the completions this launch adds:
the part of the ledger from before it is sorted by reference and not by time.
That a lease does not expire early compares two counts, the world's and the
ledger's: `ClockInv` says that as many records follow one in the world as follow
it in the ledger, one more while another is admitted and not yet recorded.  In
the refinement, an own claim is a grant and an own outcome a completion; that
they are legal for the abstract worklist is what the review saw.

**The guard.**  A monitor that is at work belongs to a session in use and to an
open guard (`Unwatched`); a tree found beyond a limit left an event or a warning
(`Noticed`); the latches only grow (`Lasting`).  That they only grow is most of
the refinement, and that a measured session has no monitor is the rest.

**Only model-checked.**  Liveness under fairness (`Settles`, `StopDrains`,
`CallsComeBack` of both backends, `BreachIsFound`, `EveryCallReturns`): it needs
`ENABLED`, which the prover does not handle.  Every other property of a passing
run is a theorem.

## 6. What is not modelled

* `sessions/runner.py`: nothing in the program calls `run_cohort`; the
  orchestrator has a pool of its own.
* The world store: an adapter over an admission core that is not in the
  repository.  `AgendaArm` and `CohortRun` take from it that a publication is
  admitted, refused or lost.
* Safety profiles and usage accumulators: validated data and pure sums; the caps
  as the backends meet them are part of the session modules.
* The kit's construction, verifier manifests, git in the materializer, and the
  lock file, which is a constant here.
* Two rows of one safety profile that a session's tree exceeds at once: the guard
  has one disposition for trees, while `_tree_limit_event`
  (`runtime/resource_guard.py:502`) reports the first row exceeded, so in a mixed
  profile a warning may hide a later row that would stop.
* Of the kit's count: what the host cannot read (`verifier_kit.py:715`, 727, 735)
  and what a session writes into its own ledger, which the code calls
  `NOT_TAMPER_PROOF`.
* A publication result that names no admission (`observe`,
  `agenda_arm.py:988`): a divergence is noted and the ledger keeps no entry.
* The evidence counts of the agenda, and the treatments that judge one record
  alone.  Two launches over one world, whose absence the arm's documentation
  names as an assumption.  A claim made again with the same text after a release:
  the world returns the closed claim's ref and the arm accepts it.
* The death of the host process between a world admission and the receipt that
  would name it (`CohortRun` has no crash; its files have, in `CohortFiles`).
* Of Pi: cancellation of the completion task from outside, a shutdown task that
  raises, prompts, usage, configuration.
* Directories the stores assume present are present and durable.  Contents,
  parsing and formatting of documents; argument parsing; the read-only gates
  before a launch, except the authentication of a bundle.

They are listed with their reasons in `PROJECT.json`.

## 7. Plan

1. Proofs: what the abstract contracts of the backend, the guard and the worklist
   promise by themselves, as `CohortContractProofs` does for the launch; shorter
   proofs where one argument serves several actions.
2. World publication: retry of a record whose response was lost, and the death
   of the host between admission and receipt.
3. `check_lease_exclusivity`, which audits a ledger in which the arm has vacated
   a lease by settlement and may find a conflict that the forward rule allows;
   renewal by release-then-claim.
4. The command line's SIGINT handling as the source of `CohortRun`'s
   cancellation.
