# tmux-router in TLA+

tmux-router keeps the panes of a tmux window in the arrangement of an editor's
columns: given the files of each column it resolves every file to a pane,
chooses a window and moves panes until the window shows the columns, stashing
what does not belong there. A registry on disk remembers which pane belongs to
which file.

This directory models that program, model-checks it on small instances and
proves its main safety properties for every instance. Source references are
`file.rs:lines` under `src/src/`.

## 1. Inventory

| Part | State it keeps | Operations | Correct when |
|---|---|---|---|
| **reconcile** (`sync.rs` 1341-1862) | none of its own; reads and moves the panes of a tmux window; a log | SNAPSHOT, FAST PATH, SWAP, ATTACH, SELECT, DETACH, REORDER, VERIFY, registry update, restore of the focus | no pane is lost, scattered or taken while busy; the window never loses its last pane; the order is the desired one after a full run; focus goes where it should and nowhere else; the registry follows |
| **selection and focus guards** (`sync.rs` 97-141, 580-716) | the operator's focus captured at the start | select a pane, in place or with its window; restore | a passive call is focus-neutral, a stash window is never shown |
| **SessionScope** (`sync.rs` 275-371) | the session of the call | join and swap with a check, verification of the boundary | no pane changes session |
| **sync** (`sync.rs` 749-1317) | columns and file -> pane map of the call | resolve, donor and spare panes, deduplication, stash of unmanaged panes, choice of session and window, reconcile, phase 6 | every file is shown by at most one pane, focus only on an owned pane, the last pane of a window stays |
| **equalize, overflow** (`sync.rs` 1865-2001) | none | even sizes; stash panes that are too low | stops; spares the focused pane and the window |
| **tmux wrappers** (`tmux.rs`) | none (the tmux server's) | join, swap, break, kill, stash, select, queries | a pane is never dropped; a session is never destroyed |
| **pane snapshot scope** (`tmux.rs` 253-345) | per thread: cached listing, nesting depth | begin, end, invalidate, cached query | an answer is never older than the thread's last own change |
| **registry** (`registry.rs`) | entries on disk, as JSON or in SQLite | load, save, `with_registry`, update a window, upsert, prune | no update of another process is lost; at most one entry per pane after a prune; entries of live panes survive |
| **registry lock** (`registry_lock.rs`) | the flock on the lock file; per thread: HELD flag | acquire, acquire_or_skip, drop, bounded polling wait | mutual exclusion; no wait beyond the bound; no self-deadlock |
| **control mode** (`control.rs`) | a child process, a reader thread, a channel | attach, receive, send, drop; parse of lines | events in order, drop ends the thread |
| **pipe-pane and harness strategy** (`hybrid.rs`) | a guard per pane | start, stop on drop | a pane's pipe lives as long as its guard |
| **pane policy** (`pane_policy.rs`) | none | join and swap refused across sessions | no unintended move across sessions |
| **CLI** (`main.rs`) | none | argument parsing, one call of the library | - |

How they interact: `sync_with_options` calls the resolver callback of its
caller and the registry, then `reconcile`, `equalize_sizes` and
`stash_overflow_panes`, all of which run tmux commands one after another. The
tmux server is shared: between two commands the operator selects panes,
processes exit, and other processes run the same tool. The registry file is
shared by every process; `RegistryLock` serialises most of its updates. The
snapshot cache is shared by all probes of one thread. `protect_pane` is a
callback into the caller that says which panes are busy.

What is hard: a call is dozens of tmux commands without a transaction, any of
which can fail ("pane too small") or find that the pane has died; tmux changes
the selection and the layout on its own when panes move; the focus belongs to
the operator, who goes on using it; the registry has two backends with
different locking. `PROJECT.json` lists each such hazard at its line.

## 2. Modules and plan

| # | Module | Models | State |
|---|---|---|---|
| 1 | `Filter`, `TmuxLayout`, `LayoutProofs` | the filters of `sync.rs`; the geometry of a window (external); lemmas about both | done |
| 2 | `TmuxServer` | the tmux server and the wrappers that move, stash and select | done |
| 3 | `Reconcile`, `MCReconcile`, `ReconcileProofs` | reconcile against a live server | done |
| 4 | `Sync`, `MCSync` | a whole call from its columns to its end: 3 with equalize, overflow stash, selection and restore; its theorems are in `ReconcileProofs` | done |
| 5 | `Resolve`, `MCResolve`, `ResolveProofs` | the same call up to 3: resolver, lent panes, columns, session, window | done |
| 6 | `Mutex` | what the users of the lock rely on (abstract) | done |
| 7 | `RegistryLock`, `MCRegistryLock`, `RegistryLockProofs` | the polling lock; it implements 6 | done |
| 8 | `RegistryMap`, `AtomicRegistry` | a registry as a value; what its operations promise (abstract) | done |
| 9 | `RegistryFile`, `MCRegistryFile`, `RegistryFileProofs` | the JSON backend over the lock of 6; it implements 8 | done |
| 10 | `RegistrySqlite`, `MCRegistrySqlite`, `RegistrySqliteProofs` | the SQLite backend, with the other program that owns one of its tables | done |
| 11 | `PaneSnapshot`, `MCPaneSnapshot` | the cached listing of a thread | done |
| 12 | `PanePolicy`, `PanePolicyProofs` | `PaneMoveOp` over 11; theorems about both | done |
| 13 | `PaneStreams`, `MCPaneStreams`, `PaneStreamsProofs` | control-mode client, reader thread, channel; guards of pipe-pane | done |
| 14 | `StashCommands`, `MCStashCommands` | `stash_pane`, `break_pane` and `kill_pane` of 2 command by command, by two processes | done |

Compositions: `Reconcile` EXTENDS `TmuxServer` and `TmuxLayout`, `Sync` EXTENDS
`Reconcile`, `PanePolicy` EXTENDS `PaneSnapshot`. `StashCommands` EXTENDS
`TmuxServer` and shows that its compound steps, which `Reconcile` and `Sync` build
on, are what the commands add up to when nobody interferes. Both registries use `Mutex`
(INSTANCE) for the lock that `RegistryLock` is proved to implement, so the
layers are checked apart and hold together. `Resolve` ends where `Sync` begins:
its property `CallIsLegal` is the assumption `Sync` and `Reconcile` make about a
call.

Left to do: theorems about `StashCommands` (`GuardsHold`, `StashKeepsItsWord`,
`ActsAsOneStep`); two whole calls of sync at once over one server
(`StashCommands` interleaves the commands that can take a window's last pane).

## 3. The models and the code

### `TmuxServer`, `TmuxLayout`

The tmux server is external: it is modelled from how `tmux.rs` and `sync.rs` use
it. `TmuxServer` has one record for the session: `loc` (window of each pane, 0
if it is dead), `stash` (windows named so), `shells` (windows that hold an
anonymous shell, such as `break_pane`'s placeholder), `sel` (active pane of each
window) and `cur` (current window). Each wrapper that is one command, or a
fixed sequence of commands (`break_pane`, `stash_pane`,
`ensure_stash_window`), is an operator from a state to the set of states it can
lead to; tmux's own reactions (a window without panes closes, another pane or
window is selected) are in `Settled` and nondeterministic where tmux decides.
`stash_pane` can succeed in three ways: `JoinedStash`; `BrokenToStash`, after a
failed join; and `Scattered`, which leaves the pane alone in a window of another
name, because `ensure_stash_window` failed and `break_pane` was called instead
(`tmux.rs` 1284-1292) or because the window of `break_pane_to_stash` could not be
asked for or renamed (1386-1394).

`TmuxLayout` is the geometry of a window as `list_panes_ordered` sees it:
columns from left to right. `join-pane -h/-v/-b`, `swap-pane` and the
removal of a pane return every geometry the tree of splits could give, so no
property depends on which tree a window has. Exact up to five panes; the runs
have four. `Filter` has the two filters over vectors that both this and
`sync.rs` (1010-1014) use.

### `StashCommands`

What `TmuxServer` has as single steps, command by command, for two processes
that make one call each: DETACH's count of the window's panes (`sync.rs`
1581-1588) and its `stash_pane`, a `stash_pane` alone, or a `kill_pane`. A `job`
is a call in progress with what it has read: the stash window, the pane it will
split, the pane that was selected there, the window of `break_pane`'s
placeholder, the pane to kill. Every command that can fail is a second action
with the error path of the code (`NamingFails`: nobody is told); a command on a pane or window that has gone
fails on its own. tmux gives no window id twice (`newest`). The cached pane
listing, which these calls also drop, is that of `PaneSnapshot`, and
`resize-window` changes nothing modelled here.

### `Reconcile`

One call of `reconcile` (`sync.rs` 1341-1862). `pc` is the next step of the
call; a step is the reads of one decision and the command they decide, so panes
die, joins fail and the operator selects between any two commands.

| Step | Actions | Code |
|---|---|---|
| SNAPSHOT, FAST PATH | `Snapshot`, `Plan` | order equal: return; capture of the operator's focus, incoming and outgoing panes |
| SWAP | `SwapSkipped`, `Swap` | one in, one out; deferred if the one to leave is busy |
| ATTACH | `AttachFirst`, `Attach`, `AttachDone` | first pane next to some pane, the others by column |
| SELECT | `SelectCheck`, `SelectActivate`, `SelectInPlace`, `SelectGuard` | `select_reconcile_pane`, called from three places (`after`) |
| DETACH | `DetachList`, `DetachSkip`, `DetachDecide`, `StashPane`, `StashPaneFails`, `DetachDone` | last-pane guard, `protect_pane`, `stash_pane` with its fall-back, focus guard |
| REORDER | `Reorder`, `Break`, `BreakDone`, `Rejoin`, `RejoinDone` | break all but the first out and join them again |
| VERIFY, restore | `Verify`, `Restore` | comparison, registry update, `restore_operator_focus` |
| around the call | `CallAgain`, `PaneDies`, `OperatorSelects`, `PaneFrees` | the next poll; the environment |

Abstracted: `session_name` is always given; log texts (only whether an error
entry was logged is kept, `err`); a pane that is busy can become free and not
the reverse; the session does not vanish; a dead pane that `remain-on-exit` keeps
is not told apart from a gone one. A `new-window` that fails is a failure of the
`stash_pane` or `break_pane` that runs it, or `Scattered`; `used.scattered` has the
panes of such stashes. `Record` is `update_registry` after a move: for some of
the panes it may fail (lock timeout, unreadable registry), which the code only
warns of (`sync.rs` 1848-1853); `registered[p].missed` says that the last update
of p did.

### `Sync`

`sync_with_options` from its columns on, call after call. `stage` is the phase:
`CaptureOperator`, the steps of `Reconcile` (`Reconciling`), then
`equalize_sizes` (more than two columns are laid out with `even-horizontal`,
which makes a column of every pane: `Flattened`), the two loops of
`stash_overflow_panes` (`Measure`, `trim`, `shed`), the selection of the focus
pane and the restore of the operator's. What tmux answers for the height of a
pane is nondeterministic within what the window allows: in a window of fewer
than `Roomy` rows any pane that shares it may be too low. `Calm` (in
`Reconcile`) is what the properties mean by "nothing has gone wrong": no pane
has died, no move has failed, and every wanted pane is alive.

### `Resolve`

The same function up to its columns. An input is a call with the state it starts
from: layout, arguments, options, and what the resolver callback and the
registry say of each file. Each step is the reads of one decision; between two
steps panes die, are moved, and files are bound by other processes. A file is
resolved by a proven binding or by the registry (`ResolveProven`,
`ResolveRegistered`), borrows a pane of its column (`Donate`) or a spare one of
the window (`SpareList`, `Spare`); `BuildColumns` drops repeated panes; a layout
without panes returns early, after `EmptyNext`/`EmptyStash` have stashed the
panes of an unmanaged window; `ChooseSession`, `ChooseWindow` end the part. When `--window` will not do,
`find_best_window` runs query by query: for each wanted pane its window
(`AskWindow`), its session (`AskSession`, where no answer keeps the window,
`sync.rs` 500) and the panes of the window (`CountPanes`). `search` is its state;
`slipped` says of a window that its pane was not seen in it when the session was
asked for. In this phase each query can also fail for no reason.
`IsCliSync` says which inputs the command line makes of its `sync`.

### `Mutex`, `RegistryLock`

`RegistryLock` has the threads of all processes. `locked` is the kernel's state,
`guards` the `RegistryLock` values alive, `held` the thread-local flag. An
acquisition is `Acquire` (nested-acquisition check, open, read of the policy)
followed by attempts: `PollTakes`, `GiveUp` at the bound, `PollErrors`,
`PollWaits` (heartbeat, sleep, doubled backoff). `Drop` and `Kill` release. Time
is discrete and urgent: `Tick` needs every waiting thread asleep, so a thread
whose sleep is over runs before time goes on (this is what makes the bound of
the wait a bound: the code cannot promise more than its scheduler). A guard is
dropped by the thread that acquired it; no code of the repository moves one.
`Mutex` is the lock as its users see it: `Take` and `Release`.

### `RegistryMap`, `AtomicRegistry`, `RegistryFile`

A registry is a function from keys to entries; an entry keeps the pane, the
window and the time it was started, which stands for all the metadata no
operation tells apart. `RegistryFile` runs any operation in any thread: `Begin`
(with the lock, but for the CLI's `register` and `unregister`), `Load` or
`LoadFails`, `Sample` of the live panes for a prune, `Change`, `Truncate`,
`Write`, `Leave`; `WriteFails` and `Crash` at every point between. The file is a
registry or `Torn`: `std::fs::write` truncates before it writes, and two
overlapping writers can leave mixed text. An operation that gets no lock has no
effect and is not started. `AtomicRegistry` is the promise: a call takes effect
at one moment between its start and its return, or not at all.

### `RegistrySqlite`

The same operations on two tables. `docs` belongs to another program, the
actor, which binds and closes documents at any moment (`ActorWrites`); `rows`
holds metadata of documents and entries without one. Loads and lookups are two
queries each, window updates two statements that commit on their own; a save is
a transaction that first reads the list of rows (`List`) and then writes
(`Write`). In WAL mode a commit of anybody else between the two makes its first
write fail (`stale`, `WriteOvertaken`). `bad` is a row without a key that
corruption may have left. The operations of the library that load and save own
the lock file (`LockedOps`); the CLI's `register` and `unregister`, whose database
is this one by default (`main.rs` 14), do not (`CliOps`, 120-145), nor do window
and metadata updates. `raced` has the operations whose loaded copy somebody has
written behind, one of the two without the lock. A lookup matches a name as key,
path or session_id (`Named`, `registry.rs` 619, 639); `Aliases` gives the path and
session that go with a stamp, so that a name can match several rows.

### `PaneSnapshot`, `PanePolicy`

One thread with its snapshot scope: `depth`, `cached`. The operations of one
command are one action. `kill_pane`, `break_pane` and `auto_start` are several
(`KillPane`, `Guard`, `Ask`, `Kill`; `BreakPane`, `BreakAsk`, `Placeholder`,
`BreakJoin`; `AutoStart`, `Launch`, `LaunchFails`), because they probe on their
way and others change panes meanwhile. `known` is what the thread's own last
change made of a pane, and `untold` the panes changed since the listing was
taken by an operation that leaves it in place (`kill_session`, `join_pane`,
`swap_pane`, `ensure_stash_window`) or takes it before its change (`kill_pane`
of the last pane of a window). `seen` is the listing that probes have answered
from since the outermost scope began or the thread dropped its listing (`Drop`).
Each query can fail, and the code goes on as it then does: a probe without a
listing, a `kill_pane` that takes a pane of unknown window as one of many.

`PanePolicy` adds `PaneMoveOp`: `MoveOp`, `AskSource`, `AskTarget`, `DoMove`.
`drifted` has the panes others have changed since the answers. A query of the
session can fail for a pane that is there as well (`PaneSession`; `move.erred` has
these panes), and any failure lets the move through (`pane_policy.rs` 92-99).

### `PaneStreams`

The control-mode client writes `lines`; the reader thread parses them into
`events` and ends at the end of the stream or at a line that is not UTF-8; `owed`
are the lines written and not yet given to the owner, who has to get them in
their order before he is told of the end; the owner sends, waits with a deadline in ticks, and drops, which
kills the client and joins the reader. `Encode` is tmux's escape of a payload,
`Decode` the decoder with its 8-bit arithmetic. The other half has the one pipe
of each pane (`piped`) and the guards; `missed` are the guards whose file lacks
output, `shared` those in whose life another guard of the same pane was started
or dropped.

## 4. What the runs check

| Run | Shows | Bounds |
|---|---|---|
| `reconcile_safety` | `TargetKept`, `BusyStays`, `LossIsReported`, `EvictedAreStashed`, `RegistryFollows`, `FullRunSettles` | explicit calls: one death and one failed join, stash or rename anywhere, from every window of up to two panes, with a pane of another session; from windows of up to two panes one failed command and, at any time, one pane whose update the registry has missed; without failures, every geometry of up to three panes to every shape of two or three; a selection of the operator anywhere in calls of both kinds; and a target window that is named `stash` itself |
| `sync` | `SyncIsFocusNeutral`, `FocusIsShown`, `WindowSurvives`, `StashStaysHidden` | whole calls from every current window and selected pane, with a death and a selection of the operator; stacks and rows in windows of 8 and 40 rows; and calls that can take the operator's pane into a window of another session |
| `sync_converges` | `SyncConverges`, which includes that every call returns (`SyncReturns`), under fairness | two starting windows, a busy pane, one failed join, repeated calls |
| `resolve` | `FocusIsOwned`, `PolicyRespected`, `CallIsLegal`, `OnlyUnmanagedEmptied`, `WindowIsLeft`, `TargetIsSound`, `SparesAreFree` | three files and panes, two sessions, up to two deaths, moves, bindings or failed queries during the call |
| `stash_commands` | `StashKeepsItsWord`, `ActsAsOneStep`, `GuardsHold` | two processes, three panes, with and without a stash window; in all two deaths, failed commands or attachments by others, anywhere |
| `registry_lock` | bound, flag, no wait for itself, return, refinement of `Mutex` | three threads in two processes, two files, bounds of 0 and 5 units, backoff 1 to 3, heartbeat 2 |
| `registry_file` | `SavesAreCurrent`, `PruneIsThorough`, refinement of `AtomicRegistry` | two threads, keys, panes, windows and ages; one crash or failed write that leaves no torn file |
| `registry_file_faults` | `OperationsReturn` with the CLI, scopes and torn files | one crash or failed write anywhere |
| `registry_sqlite` | `SaveSparesOthers`, `PruneSparesBound`, `LookupAgrees` | two threads, library and CLI, two keys of which the actor has one and the other is also the session of what is stored under the first, two panes, one stamp; with and without a row without key; a crash anywhere |
| `pane_snapshot` | `FollowsOwnChanges`, `OneView`, `DeniedStaysHome` | three panes in three windows of two sessions, scopes nested twice, any query failing |
| `pane_streams` | `OutputIsExact`, `ErrorComesLast`, `StreamIsWhole`, `CallsReturn` | one pane, two guards, two lines on their way, a timeout of two ticks, bytes of every class of the escapes |

Why the bounds are enough. A call of `reconcile` has one shortcut for "one in,
one out" and loops otherwise, so three wanted panes and one unwanted pane reach
all of them, with a stack and a row on either side; the faults are counted over
several calls, so one of each falls at every step of a first call and of the
calls that follow; two of one kind add no step that one does not reach. Windows
of 8 and 40 rows hold less than one pane of the minimal height and three of
them. Three files are one that lends, one that borrows and one that
contends, in one column or two. The wait with bound 5, backoff 1, 2, 3 and
heartbeat 2 has a first sleep, a doubled one, a capped one, one cut to the
bound, and heartbeats that are due in the middle of a sleep. Two writers are
what a lost update needs; two keys and two panes give twins with older and newer
entries (in `registry_sqlite` all are of one age: which twin a prune keeps is
`Kept` of `RegistryMap`, the same for both). Two processes that make one call each are enough for a stash
created twice, a split pane that moves, and a check that another's kill makes
stale; a second call of one process begins like a first. Two guards are what replacing a pipe needs, two lines what a reader
needs to be behind. Where theorems exist (section 6) the bounds do not matter.

The violation is a disagreement of the code with what it says of itself:

| Run | Disagreement |
|---|---|
| `cli_sync` | the command line's `sync` calls every file unmanaged, so it never finds what `register` has registered |

### Behaviour a caller should know

The models have the following behaviour of the code. Properties are stated
around it, in their own text, where they would not hold.

- Layout. Panes are compared as one flat order, so a stack is accepted where
  columns are wanted (`sync.rs` 1372), and `even-horizontal` flattens stacks in
  more than two columns (1871). A swap puts the incoming pane in the place of
  the outgoing one; a later call corrects the order (`SyncConverges`).
- Session boundary. `SessionScope` only logs and moves a pane of another session
  (`sync.rs` 318), although the module says such a join is skipped (74).
- Guards of the last pane. DETACH counts the panes of the window and
  `kill_pane` those of the window and the windows of the session, and neither is
  tied to the command that follows: two kills that both pass the guard end a
  session (`tmux.rs` 86 says never silently). `GuardsHold` is about calls during
  which nobody else takes a pane away.
- Stash. `stash_pane` joins the pane to a pane, wherever that is by then; two
  processes can each create a stash window, and both are used; so does a call whose
  `list-windows` fails (1230), which `ActsAsOneStep` leaves out. When no stash
  window can be created the pane is broken out to a window that is not named so,
  without an error (`tmux.rs` 1286), although the module promises a join, a break
  to the stash or an error (88); and when the rename after a failed join fails,
  nobody is told (1386). The pane is then in no window the tool finds: the
  exception of `EvictedAreStashed` and `StashKeepsItsWord`.
- Registry updates of a call. `update_registry` only warns when it fails
  (`sync.rs` 1848): the call succeeds and the registry names the window the pane
  was in before, until the next update. `RegistryFollows` excepts these panes.
- Choice of the window. `find_best_window` asks for the window and the session of
  a pane in two queries and takes a pane whose session it is not told
  (`sync.rs` 500), so the target window can be one of another session: the
  `slipped` of `TargetIsSound`.
- Overflow. The guard "can't stash the last pane" counts the panes of the
  columns (1903); when one of them could not be moved to the window, the
  window's last pane can be stashed (hence the exceptions of `WindowSurvives`
  and `SyncConverges`). The overflow stash asks neither `protect_pane` nor the
  registry.
- Focus. A selection the operator makes during a passive call is undone by its
  restore; the guard after DETACH goes back to the operator's pane even when
  the call has just stashed it (the exception of `StashStaysHidden`); a call
  without focus selects the first pane. When the target window's panes have all
  died, panes are joined next to a wanted pane wherever that is; an operator's
  pane that goes to another session's window with them is not shown again by
  the restore (`sync.rs` 684-716; the `Foreign` of `SyncIsFocusNeutral`, which
  the proof found). A file named twice whose binding changes between its two
  lookups keeps the first pane as its owned one and the last in the columns, so
  the focus pane need not be among the columns (`FocusPane \in Wanted` of
  `FocusIsShown`).
- Resolution. A file the resolver answers `None` for counts as unmanaged when a
  window is emptied, although the comment says "truly unmanaged" (1017);
  `target_window` is empty when no wanted pane is in the chosen session.
- Registry, JSON. `register` and `unregister` take no lock (`main.rs` 121), so
  they undo what others have saved since they loaded. A crash between truncation
  and write leaves a registry no later operation can load. In a snapshot scope a
  prune can drop the entry of a live pane.
- Registry, SQLite. The CLI's `register` and `unregister` load and save without the
  lock here too, and this backend is their default (`main.rs` 14): a save of
  theirs puts back what others have removed since its load and takes away what
  they have added, and a prune or bind of the library does so with what they
  write between its own load and save (the `raced` of `SaveSparesOthers` and
  `PruneSparesBound`). A lookup of a name that is the key of one entry and the
  path or session_id of another, live document answers the document's pane
  (`registry.rs` 619). A row without a key, which loads skip as survivable
  (`registry.rs` 583), makes every save fail (655). `update_window_for_entry` takes no lock on this path
  (`registry.rs` 709), so a concurrent save writes an older window back; the row
  of an upsert for a key without document can be deleted by such a save; a key
  whose document is closed is never found by its entry; a lookup can miss a key
  the actor binds between its two queries. The migration adds columns it has
  not found, which two processes can do at once.
- Snapshot. `kill_session`, `join_pane`, `swap_pane`, and `kill_pane` of a
  window's last pane leave a stale listing in a scope (`tmux.rs` 1203, 800).
  `auto_start` looks for a session and creates it later (1559).
- Move policy. A query of a session that fails, also of a pane that is there,
  allows the move (`pane_policy.rs` 12, 90): the `erred` of `DeniedStaysHome`.
- Streams. `wait_for_event` discards events a later wait may want; a line that
  is not UTF-8 ends the reader (`control.rs` 225); a second pipe of a pane
  replaces the first, and dropping the first guard stops the second. That a pipe
  was started does not say that its shell could open the file (`hybrid.rs` 187);
  `StreamIsWhole` takes that for granted.

## 5. Fairness

- `Sync` (`FairSyncSpec`): the steps of a call, because it is sequential code
  that never waits; the next call, because the editor polls; busy panes become
  free. Nothing makes a pane die or a join fail.
- `RegistryLock`: weak fairness of each thread's attempts (the scheduler), of
  `Tick`, and no infinite number of acquisitions within one unit of time
  (`NotZeno`). That an attempt fails with another error is not relied on, and
  nothing makes the owner of a guard drop it: `AcquireReturns` holds against an
  owner that never does.
- `RegistryFile`: `WF_vars(Proceed(t))`: a thread in an operation is scheduled.
  Where the lock is taken, `RegistryLock` bounds the wait.
- `PaneStreams`: the reader thread, the owner in a wait or a drop, and the clock
  go on. Nothing makes the client write, exit or answer.

## 6. What is proved

All theorems hold for every value of the constants that the named ASSUMEs
allow: special values are not members of the sets they are used beside; panes
are finitely many; a call has columns, none of them empty and no pane in two
places; a session starts with panes in the target window, the geometry of
exactly these, and in every window one of its panes selected; heights are
naturals; a notification that is not `%output` has another name. The inputs of
every run are checked against them.

Of the 40 properties of the passing runs 33 are theorems.

**`LayoutProofs`: lemmas about the operators.** Columns are sequences of
sequences of any length, so their facts need induction, and the library's
induction theorems take an operator the provers cannot instantiate. `Least`,
`Induction` and `Recursion` state what is needed of the naturals with sets and
functions instead. On them rest what `Retained` keeps and in which order
(`RetainedPositions`), where `FlattenSeq` puts each entry (`FlattenPlaces`),
and the geometry: `Lays(cs, P)` says that the columns `cs` have each pane of `P`
in one place and nothing else, and there is a lemma for every operator of
`TmuxLayout` and every join flag (`JoinsLay`, `RemovalsLay`, `ReplacedLay`,
`ArrangementsLay`, `LaysFlat`, `NonEmptyLays`).

**`ReconcileProofs`: `Reconcile`.** First what each wrapper of `TmuxServer` does
to any server: it moves no pane but its own, kills none, keeps the types, keeps
the named stash windows of living panes. Then three invariants.

- `IInv`, whatever goes wrong: `TargetKept`, `BusyStays`, `EvictedAreStashed`,
  `RegistryFollows`, `LossIsReported`. None is inductive by itself. `IInv` adds
  why a decision stays safe until it is carried out: `SwapReady` and
  `StashReady` (what was read in the step before still holds, or a pane has
  died), `LeftUnwanted`, `NextReady`, `FirstStays` (REORDER never moves the
  first pane), `PathKept` (which return a step can still lead to), `SeenReady`;
  `EvictedSafe` and `RegistrySafe` (but for scattered panes and missed updates),
  `SwapDone` and `NoLoss`, the properties at every step instead of at the end; and `Geometry`, the columns lay out exactly
  the panes of the window.
- `Settling`, what each step has achieved as long as the call is `Calm`:
  `FullRunSettles`, from any geometry of any number of panes. `Attached`,
  `AllIn`: ATTACH brings the panes in one by one and nothing takes them out
  again. `Detaching`, `Detached` (`Quiet`: and `Target` is not a stash itself):
  what DETACH has not visited is what there is left to stash, but for busy
  panes. `Breaking`, `Rejoining`: REORDER leaves the first pane alone in its
  window and rebuilds the columns to `Built(cols, m)`, those of the call up to
  its m-th pane; the proof follows the flag and the anchor of each join
  (`LeftLays`, `InOrder`). `Returned` says what the early returns leave.
- `Facing`, what is on view: windows are consistent (each shows one of its
  panes), a pane about to be selected with its window is in no stash window
  (`ActivateReady`), and a remembered focus is where it was taken
  (`GuardReady`). With it `StashStaysHidden`, a property of steps.

**`ReconcileProofs`: `Sync`.** Every step of `Sync` is one of `Reconcile`, one
that changes nothing `Reconcile` has, or one of `Beyond`; so the invariants carry
over, and `SyncInv` adds the order of the stages (`SyncOrder`) and `Going`: `IInv`
and `Settling` until reconcile returns, then `Rest`, which says of a calm call
that the panes left in the columns are in the window, and that after a deferred
swap there is one more that is not wanted. Hence `WindowSurvives`: both loops of
the overflow stash stop before the last pane of the columns. `Shown` follows the
selection of an explicit call (`FocusIsShown`), `Neutral` the operator's of a
passive one (`SyncIsFocusNeutral`), and `SyncFacing` is `Facing` with the
selection of phase 6 (`StashStaysHidden` again, of the whole call).

**`ResolveProofs`.** `FocusIsOwned` and `PolicyRespected`, from `Owned` (what Phase
1 found, what was captured for the focus and what a file has that may not borrow
is the file's own, whatever has been lent since); `SparesAreFree`, from
`SparesFree` (what is to be lent is no file's); `WindowIsLeft`, from `WindowKept`
(the window has two panes when one is about to be stashed), with two facts
about cardinalities; `CallIsLegal`, from what deduplication keeps
(`ColumnsLegal`: the first place of each pane, in its column, in order);
`OnlyUnmanagedEmptied`, from `Answered` (a registered file that Phase 1 has passed
has a pane or is unresolved, and either rules the emptying out);
`TargetIsSound`, from `Located` (the panes found are alive as long as nothing
happens) and `Searched`, which follows find_best_window query by query: the window at
hand and the best so far are of the session unless their pane slipped away, and
as long as nothing happens every pane already asked for that is in the session
has given a window.

**`PaneStreamsProofs`.** Types; `OutputIsExact`, from `EventsRead` (every event is
the parse of a line) and `RoundTrip`: decoding undoes the escapes for any
sequence of bytes, the decoder's position being at the start of an escape after
every round; `StreamIsWhole`, from `SoleGuards` (a guard that shares its pane with
no other has the pane's pipe); `ErrorComesLast`, from what the owner is owed: the
events in the channel are the parses of the first of the lines owed (`Ahead`);
as long as the reader reads, the rest is what is still to be read (`Behind`); and
when it has stopped, nothing is left or a line that is not UTF-8 is the next
(`ReaderDone`).

**`RegistryLockProofs`.** Exclusion (`LocksOfGuards`: the kernel's locks are those
of the guards), the bound of the wait (`SleepsWithin`: the sleep that is left
ends within it), the heartbeats (`SilenceBounded`; no run checks them), the
truth of the flag and with it the refusal of nested acquisitions (`FlagInv`),
and the refinement of `Mutex` with the guard's thread as owner.

**`RegistryFileProofs`.** Types; `NoStaleSave` (all writers lock), `LiveSpared` (all
writers lock and there are no scopes: a prune never drops the only entry of a
live pane), `PruneThorough` (all writers lock), and, without torn writes, the refinement of `AtomicRegistry`
in which a registry that is being written counts as written. The invariants:
the thread in an operation owns the lock and its copy is the file's content
(`LockInv`), entries only name panes that were created (`PanesKnown`), a
prune's list covers the live panes of its copy (`SnapshotsCover`), and a torn
file is being written (`TornIsBeingWritten`).

**`RegistrySqliteProofs`.** Types, `SaveSparesOthers`, `PruneSparesBound`,
`LookupAgrees`. Only statements that take no lock run while another thread
owns it (`OwnsLock`), and those, but for the actor's, leave the pane of every
key as it is, or are a register, an unregister or the metadata of a key without
document, which put the thread into `raced`. So the copy of a bind has the panes of the table but for its
own key (`CopyHasOthers`); the copy of a prune the actor has not disturbed
keeps an entry of every live pane (`PruneKnows`); and a lookup's first answer
still holds (`AskedInVain`), whichever of the rows that a name matches answers. That the steps of others keep what a thread
knows is one lemma for all of them.

**`PanePolicyProofs`.** Of the snapshot: types, `FollowsOwnChanges`, `OneView`, from:
what the thread knows is true (`KnownIsTrue`), an operation that drops the
listing first has none until it probes (`DroppedFirst`), and the listing
follows at every step but between a placeholder and its join
(`ListingFollows`), and what probes have answered from is what is cached
(`SeenIsCached`: only a drop by the thread and the end of the outermost scope
take a listing away). Of the policy: a move is a step of the snapshot, so that what
is proved of the snapshot holds in moves too, and `DeniedStaysHome`, from: the
listing and the answers agree with the panes that have not drifted, and an
answer is missing only of a pane that is gone or has `erred` (`PolicyInv`).

Only model-checked: liveness (`SyncConverges`, `AcquireReturns`,
`OperationsReturn`, `CallsReturn`), which needs fairness and is out of the
prover's reach; the properties of `StashCommands`, not attempted yet; and of
course the violation.

## 7. What is not modelled

Left out for good: argument parsing and printing of the CLI, `send_keys`,
`capture`, `TmuxBatch`, `IsolatedTmux` and the discovery of the binary, the
fields of control-mode notifications no property tells apart, the table of
harness strategies, the text of lock errors (who holds the lock) and the set-up
and migration of the SQLite schema: they keep no state the properties are
about. Two whole calls of sync at once are not modelled: in `Reconcile` and
`Sync` each wrapper is one step, with panes dying, joins failing and the operator
selecting between them. `StashCommands` shows what can come between the commands
of the wrappers that stash and kill; those of `auto_start` are in `PaneSnapshot`.

## 8. Running it

In this directory: `tlasany M.tla` parses, `tlc -config X.cfg M` checks a
run of `PROJECT.json`, `tlapm MProofs.tla` checks the proofs. The longest run
takes less than three minutes on two cores.
