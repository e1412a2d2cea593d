# certorail in TLA+

certorail runs a Python program written in a small subset under a policy: the program is
analysed first, then run in a jail, and everything it does outside the jail goes through a
broker that asks the policy again. Confined tools see the file system through a FUSE view that
shows and lets change only what the policy grants. This directory holds a TLA+ model of the
system: the parts that several parties work on at once, and the analysis and the decisions that
have to be right for every program and every policy; with the TLC instances that check it and the
TLAPS proofs about it.

## The system and its parts

| part | source | state it keeps | operations | what must hold |
|---|---|---|---|---|
| View daemon | `viewdaemon.py` | `lock` and `lease` files, the mountpoint, the pid file | attach, close, the daemon's life and its tick, `view stop` | nobody is given a view on its way out; one decision at a time; every run is answered; daemons go when unused |
| Filtered file system | `fuseview.py`, `folding.py` | inode table, key index, kernel reference counts, handles | the FUSE handlers, beside other processes on the backing tree | the table is exact, closed and visible; content and names change only where they may |
| Broker channel | `broker.py`, `markers.py`, `host.py` | a socketpair, one request at a time, a watcher thread, a child or an exchange upstream | call, serve, work, hang up, close | a reply meets its call; outside work belongs to the call that waits; hangups and nothing else cut it |
| Installation | `control/install.py`, `control/apply.py`, `policydir.py`, `integrity.py` | the configuration directory: checkers, rulesets, policies | install a pack or a policy, edit, apply, find, load, execute a checker | documents find their checkers; what loads goes on loading; what was pinned runs |
| Locations and facts | `analysis.py`, `footprints.py`, `locations.py`, `locspec.py`, `terms.py` | immutable facts | order, join, extend, concatenate, entail, overlap | what is known of a value is true of it; a sink stays inside what is granted |
| Guards | `guards.py` | none | recognize a condition, refine a fact | the same, for values that passed the condition |
| Walker, enforcement | `walker.py`, `enforcement.py`, `summaries.py`, `effects.py` | the state at a program point, the summaries | branch, loop, try, call, check, kill | no fact survives what may falsify it |
| Policy decisions | `policy.py`, `templates.py`, `broker.py` | a policy, a call under way | allow, select, bind, compose, re-check, redirect | one rule decides; the broker agrees with the analysis; effects are foreseen; hops are re-authorized |
| Policy files | `policyfile.py`, `schema.py` | documents | apply, deny, override, load | composition is what the documents say |
| Subset recognition | `safepy.py`, `dangerous.py`, `immutability.py`, `annotations.py` | none | one check per AST node | |
| Jails and back ends | `sandbox/`, `childjail.py`, `selfjail.py`, `sbpl.py` | none | lower a policy to mounts, seccomp, Seatbelt | |
| Reports, set-up | `describe.py`, `explorer.py`, `lint.py`, `control/init.py`, `session_hook.py` | none | print | |

A run goes through all of it. The host finds and loads the policy that governs its directory
(`policydir`, `policyfile`; *calls* and files only), provisions the view (`viewdaemon.attach`; it
talks to other runs and to the daemon through two `flock` files and the mountpoint), checks the
program (walker, enforcement, policy: calls, no shared state), opens the channel and starts the
program, serves its requests on a thread of its own (a socketpair, one frame at a time, with a
watcher thread beside the work), and releases the lease on the view when the program has ended.
Confined children use the mounted view through the kernel (FUSE requests), while other processes
change the tree beneath it.

What is hard about it, and therefore modelled:

- *Concurrency without a common lock.* Runs, daemons and `view stop` share a mountpoint; tools and
  runs share the configuration directory; the view's tree belongs to everybody.
- *State read at one moment and used at another.* The probe of a mount and the lease on it; a
  directory scan and the continuations of `readdir`; the policy a tool validates and the tree it is
  placed in; the checker whose pin is verified and the one that is executed.
- *Kills.* A run, a spawner, a daemon or a tool may be killed between any two steps.
- *Hangups and timeouts.* A call that timed out, a program killed while a request upstream is on, a
  host that leaves while its broker works.
- *Counting.* The inode table counts lookups the kernel will take back in any number and order.
- *Approximation.* The analysis keeps facts through branches, loops, calls, concatenations and
  guards; losing one that holds costs convenience, keeping one that fails costs everything.
- *Two deciders.* A call is decided over what is known before the run and again over the strings of
  the run; a request is decided once more at every redirect.

`PROJECT.json` lists every component with what is and is not modelled of it, and every hazard at
its line with the properties that would catch it.

## The modules

| module | what it is |
|---|---|
| `ViewLease` | abstract: a view shared under leases, retired only when there is none |
| `ViewDaemon` | `viewdaemon.py`: runs, daemons and `view stop` over lock, lease, mounts and pid file |
| `ViewDaemonProofs` | theorems about `ViewDaemon` |
| `FuseView` | `fuseview.py`: the inode table, the filter, the kernel and the backing tree |
| `FuseViewProofs`, `FuseWriteProofs` | theorems about `FuseView`: its table; what is changed through it |
| `Calls` | abstract: one call at a time, taken up once, answered with its own answer |
| `Broker` | the channel of one run: `markers.py`'s end, `broker.py`'s serving and watching, `host.py` around it |
| `BrokerProofs` | theorems about `Broker` |
| `Install` | the configuration directory: installing, editing, applying, finding, loading, executing |
| `InstallProofs`, `InstallTurnProofs`, `InstallLoadProofs` | theorems about `Install`: whoever works at once; while tools take turns; of what is loaded meanwhile |
| `Locations` | languages of texts and locations: their orders, joins, extension, overlap |
| `Facts` | the expression domain: facts, atoms, concatenation, paths, traversals, entailment, sinks |
| `Guards` | conditions over a variable or a view of it, and what they establish |
| `Values` | a value under all of `Facts` and `Guards`, beside what is known of it |
| `Walker` | the dataflow walk: states, kills, summaries, statements |
| `WalkerRun` | an adversarial execution of a program the walk accepted |
| `Template` | command templates: holes, flag sets, binding, composition |
| `Policy` | policies: what may be said, which rule governs, what it writes, the two decisions |
| `Decisions` | one policy and one call, from the document to the last hop |
| `DecisionsProofs` | theorems about `Decisions` |
| `MCViewDaemon`, `MCFuseView`, `MCBroker`, `MCInstall`, `MCValues`, `MCWalker`, `MCDecisions` | instances for TLC |

`Values` extends `Guards`, which extends `Facts`, which extends `Locations`; `WalkerRun` extends
`Walker`; `Decisions` extends `Policy`, which extends `Template`. `ViewDaemon` implements `ViewLease`
and `Broker` implements `Calls`.

In every module a definition marked *Mutant* is the one that follows it with a bug somebody might
write; it is used by no specification and exists to show that the properties notice.

### ViewDaemon

One key (a key is a hash of what its daemon serves; keys share nothing). `rpc[r]` is where run `r`
is in `attach()`: it asks for the lock (`Request`, `AcquireLock`), probes the mountpoint (`Probe`),
recovers a dead view (`RecoverUnmount`, a `fusermount3` by path some time after the probe, then
`Reprobe`), spawns a daemon and polls for it (`Spawn`, `WaitLive`, with `Unavailable` for the deadline,
the daemon that failed and the spawn that did), takes the lease and lets the lock go (`TakeLease`,
`Unlock`), uses the view and closes its attachment (`Use`, `Detach`), after which it stands for the next
run. A run killed while its `fusermount3` is on leaves that process behind (`OrphanUnmount`). `dpc[d]` is where
daemon `d` is in `serve()`: `Mount`, `WritePid`, `Serve`, then the one-second tick that tries the
lock without waiting (`TickLocked`, `TickRefused`), tries the lease and decides (`Stay`, `Retire`),
and the way out, which is the order that matters: `Unmount`, `TruncatePid`, `Exit`. `mounts` is a
stack, since a second daemon mounts over the first. `CrashRun` and `CrashDaemon` kill a process, and
the kernel then releases its locks; a dead daemon's mount stays and is stale. Clocks are left out: a
deadline may pass whenever its wait is on.

### FuseView

`nodes` and `byKey` are `View.inodes` and `View.by_key`, as functions of a table `t` so that a
handler can admit several entries; `known` and `dentries` are what the kernel holds; `tree` is the
backing file system, whose inode numbers are used again. The handlers have no `await`, so each is one
action: `Lookup`, `Forget`, `Make` (create, mkdir, symlink), `Link`, `Rename`, `Unlink` (unlink,
rmdir), `Open`, `Write`, `Release`, `Setattr`, `Opendir`, `Scan`, `Readdir`, `ReaddirFails`,
`Releasedir`. `OutsideMake`, `OutsideRemove`, `OutsideLink`, `OutsideMove` are other processes, which ask
nothing: they link and remove also what the view holds open. `opened` has the open descriptors, each with
a history `lent`: the names others gave its file while it was open for writing. The
filter (`Readable`, `DirVisible`, `Visible`, `MayWrite`) is the one of `Rules`, over paths of at
most two names. `Fold` is the folding of the file system below.

### Broker

One run: `host` is where `_run` is, `prog` the program, `serve` the broker thread, `work` the child or
the exchange upstream, `watcher` the thread that selects on the client's socket meanwhile. `ends` is
the set of descriptors open on the program's end -- the child's, the one the program inherits and the
duplicate `_BrokerChannel` works on -- because a hangup is the end of all of them. Requests are
`exec`, `net` (followed hop by hop up to `MAX_REDIRECTS`) or `huge` (over the frame limit); whether
the policy permits a request is left open.

### Install

`tree` is the configuration directory, and every read and every `os.replace` is a step of its own. A
process does one command at a time: `InstallPack` / `LoadPack`, `InstallPolicy` / `CheckClaims` /
`CheckPins`, `Edit` / `SaveDraft`, `Apply` / `ReadForApply`, or `Run`; all of them but the first load
a document with `ReadRuleset` (one application of `_apply_one`, with its chain and its seen table) and
`ReadEvaluator` (one validation's checker, read once); all tools end in `CheckConflicts` and
`PlaceNext`. A run executes the bytes it read (`RunCheck`). `Kill` ends any of them anywhere. Three
history variables say what has happened so far: `turns`, no two tools were at work at once; `calm`, nor
was any asked to replace anything; `ousted`, the roots whose policy was replaced by one for another root.
Nothing in the code forbids any of it, and the properties that need it not to happen say so.

### Locations, Facts, Guards and Values

`Values` is one variable of a program: `val`, the str or path it holds, and `fact`, what the analysis
knows of it. Each action is an operation of the subset with a transfer function, applied to both
sides: `Concatenate` (f-strings and `+`, the reader `_Spelling` of `analysis.py`, whose states are
`Dead`, `Start`, `AfterSplat`, `Boundary`, `Open`), `Construct` (`pathlib.Path(...)`), `Join`
(`os.path.join`), `Divide`, `ToStr`, `Guard` (an assertion that was true: the whole of `guards.py`'s
`recognize` and `apply`), `List`, `ListNames`, `Descend` (`iterdir`, `glob`, `rglob`, `os.listdir`,
`os.walk`), `Display` (a loop over a display, hence the joins) and `Rely` (a parameter with a contract,
hence `entails`). The concrete side is pathlib and os.path as documented: paths are resolved against
`Cwd`, and no directory is a symbolic link.

A location is a prefix of components, anchored at the sandbox root or at `/`, exact or with a `**` and
perhaps a last component below it (`StaticPath`, `DirSplat`); `Denotes` is `locspec.matches`. A
`PseudoRegex` keeps its seven forms; a regular expression of the program is opaque.

### Walker and WalkerRun

A program is a tree of statements, every statement with a label. The walk is a set of operators on the
walker's registers `w`: the state `st`, the kill `seen` since a rehearsal began, the facts `at` each
label, `ok`. `VisitIf`, `VisitWhile`, `VisitFor`, `VisitTry`, `VisitWith`, `VisitMatch` and the rest are
the `visit_` methods; `KillOf` is `enforcement.kill_of`; `Rehearse` and `EveryIteration` are the walk of
a loop body for its kill alone; `Fixpoint` is `_compute_summaries`. An entry of the state is a fact
about a text, a tracked container, a handle (`Data`) or a standard value (`Std`), with `closed` for the
one inside which no program object can be. `ModuleConstants` is what a function body starts from. A call of
a generator function kills what its body would and gives a program object (`IsGenerator`, `Summarize`).

`WalkerRun` executes what the walk accepted, one step at a time: values are the texts, `Prog` (a function,
a generator, an instance: code of the program), `Plain` and heap objects; `truth` holds the
environmental atoms that are true of a text, and a write spoils every one that reads what is written.
Program code called from somewhere the walk cannot see does its worst: it spoils everything and puts
itself into every object it can reach. Any expression may raise after its effects. The names a pattern
captures are bound before the guard and stay bound when it fails (`Tried`). A call of a generator
function only makes the generator, which is program code where it is iterated over; its body is not run
between its yields.

### Template, Policy and Decisions

A value is the set of texts it may be and how it is read (as text, as a URL, not at all), and a string
is a value of one text, so that one definition of binding and checking serves the analysis and the
broker, as one function does in the code. `Decisions` takes a policy as written through `Load`
(`Policy.allow`: refuse or resolve), `Decide` (the static check of a site), and then by the kind of the
call through `Exec` or `Check` (any strings the values allow; the broker binds them again and composes
the argv) or `Request`, `Hop`, `Answer` and `Redirect` (the loop of `_execute`).

## What the runs check

| run | instance | states | question |
|---|---|---|---|
| `view` | 2 runs, 2 daemons, 1 `view stop`, 1 kill, a run that ended followed by the next | 391 000 | Does the protocol implement `ViewLease`, take decisions one at a time, give a run a mounted view, keep one mount and one pid, unmount only the dead while spawners stay, answer every run and let every daemon retire? |
| `fuse_table` | 2 names, 2 inode numbers, 4 inodes, 2 lookups each, others make, remove, link and move | 328 000 | Is the table exact, closed, keyed and visible? |
| `fuse_scans` | the same with an open directory, others make and remove | 650 000 | Does the table cover what the kernel holds, and is it visible, while a directory is read in several calls and some fail? |
| `fuse_writes` | the same with an open descriptor, others make, remove and link, names all told apart | 242 000 | Do content and names change only where they may? |
| `broker` | 3 calls, 2 redirects, kills and interrupts | 2 900 | Does the channel implement `Calls`, does outside work serve the call that waits, does only a hangup cut it, does an orderly run leave nothing behind, does every call return? |
| `install` | 2 tools, 1 run, 3 jobs, 4 packs, 3 drafts, 2 roots in one bucket, no base ruleset to begin with | 253 000 | Do documents find their checkers, do pinned bytes run, does a root have one claimant, does a run get the policy it found, is what was loaded file by file what one tree says, does what loads go on loading? |
| `facts` | 54 values with what is known of them, 2 operations, 13 operands, some 300 conditions, 3 policies | 121 000 | Is what is known of a value true of it, and does a permitted sink touch only what is granted? |
| `facts_splat` | the same, a splat glued onto a splat too | - | (violated) The first of the two |
| `walker` | 4 000 accepted programs | 559 000 | Is what the walk says so, in every execution? Do summaries cover calls, and are two rehearsals enough? |
| `walker_stale` | a `for` over a container its body spoils | - | (violated) The first of these |
| `decisions` | templates, words, pairs of network rules, redirects: 4 families | 411 000 | Does the broker accept what the analysis did, are options only what was admitted, does one rule govern, are effects foreseen, are hops re-authorized? |
| `decision_effects` | requests to one of two hosts, redirects to others | - | (violated) Is every effect foreseen? |

### Bounds, and why they are enough

- *View.* The protocol is about a run and a daemon, or a run and the run before it; two of each let a
  second daemon mount over the first, a run meet the daemon of another, and a daemon mount between another
  run's probe and its unmount. A run that ended begins again, so sessions follow each other without end. A third party of a kind
  meets the lock as the second does. One kill is placed anywhere; the second kill adds a state in
  which there is nobody left to be wronged. All of it but the liveness is proved for any number of parties.
- *Fuse.* Two inode numbers and two names are the least with which a number is used again for another
  entry, a file has a second link, and a name is taken by a different file; the paths `a`, `b`, `a/a`,
  `a/b` contain a writable, a protected and a hidden place. Four inodes in the table let an old
  inode outlive its successor. A count of two tells a last forget from another. Others' `move` is left
  to `fuse_table`: with a scan it multiplies the states beyond five minutes.
- *Broker.* Three calls: one whose reply may be late, the one that would read it, and one after the
  channel is dead. Two redirects pass and one does not.
- *Install.* Three jobs: a pack, a policy that needs it and a run, or two tools racing beside a run,
  or a replacement under a run. The packs pin, replace and apply each other, and one brings the first base ruleset and a
  ruleset that it applies and that is placed behind it; the drafts need a pack,
  need a checker that is not installed yet, and claim another root of the same bucket.
- *Facts.* Texts of at most five characters, one of each shape the domain tells apart: empty, `.`,
  `..`, climbing, absolute, with a separator at either end or two inside, with a leading dash,
  differing in case only. Two operations put every transfer function after every other; more of them
  only repeat, as each begins from a fact of the same few forms. Random walks of five operations find
  nothing but the divergences listed below.
- *Walker.* One compound statement with every pair of small blocks in its branches, between a prelude
  that gives the variables their meanings and a use: a fact is wrong after a statement when it is wrong
  after one of its branches, and what is nested is walked by the same visitor. Blocks nest where the
  code treats nesting (a handler in a loop, a branch in a loop, a loop with a break). Two functions that
  may call each other are the least for a fixpoint of more than one round. `MaxObjects` and `MaxControl`
  bound heap and recursion; beyond them the run raises, which a run may always do. The longest prelude
  makes three of the five objects, so a statement after it can make a list, a sorted copy, a comprehension or a
  handle and use it.
- *Decisions.* Pairs of rules are what overlap is about. Hosts have an organization and two hosts
  under it, URLs each vary one part; templates have up to three pieces and calls up to three arguments;
  a container holds none to two elements (fewer than a hole asks for, as many, and one more); two
  redirects pass and one does not. What the broker accepts, and by which rule, is proved for all of these.

`CHECK_DEADLOCK FALSE` is said where the system really ends (all runs are over, no job is left).

### Fairness

`ViewDaemon`: a process that can take its next step takes it; a run queued in a blocking `flock` gets
it if it is free again and again (strong fairness: the kernel queues waiters, and holders are short);
the daemon's non-blocking tick comes every second, so it too is strongly fair -- it *is* a poll
between other holders, and one that always lost would need a run attaching in every tick for ever;
runs detach. Nobody need start, stop or crash. `Broker`: threads go on, work ends by itself or by its
timeout (`EXEC_TIMEOUT`, `total_timeout`) as long as there is a host to keep the time, the host waits
for the program. The program need not call or exit. `FuseView` and `Install` have no liveness: no
handler waits for another, and no tool for another tool.

### What the passing runs leave out

The passing instances of `facts` and `walker` do not contain the forms of the violated runs, or forms
near them on which the code is known to be wrong; they are excluded by name:

- `Plainly` (`MCValues`): a located text is concatenated only when it is spelled as its location is
  replayed (see divergences 7 and 9), and no text under the sandbox root is glued onto another located
  text (`facts_splat`).
- `Lexically`: a value is joined below another only when it does not climb and has the anchor its
  location has (divergence 10).
- `MCConditions`: a condition that tells the text is not asked of `str(PurePath(x))` (divergence 8),
  and one that tells there is no leading dash not of `os.path.normpath(x)` (divergence 9).
- `MCPrograms` (`MCWalker`): no `for` over a tracked container that its body spoils, no exception from
  a handler or an else block before a `finally` that uses what it changed, no write handle that went
  through a list, no list extended by a generator (divergences 11 to 13), no name captured by a case whose
  guard fails and used afterwards (`Captured`, divergence 20), no `while` header in a function that runs
  program code only from the second time on (`LateHeader`, divergence 21).

And some properties name the case they do not speak of, each of which does occur in its run and breaks
the property when the exception is dropped:

- `RunsUnmountOnlyDead`: `Attended`, no spawner was killed or gave up early and nobody stopped a view
  (divergence 4). `LeasedViewIsUp` and `OneMountOnePid` are about `Undisturbed` behaviours.
- `ChangedIsWritable`: `lent`, the names another process gave a file while the view had it open for
  writing (divergence 19).
- `OneClaimant`: `turns` (divergence 18). `GovernedByItsOwn`: `turns` and `ousted` (divergence 22).
- `StaysLoadable`: `calm` and `BaseArrives`, the step that places the first base ruleset (divergence 6);
  `LoadedFromOneTree`: `calm`, and of a run `BaseKept`, since a run composed before that step is composed
  without it.

`NamesAreWritable` is checked where all names are told apart (`Exact`); under folding it fails
(divergence 6).

## Where the code and what it says of itself differ

Three have a run (`PROJECT.json`, "findings", quotes both sides):

1. `facts_splat`: text glued onto a located text is given a location when it is located itself.
2. `walker_stale`: a `for` over a tracked container keeps on its target a check the body spoils.
3. `decision_effects`: what a request writes is read off the rules that admit every host it may go to,
   not off the rules one of which it falls under. Hops are not counted either: a redirect sends a
   request under another rule, whose writes kill nothing.

These are reached by the models too; the property named is stated in the module, and adding it to the
cfg shows the behaviour:

4. `OneDaemonPerView` (`View.cfg` with no `Stoppers`): a spawner killed while it waits frees the lock
   before its daemon has mounted; the next run spawns a second one, and the two mount over each other
   (`viewdaemon.py:258`, against `1-2` and `27-28`). `RunsUnmountOnlyDead` without `Attended` (`View.cfg`):
   a recovery finds a dead view, a daemon whose spawner gave up early mounts over it, and the recovery's
   `fusermount3 -u -z`, which goes by path, takes the living mount (`viewdaemon.py:252-254`, against
   `27-31`, by which a crashed spawner leaves nothing to clean up and what is unmounted is a dead mount).
5. `TimeoutHangsUp` and `NoChildOutlivesTheRun` (`Broker.cfg`): a timeout closes the duplicate only, so
   the broker sees no hangup and works on (`markers.py:282`, against `239-240`); and the host closes its
   end under a broker about to start a child, whose watcher then dies on the closed socket
   (`host.py:289`, against `broker.py:15`).
6. `NothingOutlivesTheKernel` (`FuseTable.cfg` with `MaxScans = 1`): a `readdir` that fails half-way
   leaves references nobody will forget (`fuseview.py:383`, against `294-295`). `NamesAreWritable`
   (`FuseWrites.cfg` with `FoldedNames`, `Folding`, `Everything`, `ButN`): on a folding file system
   `unlink`, `rmdir` and the source of `rename` do not ask for the stored spelling (`fuseview.py:462`,
   against `19-20`). `StaysLoadable` without `~BaseArrives` (`Install.cfg`): a pack's `base.toml` lands
   before the ruleset it applies, and until that is there no policy with a base loads, for good if the tool
   is killed in between (`control/install.py:254`, against `7-8` and `246-247`: "the tree is loadable at
   every instant in between").
7. A located str that ends in `/` is replayed without it in a concatenation (`_Boundary.finish`).
8. What is told of the text of `str(PurePath(x))` is taken for the text of `x` (`_guard`,
   `guards.py:253`), though `x` may hold `./` or `//`; `guards.py`'s docstring says that an unmatched
   form costs precision and never soundness.
9. `not-option` is kept through `os.path.normpath`, and derived for a located value from its first
   component, while the text of the value may be `-a/../b`.
10. A resolving guard (`p.resolve().is_relative_to(base)`) locates `p` without asking that its text does
    not climb; `b / p` and `f"data/{p}"` are then located as if it did not.
11. An exception in a handler or in an else block reaches `finally` with a state the walk does not join
    (`walker.py:1519-1525`).
12. A write handle read back out of a list, or returned by a function, writes unseen.
13. Iterating a program object by `+=` on a list is taken for no call (`walker.py:1075`); guards of
    `match` cases are not visited (`1537-1556`).
14. `exec_command` does not refuse arguments beyond a flat rule's words (`policy.py:1412-1415`), which
    its docstring says it decides; the static check does (`469-471`).
15. A `readdir` continuation admits a directory under the identity of the scan (`fuseview.py:311`,
    `382`) although the descriptor it opens may be of another by then.
16. `attach()` reports the view unavailable when the deadline passes and leaves a daemon to come up
    and idle out, where its docstring says nothing is left half-done.
17. `integrity.py:22-26` and `36-39` describe `verify_pinned` as called before every execution; nothing
    calls it. The pin is verified at load against the bytes that are later executed, which is the
    stronger thing, and `PinnedBytesRun` is about that.
18. Two installations at once may both pass the conflict check (`install.py:96`) or the search for
    claimants (`install.py:307`) before either has placed its file, and an edit overwrites what an
    `apply` placed meanwhile. `OneClaimant` is stated under `turns` for that reason.
19. `ChangedIsWritable` without `lent` (`FuseWrites.cfg`): another process links a file that the view holds
    open for writing under a protected name, and the view goes on writing it (`fuseview.py:534-536`, which
    asks nothing, against `28-29`: "A file with several names cannot be written through the view"). A link
    the view itself makes is refused then, and is not excepted.
20. A name captured by a case whose guard fails keeps the fact it had (`walker.py:1540-1547` forgets the
    captures of the case taken only): `FactsHold` with `Captured` in `MCPrograms`.
21. A `while` header that first runs over nothing and later runs what the body put there: the real walk of
    the body starts from a kill that covers it, but the header is not visited after it (`walker.py:1380-1386`),
    so in a function the call's summary misses it, against the comment at `1377-1378`:
    `SummaryCoversTheCall` with `LateHeader` in `MCPrograms`.
22. `GovernedByItsOwn` without `ousted` (`Install.cfg`): between `find_policy` and `load_policy_file` a
    `policy install --replace` puts a policy for another root of the bucket in the place of the one found,
    and the run is given it under the prefix of the old one (`host.py:329-336`).
23. The walker has no visitor for `yield`: a check made in a generator before a `yield` is kept after it,
    whatever the consumer did meanwhile. The models do not run a body between its yields.

## Proofs

`ViewDaemonProofs` proves about `ViewDaemon`, for all sets of runs, daemons and stop verbs and every
bound, from the one assumption `PartiesAreDistinct` (runs and daemons are different processes, and
nobody is none of them):

- `TypeCorrect`: `Spec => []TypeOK`, action by action; the only work is in `mounts`, whose lemmas
  say that unmounting and mounting keep it a sequence of daemons.
- `LockInvariant`: `Spec => []IInv`. None of the properties is inductive: that a retiring daemon
  has no lease beside it rests on who holds the lock, and that on the program counters. `IInv` is
  `TypeOK` and `LockInv`: a run is deciding
  exactly if it holds the lock; a daemon that is deciding or retiring holds it; a daemon that holds
  it is deciding or leaving; and one that holds it and is leaving has no lease beside it. With that
  each step is local: who takes a lease holds the lock, so no daemon holds it, so none is leaving.
- `RetirementIsSafe` and `DecisionsAreExclusive` are its consequences.
- `ProtocolImplementsLease`: `Spec => ImplementsLease`, under the mapping `holders <- lease`,
  `retiring <- a daemon holds the lock and is leaving`. A lemma per kind of process maps each of its
  steps to a grant, a release, the begin or end of a retirement, or a stutter.
- `OneViewAtATime`: `Spec => []AttendedInv`, what more is true as long as every spawner stays with its
  daemon and nobody stops a view (`Attended`; daemons may be killed at any time). One daemon at most is
  alive, and `mounts` and the pid file say what its state says (`DaemonInv`); a run that recovers or spawns
  has no daemon alive beside it, and one that waits only the one it spawned (`KnownInv`): whoever
  mounts has a run waiting for it, and that run holds the lock.
- `RunsTakeDownOnlyDead`: the action property `RunsUnmountOnlyDead`. The unmount has no guard of its own:
  that what it takes is dead, although it goes by path some steps after the probe, is `KnownInv`.
- `LeftAlone`: `Spec => []AloneInv`, what more is true while nothing is killed either (`Undisturbed`, the
  hypothesis of the checked properties: once it is false it stays so): a run that decides knows what is
  there, one serving when it takes the lease. `LeasedViewsAreUp` and `OneMountAtATime` follow.

`FuseViewProofs` proves about `FuseView`, for any names, inode numbers, filesystem section, folding
and bounds and whatever other processes do, from `SectionIsSane` (the root is no other directory, the
folding is a function on names, there are finitely many names and inode numbers, the bounds are
numbers):

- `TableInvariant`: `Spec => []IInv`, in three parts beside the types. `Sound` is about a table alone:
  it is closed, and each inode is recorded at a visible place. `Covers(c)` is about counts: the
  reference count of an inode is `c` of it plus the files recorded in it, where `c` is at least what
  the kernel knows and nothing is counted of what is not in the table. `RefsCover` alone is not
  inductive, and `c = known` is not true: a `readdir` that fails has counted entries the kernel never
  hears of, so the invariant says only that some `c` exists. `HandlesInv` says that an open directory
  is held and that what its scan kept is visible, so an entry admitted much later is, too.
- The work is in lemmas about tables, of which a handler makes several in a row: `DropResult` (a file
  that goes lets its directory go), `AdmitResult` (one lookup of one inode more, and a file pins its
  directory), `MovedResult` (a rename counts the old directory down and the new one up, and the old
  one may be the same or go), `AdmitAllResult` (a whole reply). The recursion of `AdmitAll` is over the
  length of the reply, not over data: that its function exists, and what it keeps, is proved by a least
  counterexample.
- `TypeCorrect`, `ClosedTable`, `VisibleTable` and `CountsCover` follow. `CountsAreExact` (`RefsExact`)
  has the hypothesis of the run that checks it, `MaxScans = 0`: with no directory read `c = known` is
  kept by every step, and with one it is not (divergence 6).

`FuseWriteProofs` proves, from the same assumption, what the view is for: `OnlyWritableChanges`
(`ChangedIsWritable`) and `OnlyWritableNames` (`NamesAreWritable`). Both say what they ask of the
world, as the run does: `NoFolding` (divergence 6 is what happens otherwise) and that others make,
link and remove, what is open for writing too, but do not move (a directory moved away keeps the path it
was recorded under, and `fuseview.py` says so). Reading directories is not excluded. The invariant `WInv`: every open directory has at most
one name, the one it is recorded under, and is the root if it is recorded there (`PlacedIn`);
only directories in use have entries, and each has one name (`TreeInv`); a file open for writing has
only names that may be written and names `lent` to it by others since (`WriteInv`). `Shrinks` is what every change of the tree has in common:
a directory somebody knows stays one and gets no names, so no entry comes to lie elsewhere. `FoundInPlace`
is why it matters that a descriptor is opened by name: whatever is there by then is where that
name says.

`BrokerProofs` proves about `Broker`, for any number of calls and redirects and with no assumption
but that the bounds are numbers, all its safety properties:

- `TypeCorrect`, and `ChannelInvariant`: `Spec => []IInv`. `WorkServesTheCall` is not inductive: a
  reply is for the call under way because there is one request at a time (`OneRequest`: nothing is
  queued behind the request being served), because work and its watcher belong to it (`WorkInv`),
  because nothing is left between two calls (`BetweenCalls`), and because a call that is on has its
  request in one place: on the way, being served, answered, or lost with the broker (`InCall`).
  `EndsInv` says who holds the program's end, hence when there can be a hangup.
- `RepliesAndWorkServeTheCall`, `HangupIsTheOnlyCut` and `OrderlyRunsEndClean` are its consequences.
- `ChannelImplementsCalls`: `Spec => ImplementsCalls`, each step being a call, its taking up, its
  answer, its failure or a stutter.

`InstallProofs` proves about `Install`, for any tree, packs, policies, processes and number of jobs,
whoever works at once and whoever is killed, from assumptions that say the shape of the data
(`NamesAreOrdered`, `ConfigIsTyped`, `PacksAreTyped`, `NoneIsNoDocument`) and that the tree to begin
with is sound (`TreeIsSound`: its documents find their checkers and no two of its files claim a root):

- `TypeCorrect` and `DirectoryInvariant`: `Spec => []IInv`, in four parts. `TypeInv` is `TypeOK` with
  the records spelled out; `PhaseInv` says which command a process can be in at each point and what it
  has to place; `ClosureInv` that what it has yet to place needs only checkers that are
  installed, that it has yet to read and would fail without, or that it places before; `PinInv` that
  what was read and may be executed was compared with its pin.
- `CheckersComeFirst` (`ClosureKept`): a document is placed after its checkers, and an installed
  checker is replaced but never removed (`InstalledStays`), so a check made before any number of
  steps of others is still good. `PinsHold` (`PinnedBytesRun`): the bytes compared are the bytes
  executed, so what happens to the file between does not matter.

`InstallTurnProofs` adds what holds while tools take turns, replacing what they like:

- `TurnInvariant`: `Spec => []TurnInv`, that is `IInv` and, while `turns` (`TurnsInv`): one tool is at work
  at most; the file an edit or an apply works on goes on claiming the prefix it was found for, and keeps it
  when it is saved; nothing else comes to claim the root a policy is being installed for; and the file a run
  found claims its prefix until it is read, whatever a tool beside it writes, unless a policy for another
  root was put there, which `ousted` then says. While `calm` nothing replaced is anything else (`CalmInv`,
  `AddsPolicy`). `ClaimantsAreSingle` (`OneClaimant`) and `RunsAreGoverned` (`GovernedByItsOwn`) follow.
  `FindResult` is the lemma about the search: it ends at the one file that claims a prefix, or, for a run,
  with the defaults; `HistorySteps` and `TurnSteps` say what one step makes of the history.

`InstallLoadProofs` proves the two properties that compare a load spread over many steps with a closure
in one tree, `OneTreeIsLoaded` (`LoadedFromOneTree`) and `PoliciesStayLoadable` (`StaysLoadable`), of any tree
and any packs, those that bring a base ruleset to a tree without one among them. Such a placement changes at
once what every policy with a base needs; it is the one step `StaysLoadable` excepts (divergence 6). The
proof has four parts:

- While `calm`, every step but `BaseArrives` only adds to the tree (`CalmExtends`): a pack without `--replace` places a file where
  there is none or the same (`AddsOnly`), and of two files it brings none takes the other's place
  (`PackData`). In such a tree a policy that loads goes on loading (`LoadsStay`), because all it reaches is
  there already: what is added is reached from nothing that loads.
- A load follows the tree (`Follows`): what it has read is there as it was read, and what the document
  needs and it has not read is pending. The hard part is that no loop escapes, since a ruleset that was
  read before is passed over unseen and the chain of a pending ruleset is all the code knows of how it
  came there. `Walks` says why: the rulesets read either are on the path to the one to be read next, ranked
  by their place on it, or are finished. A chain is the path down to some depth; what a ruleset on the path
  applies is finished, further down or pending. Each finished ruleset has a certificate: a set of finished
  ones, closed under what is applied, that holds what it applies and not itself. The certificate stands
  for the induction over the graph that the prover cannot do: `Finishing` makes one for each ruleset
  that leaves the path, `Descending` and `PassingOver` keep them, and at the end (`WalkEnds`) they say that
  no ruleset reaches itself.
- When the first base ruleset arrives (`BaseStays`, `BaseLoad`), the tool that places it is the only tool at
  work, so no other load of a tool is under way; runs may be, and of them nothing is asked from then on
  (`BaseKept`). What a tool loads later starts from the base.
- `LoadInvariant`: `Spec => []LoadInv`, that is `TurnInv` and, while `calm`, the above for every process:
  a load follows the tree, and what was loaded would load again, up to its placement or the end of the run.
  TLC checked `LoadInv` on an instance of the run `install`, with its tree and packs, before it was proved.

`DecisionsProofs` proves about `Decisions`, for any tokens, URLs, hosts, policies, calls and number of
redirects, from assumptions about the shape of what it is given: the words of a command, the labels of
a host and the pieces of a template are sequences, rules and effects have the fields the code gives
them, a policy has finitely many network rules and a template finitely many holes, `min` is not negative
(`schema.py:360`), what a keyword is given is a value, a display or a container, and `not-option` is not defined again
(`DefinedAssumption`, `PartsAssumption`, `CasesAssumption`).

- `OneRule`: `Spec => []OneRuleGoverns`. The state plays a small part (`PolicyLoaded`: after `Load` the
  policy is `Resolved(w)` of a policy `w` that is `Allowed`); the rest is that the refusals of
  `Policy.allow` are enough. `HostsThatMatchOverlap`: two suffixes of one host are comparable, so
  `HostsOverlap` sees them; `RulesThatMatchOverlap`: with scheme, port, method and path, whatever two
  rules match, they overlap; `SpelledWordsCompare`: words that the same arguments spell are comparable,
  so being prefix-free leaves one.
- `HopsHeld`: `Spec => []HopsReauthorized`, by `HopInv`: what was sent stays, and after the first
  request what is asked for is a URL. `HopShowsItsAtoms` is the core: a rule that admits a hop has no
  stop left and misses nothing it re-checks, so each atom it does not waive is shown by the URL.
- `RunInvariant` adds `CallInv`: the request under way is one the analysis accepted, the first one sent
  is of a string the call allows, a spawned command was composed under a rule its strings select, and
  nothing accepted was refused. `ForeseenCommand` and `ForeseenRequest` follow, and `ForeseenRule` puts
  them together: `RuleForeseen` holds of every command and of every request whose URL can name one host
  (`NamesOneHost`). The hypothesis is needed: with two hosts, a rule that admits one of them is not
  among those whose writes are taken together (divergence 3).
- `AcceptedCalls`: `Spec => []AcceptedCallsRun`. It compares two runs of one algorithm, over what the
  analysis knows and over the strings, function by function in the order of the code. `Strung(vs, ss)`:
  the strings `ss` are what the values `vs` turn out to be. `NothingUnshown`: whatever a value carries of
  the textual atoms every string it may be shows (`InstancesShow`), so no re-check fails where the
  analysis passed. Each recursive function over a list is unfolded into the places of the list (a lemma `...Exists`
  for each) and compared from the end (`Backward`): `FlagHeadsAgree`, the head of the positionals that a flags
  hole takes; `ExpansionsAgree`, the bundles spelt out; `FlagsKnownAreShown`, a list of flags read;
  `PresentFlagsAgree`, the flags it names. The bundles are the hard ones: an unknown value could turn out
  to be a bundle, and then the broker would expand what the analysis did not. What saves it is
  what the analysis reads afterwards: at each flag it reads a known word, so `ExpandStep` carries the reading
  of the result along (`ReadPast`), and what is not known stands only where a flag takes its value.
  Then `PositionalsAgree` (the holes filled one by one, `Forward`), `FilledTurns` (keywords, bundles), `HoleAgrees` and
  `DemandsAgree`; with `OneRule` the broker finds the same rule (`StringsSelect`), so what it composes is
  not refused. A check needs only that its name is declared once.
- `AdmittedOptions`: `Spec => [](TellsOptionsApart => OptionsAreAdmitted)`. A third recursion, the tool's own
  reading of the argv (`ScanExists`), is laid against the one that composes the argv (`SpellingExists`), from the last
  piece back (`ReadPiece`, `OptionsOffered`): from the start of any piece with no literal `--` before it, the tool
  reads no more than the template offers. It passes over the tokens of a hole, which the broker has shown not to
  begin with a dash (`ShownUndashed`, `ScanPastTokens`), and it goes through a list of flags in step with
  `FlagsOk` (`ScanPastFlags`): a flag that takes a value takes the one the broker checked for it, so the
  reading is never out of step where the next piece begins. `CommandInv` keeps, of a spawned command, the bindings
  of both runs it was composed from, and `DemandsCarried` brings what the flags demand of the cwd back to what the
  analysis found. `TellsOptionsApart` asks that the flags holes of the template have one vocabulary
  (`OneVocabulary`), that none of its own words is a flag of it, and that the program is not called `--`
  (`PlainWords`). With two vocabularies the property has no tool to speak of; a word of the template that is a
  flag with a value would take the first token of the hole after it, which `templates.py` does not look at. All
  templates of the runs satisfy it.

`MayFallShort` is the one exception `AcceptedCallsRun` makes, and the code makes it knowingly: how many elements a typed
container holds is not known before the run, so `min` of its hole is left to the broker
(`hole_failures`, `templates.py:633-655`; "`min` (checked at runtime for a container)",
`plugins/certorail/skills/certorail-policy/reference.md:315`). Containers of none to two elements are among the strings
of a run, so TLC finds `AcceptedCallsRun` violated without it.

Only model-checked: `RuleForeseen` of requests to one of two hosts, everything about `Values` and
`Walker`, and all liveness, which (with ENABLED) is beyond the prover. Likewise induction over data, and
whatever needs a RECURSIVE operator: `Walker` (the walk of a tree), and `Locations`, `Facts`, `Guards` and
`Values` (overlap of patterns, nested alternatives, globbing) declare some.

## Not modelled

The recognition of the Python subset (one syntactic test per AST node: a model would transcribe it),
the jails and sandbox back ends (they lower a policy to calls into the operating system whose effect
is the system's), reports and set-up (input and output), shipped rulesets (data), and the composition
of policy documents (`policyfile.py`: a fold of edits on lists of rules; which documents are read and
in which order is in `Install`).

Within the modelled parts:

- *View, fuse, broker, install:* handlers of the view that change nothing, contents of files and
  frames, bindings of rulesets and everything in a document but its checks and applications, notes,
  the layout before `policy/`, and `policy edit --policy FILE`.
- *Facts and guards:* readings of URLs; what a regular expression matches; symbolic links; the `//`
  root; parsing and printing of locations. `os.walk` and `glob` descend one level in an action.
- *Walker:* the body of a generator between its yields, classes and their methods (an instance is a program
  object), async forms, `del`, `global`, the annotation checks, and which names are sinks, checks or inert.
- *Decisions:* deadlines, size caps and headers; name resolution between the screening and the
  connection; the jail a command gets. `not-option` stands for the built-in atoms.

## Plan

1. *Done:* `ViewDaemon`, `FuseView`, `Broker`, `Install`; the proofs about `ViewDaemon`; then the
   analysis and the decisions: `Locations`, `Facts`, `Guards`, `Values`, `Walker`, `WalkerRun`,
   `Template`, `Policy`, `Decisions`.
2. *Done:* the rest of the proofs about `ViewDaemon`; the proofs about `FuseView`, `Broker` and
   `Install`, at last that of loading file by file.
3. *Done:* proofs about `Decisions`: one rule governs, hops are re-authorized, effects are foreseen,
   what the analysis accepts the broker does not refuse, and no token is taken for an option.
4. *Left:* properties of the state operations of `Walker` that need no induction over trees.
