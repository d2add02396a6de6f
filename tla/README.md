# A verification of Lophilo

Lophilo is an ARM board with an FPGA and the software around it: kernel drivers
that sample pins and hand the samples to user space, a node.js addon and wrapper
on top of them, an oscilloscope demo, and `npm2debian`, which turns npm packages
and everything they depend on into Debian packages for the board.  This directory
holds TLA+ models of the parts with logic of their own, TLC configurations that
check them on small instances, and proofs that TLAPS checks.

    tlasany M.tla                        parse a module
    tlc -workers 2 -config X.cfg M       model-check (X.cfg belongs to module M, see "Runs")
    tlapm M.tla                          check the proofs of module M

## 1. Inventory

| Part | Source | State | Operations | Talks to |
|---|---|---|---|---|
| Character device driver | `cdev/lophilo.c` | the page `loldata`, the wave's `dir`, the kfifo `updates`, the wait queue `fifo_wq`, the hrtimer | load, unload, timer callback, open, mmap, read, poll | readers by system calls; mapping processes by shared memory |
| Netlink driver | `kmod/{module,timer,data,netlink}.c` | the page, `timer_1s`, the netlink family, `sender_pid`, `sender_net`, `sequence` | load with rollback, unload, timer callback with `lophilo_notify`, `lophilo_register` | observers by netlink messages |
| Observer | `kmod/{client,observer}.c` | socket, family id | connect, register, receive loop | netlink driver |
| Mapping of the netlink driver | `kmod/mmap.c` | none of its own | mmap | netlink driver's page |
| Node addon | `lophilo-node/src/lophilo.cc` | `source_to_cb`, the event loop's queue, the message thread | init, register, update, after | `client.c` (linked in), node's event loop |
| Node wrapper | `lophilo-node/lophilo.js` | a read stream | configure, watch | the character device; its users by events |
| Oscilloscope, server and page | `demos/oscilloscope/{app.js,public/client.html}` | sockets, listeners on 'update', the page's last time stamp | connection, update, `process_data` | node wrapper; the time series |
| Chart | `demos/oscilloscope/public/smoothie.js` | points and bounds of each series, the series on the chart, an interval timer | append, reset of the bounds, add, remove, stream, start, stop, render | the page's event loop |
| Dependency walk | `npm2debian/dumpversion.js` 11-32, 158-220 | `tree`, `dependencies`, `alreadyQueued`, the global `currentDepth`, requests under way | request, answer, failure | the npm registry by HTTP |
| Pipeline of npm2debian | `npm2debian/dumpversion.js` 76-150, 226-370 | `tree.json`, `dependencies.json`, `pkgnames.json`, `Makefile` | read or walk, debianize, name, write | walk; `lib/cli.js`; the file system |
| Debianization of a package | `npm2debian/lib/cli.js` | the package's directory | fetch, control files, semver conversion, links | npm, debchange, dh_make |
| n2d | `n2d/tree.js` | - | - | does not parse |
| Scripts | `bin/` | disks, mounts, a flag file | backup, consoles, activation | rsync, ssh |
| Rest | builds, toolchains, `hwdb`, `docs`, `tests`, `node-tutorial`, vendored `node_modules` | - | - | - |

What makes them hard, and what must hold:

* **Character device.** The callback runs in interrupt context and works on the
  page and the kfifo without a lock; readers work on the same kfifo in process
  context.  The ring of 32 updates is no multiple of the 3 updates of a tick.  A
  reader tests the kfifo, sleeps and copies in three separate steps.  The page must
  outlive the timer, the callback and every mapping.  Correct means: a reader gets
  the updates in order, each once, losing only what came while the ring was full,
  and never a reading beside another tick's time stamp; it wakes up; a read returns
  0 for no other reason than a buffer without room; nobody touches a freed page.
* **Netlink driver.** Two variables name the observer; the callback clears them
  while a registration sets them.  Loading is a chain of steps with a rollback.
  Correct means: nothing is left behind by a rollback or a removal, the timer
  never meets a freed page, a registration holds until its observer fails, counts
  arrive without gaps.
* **Dependency walk.** Answers come in any order, graphs have cycles, requests
  fail.  Correct means: the walk ends, every package is requested once, and a walk
  that ends well has described every dependency and listed it at a depth the later
  steps find.
* **Oscilloscope.** Readings and their time stamps travel as separate updates through a
  queue that loses some, a stream cut into reads, sockets that close and reopen, and a page
  that is loaded anew; listeners of closed sockets stay.  Correct means: a point has the
  time stamp of its own tick, is appended once and in order, and points keep coming.
* **Chart.** Appending, the reset of the bounds and the deletion of old points happen
  at times of their own.  Correct means: what is visible is never deleted, what is not is
  deleted in the end, and a point that is there is drawn, to scale or at the edge it is beyond.
* **Addon.** Three kinds of threads share the callback map and the event loop's
  queue; the registration is sent before its callback is known.
* **Version ranges.** `lib/cli.js` rewrites semver's ranges into one Debian relation.
  Correct means: it never excludes a version that npm accepts.
* **Pipeline.** Failures are gathered and dropped, files written separately are
  read as a set by the next run, a run may be killed between or within any of them.
  Correct means: the files agree, no run takes half-done work for done, a lookup of
  `writeMakefile` does not fail, a run ends.

`PROJECT.json` lists these at their lines under "hazards", with the properties that
watch over them or the reason there is none yet.

## 2. Modules

| Module | What it is |
|---|---|
| `UpdateStream` | abstract specification: a queue that loses what does not fit |
| `LophiloDevice` | `cdev/lophilo.c`; implements `UpdateStream` |
| `LophiloDeviceProofs` | its theorems |
| `LophiloStreamProofs` | that it implements `UpdateStream`, and the time stamps |
| `LophiloKmod` | `kmod/` with its observers |
| `LophiloKmodProofs` | its theorems |
| `DependencyWalk` | the walk of `dumpversion.js` |
| `MCDependencyWalk` | the small registries it is checked on |
| `DependencyWalkProofs` | its theorems |
| `NpmToDebian` | `execute()` of `dumpversion.js` with `debianize` of `lib/cli.js` |
| `MCNpmToDebian` | the small registry it is checked on |
| `NpmToDebianProofs` | its theorems |
| `SemverToDebian` | the conversion of version ranges in `lib/cli.js` |
| `MCSemverToDebian` | the small fields it is checked on |
| `SemverToDebianProofs` | its theorems |
| `Oscilloscope` | `lophilo.js`, `app.js` and the page, over the queue of `UpdateStream` |
| `OscilloscopeProofs` | its theorems |
| `SmoothieChart` | `smoothie.js` |
| `SmoothieChartProofs` | its theorems |

Operators named "Mutant of ..." are not part of the models.  Each is a plausible slip
that can be put in place of the definition it names, to see that a property notices.

### LophiloDevice

`mod` follows `lophilo_init` and `lophilo_cleanup` statement by statement; `page` is
what `loldata` points to; `value`, `dir` and `tick` are the sample and its time stamp;
`irq` is the callback's program counter (`TimerFire`, one `PutUpdate` per `kfifo_put`,
`WakeReaders`).  The kfifo is `slots`, `out` and `len`, where `len` is the unsigned
difference `in - out`, wrapping at `IndexMod`, so that a ring whose `out` overtakes its
`in` shows as it would in C: as an enormous length.  A reader's `pc` goes through
`wait_event_interruptible` as the kernel defines it (queue, look again, sleep) and
through `kfifo_to_user` in two steps (settle the size and copy, then move `out`).
`poll` shares the first part.  `Close` gives the file up; a mapping holds it, and with it the
module, until `Munmap` (`Referenced`), so that unloading, loading again and a mapping without
an open descriptor all occur.  `O_NONBLOCK`, which a process may set between calls, is a
choice of `ReadCall`.

Abstracted: a time stamp is the number of its tick modulo `TickMod`; the ring is smaller
than 32 but, like 32, no multiple of 3; the wave is shorter than 360; buffer sizes are
counted in updates (`kfifo_to_user` hands out whole ones); `Skip` blanks the slots it
passes.  Left out: a `kmalloc` that fails and an `mmap` of a wrong size, which change
nothing.

External, modelled from how the driver uses them: the kfifo, the wait queue, the module
reference count, hrtimer's promise that `hrtimer_cancel` waits for a running callback.

### UpdateStream

A queue of at most `Capacity` updates.  `Accept` and `Lose` say that an update is lost
exactly when there is no room at the moment it is offered; `Take` hands over the oldest
ones; `Spoil` loses some to a bad buffer.  `LophiloDevice` implements it for one reader
by the mapping `queue <- Front(len)`, `due <- ` the next update of the callback.  `handed`
records the last two updates given to the reader.

### LophiloKmod

`step` is the label or call `lophilo_init` or `lophilo_cleanup` has reached, so a failed
set-up and a removal run through the same cleanup steps, as in `module.c`; `data`,
`family`, `timer` and `chrdev` are the parts set up.  (`lophilo_map_init` cannot fail and
`lophilo_map_cleanup` does nothing: they are no steps.)  `cb` follows the callback through
`lophilo_data_update`, `lophilo_notify` and the re-arming; clearing `sender_net` and
`sender_pid` are two steps, as setting them in `lophilo_register` is.  An observer
connects, registers, receives and exits; its socket holds `RcvBuf` messages.  Two history
variables: `owner` is the observer whose completed registration nothing has ended, `unsent`
says that the last count was not announced for want of memory, and the next message
carries it along as `gap`.

Abstracted: counts modulo `CountMod`; the sequence number, the attributes and the acks,
which nobody looks at; a registration is valid, as `observer.c` sends it.  External: the
netlink layer (port per socket, `doit` called inside the sender's `send`, one at a time,
failing unicast), `del_timer` and `mod_timer`.

### DependencyWalk

One action per way a request can end: `Answer` runs `processDesc`; `FaultyAnswer` throws
in `updateTree` after the package was listed; `RequestError` rejects; `Unparsable` throws
out of the HTTP handler, which ends the process.  The promises appear only through their
effect: the walk has ended when nothing is pending, well unless something failed.  The
registry is a function from names to sets of names, chosen at the start; versions and the
difference between the two kinds of dependencies do not matter to the walk.

### NpmToDebian

`phase` is where the promise chain of `execute()` is; a file is absent, torn or whole, and
`writeFile` is two steps, since it empties a file before it fills it.  `tree`, `deps`,
`pkgNames` and `recorded` (`nameToPackageName`) are the process's memory, lost at its end.
Each package of the tree has a `job`, its `debianize`, that goes through `makeSourcePackage`
beside the others and may fail at every step; `debianize` swallows the error, so the job
counts as settled.  `Crash`, the end of the process, may come at any point; it keeps what was
written (a power failure need not, as nothing is synced, and is not modelled).  Runs follow one another, over a registry
that may change between them.

`DependencyWalk` is the first stage, seen from outside: `Walk` ends well with what
`WalkCorrect` proves of it, the same closed set of packages in the tree and the dependencies;
`WalkFails` leaves any part of them, while `LateAnswer` still adds to it.  The failure goes on
to the next handler of the chain, which is the one meant for names that cannot be read;
`fellThrough` is a history variable that says this has happened, and `missed` one that
keeps whose debianization failed last.

Abstracted: a tree, dependencies or names are the set of packages in them (versions and depths
do not decide which step comes next); the parts of `debian/` are made in one step.  Left out:
the stand-ins that `main` installs when the work directory is called `test`.  External:
`fs.writeFile`, npm's cache, the commands run, the end of the process.

### SemverToDebian

A range is a set of comparators, a field of `engines` a set of ranges; `Edge` is the chain of
replacements that turns a comparator into a relation, `semverToDebian` the loop around it,
and `ReadPackage` the step of `makeSourcePackage` that calls it.  `Accepted` and `Satisfied`
are what npm and dpkg make of the two sides, over versions in one common order.  External:
the parsing of the field and the two programs' readings of it.

### Oscilloscope

`queue` is the device, by instance of `UpdateStream`: on one processor the three updates of a
tick are offered at once, and a read of 64 KiB takes all there are.  `server` is the
process of `app.js` with its read stream; `listeners` are the listeners on 'update' of open
sockets and `dead` counts those of closed ones, which `app.js` never removes; `wire` holds
the messages on the way to each page, `page` the page's variables.  `Data` is the whole chain
from the read to the `emit` of every listener, since node runs it without a break.  `forEach`
is the page's loop over a batch, as a recursive function, with `process_data` for each update.

Abstracted: readings pass unlooked at, so in place of its value an update has its tick's
mark, 0 for most and 1 and 2 for two of them; the identifiers of the sources are their names.
`drawn` is a history variable, the marked readings the page has appended.  Left out: the
page's counters of skipped points and points per second, and the text of the time stamp.
External: socket.io (an open socket delivers in order; a closed one drops), supervisor.

### SmoothieChart

A point is kept with its age, since where it is drawn and whether it is deleted depends on
nothing else; `phase` is the browser's clock modulo a pixel, to which `render` rounds.
`ResetBounds` is the series' timer and `Render` the chart's; `AppendPoint`, `AddTimeSeries`,
`RemoveTimeSeries`, `StreamTo`, `Start` and `Stop` are calls the page may make at any time.
`onTick` is the function `streamTo` makes and `timer` the one that is running, which need not
be the same.  `Empty` is the early return of `render`, by the bounds of the series;
`ScaleMax` and `ScaleMin` are the scale, which the options fix as far as they are given:
`client.html` gives both, 0 and 360.  `ToScale` and `Place` are the height of a point, rounding
included.  `Highest`
and `Lowest` are what the loops with `Math.max` and `Math.min` compute, over the points of a
series or the series of the chart; that these loops compute them is proved (`LoopHighest`,
`LoopLowest`).

Abstracted: grid, labels, styles and curves.  Left out: `maxValueScale`, which is 1 as the page
does not give it.
External: the clock, and that the board's clock is not set back while it samples.

## 3. Runs

| Run | Module | Checks | Instance |
|---|---|---|---|
| `device_up` | LophiloDevice | TypeOK, InWave, NoEmptyRead, PollTruth, StampedByOwnTick, ImplementsStream | one processor, one reader, buffers of 0, 2 and 4 updates, bad buffers |
| `device_smp` | LophiloDevice | NoUseAfterFree, FifoIntact, NoLostWakeup, ImplementsStream | several processors, one reader, buffer of 3 |
| `device_live` | LophiloDevice | SleeperReturns, WaveHeals | one processor, signals, a process that stores 0, 2 and the largest word, removals and loads |
| `device_two_readers` | LophiloDevice | NoEmptyRead is **violated** | two readers |
| `kmod` | LophiloKmod | TypeOK, NoUseAfterFree, NothingLeftBehind, OwnerKept, NoGap, OwnerNotified | one processor, two observers, failures, removals, shortage of memory |
| `walk` | MCDependencyWalk | TypeOK, LevelsContiguous, WalkClosed, ListedOnce, WalkEnds | all 14641 graphs over four packages with at most two dependencies each |
| `walk_levels` | MCDependencyWalk | RightBelowDependent is **violated** | the packages of `dumpversion_test.js` |
| `pipeline` | MCNpmToDebian | TypeOK, NamesAgree, NamesFound, BuiltUnlessMissed, NamesAreFinal, RunEnds | a target alone, with a dependency, with `serve` |
| `oscilloscope` | Oscilloscope | TypeOK, StampedOnPage, OnceInOrder, UpdatesArrive | one page, a queue of 5, three messages under way, two dead listeners |
| `chart` | SmoothieChart | TypeOK, DrawnToScale, LineKept, OldPointsGo | two series, three points, a fixed scale, readings on it, above and below |
| `semver` | MCSemverToDebian | Installable, ExactForSingles | three versions, two ranges of two comparators |
| `pipeline_names` | MCNpmToDebian | EveryPackageNamed is **violated** | the same |

### Why the bounds suffice

* `FifoSize = 4`: one tick fits and the next fits in part, which is the position 32 is in
  after ten ticks; every offset of a tick in the ring occurs.  `IndexMod = 8` is the
  smallest range in which a length beyond the ring can be told from a legal one.
* `Top = 1`, `WordMod = 8`: both turns of the wave, and a value below zero is far from it.
* `TickMod = 2` tells a tick from the one before; more than two are never in the ring of
  four.  Properties that do not speak of time stamps use 1.
* Buffers smaller than a tick, of a whole tick, and larger than one; an empty one where
  reads of 0 are the question.
* `RcvBuf = 2` has a first message, a last one and an overflow; `CountMod` exceeds it.
  Two observers: the registered one, which is also the one whose message is being refused,
  and the one that displaces it.  The safety theorems hold for any number.
* Four packages are the test's own number; with two dependencies each there are chains,
  diamonds and cycles of every length.
* The pipeline needs two packages for a part of a tree and for debianizations beside each
  other, two registries of which one holds the other for files of different runs, and one
  with the package that is skipped.  The number of runs, crashes and failures is unbounded.
* Pages share nothing but the stream, which no page can hold up, so one page is enough;
  that a page must not get what another's listener sends, the dead listeners show, which
  are listeners of other sockets. A queue of 5 cuts the second tick where one of 32 cuts
  the eleventh: the time stamp fits and its reading does not. Two marked ticks make every
  pair of ticks. With three messages under way one waits behind another and there is room
  for the configuration. The bound on them holds the stream back, which the real server
  never does.
* A chart one pixel wide with pixels of two milliseconds has points that are on it, on its
  edge and off it at both phases; three points are the second one, which the loop tests,
  and one on either side of it.  Points are as old as the clock (0) or already off the chart
  (5) when they are appended; a point of age 5 is off the chart at both phases, and older
  ones are not told apart.  The scale is fixed, as the page's is, at 2 to 4, with readings at
  its middle and beyond both ends; three values tell a lost bound from a kept one.
* Two ranges of two comparators over three versions have every order of the bounds.
* Deadlock is checked in every run but `semver`, whose one step ends it.  No other state
  without a successor exists: the driver can always be loaded, or its timer fires, time
  passes, and a walk that has ended idles.

### Fairness

* Device: the timer interrupt is served and its handler runs to its end (`WF` on
  `TimerStep`), since nothing in it waits; loading goes on once `register_chrdev` is past;
  a task inside a system call is scheduled again and again.  On one processor each
  interrupt disables the task's steps for a moment, so this needs `SF`.  No
  process is assumed to make a call, to close its file or to stop.
  `WaveHeals` speaks of the wave while it is sampled: a removal that stops the timer
  leaves a stored reading as it is, in a page that is then freed.
* Netlink driver: the same, and an observer with a message in its socket receives it
  sooner or later.
* Oscilloscope: the device ticks, the server reads what there is, and a message on an open
  socket arrives.  Nobody is assumed to connect, to leave, or to start the server again.
* Chart: time passes and the event loop serves the chart's interval timer.  Points need not
  come, nor need the bounds ever be reset.
* Walk: every request is answered or fails.  `getPackagePromise` sets no timeout: this is
  what the code relies on TCP for.
* Pipeline: requests, commands and writes end, and the event loop goes on while it has
  callbacks (`WF` on `Work`).  Nobody is assumed to start a run or to leave it alone.

### What the violated runs show

1. *A read of 0* (`device_two_readers`).  The comment at `cdev/lophilo.c:109` says that a
   blocking read blocks while no data is available.  Of two readers woken by one tick the
   second copies from an empty kfifo.  Its read returns 0, which stream readers such as
   `lophilo.js` take for the end of the file.
2. *Depths* (`walk_levels`).  `dumpversion_test.js:7` lists both direct dependencies under
   depth 1.  The depth of an answer is read from a global variable that the answers before
   it have raised, so one of them is listed under 2.  `LevelsContiguous` still holds, which
   is why the later steps do not notice.
3. *Names of half a tree* (`pipeline_names`).  `updatePkgNames` throws (`dumpversion.js:302`)
   rather than let a package without a name through.  A walk of which one request fails
   rejects past `readPkgNames` into the handler that debianizes; it debianizes the part of
   the tree there is and writes `pkgnames.json` for it, and `writeMakefile` fails at the
   first dependency without a name, in this run and, as the file parses, in every later one.
   The other properties of the pipeline therefore speak of histories in which this has not
   happened (`fellThrough` is FALSE): these include every crash, every failed
   debianization and every failed write but those of the tree and the dependencies.

Also seen, and not given a run of their own:

* A signal ends the wait of a blocking read, whose result is dropped (`cdev/lophilo.c:111`),
  and the read returns 0 from an empty kfifo (`Signals = TRUE` in `LophiloDevice`).
* One message that does not fit an observer's socket clears its registration; the observer is
  not told and waits for ever, though `docs/design.txt:7` says that user space is notified at
  intervals.  A second registration silences the first observer in the same way: `sender_pid`
  is one variable, and the multicast that would reach both is commented out.
* Listeners on 'update' of closed sockets are never removed (`app.js:27`).
* `removeTimeSeries` takes out the series added last, whichever it is given: `seriesSet` holds
  wrappers, `indexOf` finds none, and `splice(-1, 1)` removes the last (`smoothie.js:91`).
* `resetBounds || true` (`smoothie.js:42`) cannot be turned off, which the comment on its
  line says it can; and `render` returns at line 191 without the `restore()` that its comment
  at lines 120-121 announces, so each drawing of an empty chart leaves a saved state behind.
* `lophilo.js:32` puts a reading together with `<<`, whose result is signed: one that wrapped
  below 0, or any from 2^31 on, reaches the page as a negative number.
* The comparators of one range become alternatives: `>=0.4 <0.7` turns into a relation that
  every version satisfies (`cli.js:369-383`).  `Installable` holds all the same, `ExactForSingles`
  says for which fields the conversion is exact.
* A tree with `serve` in it is debianized without it, after which `updatePkgNames` throws for
  want of its name, so that no run over such a tree succeeds.
* `main` of `lib/cli.js` calls `debianize` without the dependencies that `prepareDebianizeParams`
  supplies; the exception is swallowed with all others of `debianize`.

## 4. Proofs

TLC checks the instances above; the theorems hold for all values of the constants that
satisfy the module's assumption (`DeviceAssumption`, `KmodAssumption`, `WalkAssumption`,
`PipelineAssumption`, `SemverAssumption`, `OscilloscopeAssumption`, `ChartAssumption`) and
the condition given.  They state every safety invariant and every action property that a
passing run checks, and the refinement of `UpdateStream`.

| Theorem | Property | Condition |
|---|---|---|
| `LophiloDeviceProofs!TypeCorrect` | TypeOK | |
| `LophiloDeviceProofs!WaveCorrect` | InWave | no stores through a mapping |
| `LophiloDeviceProofs!PageSafe` | NoUseAfterFree | |
| `LophiloDeviceProofs!FifoCorrect` | FifoIntact | one reader |
| `LophiloDeviceProofs!WakeupCorrect` | NoLostWakeup | one reader |
| `LophiloDeviceProofs!ReadCorrect` | NoEmptyRead | one reader, no signals |
| `LophiloDeviceProofs!PollCorrect` | PollTruth | one reader |
| `LophiloStreamProofs!Refinement` | ImplementsStream | one reader |
| `LophiloStreamProofs!StampsCorrect` | StampedByOwnTick | one reader, one processor |
| `LophiloKmodProofs!TypeCorrect` | TypeOK | |
| `LophiloKmodProofs!PageSafe` | NoUseAfterFree | one processor |
| `LophiloKmodProofs!CleanupComplete` | NothingLeftBehind | one processor |
| `LophiloKmodProofs!RegistrationKept` | OwnerKept | one processor |
| `LophiloKmodProofs!CountsContiguous` | NoGap | one processor |
| `DependencyWalkProofs!TypeCorrect` | TypeOK | |
| `DependencyWalkProofs!LevelsCorrect` | LevelsContiguous | |
| `DependencyWalkProofs!WalkCorrect` | WalkClosed | |
| `DependencyWalkProofs!ListedOnceCorrect` | ListedOnce | |
| `NpmToDebianProofs!TypeCorrect` | TypeOK | |
| `NpmToDebianProofs!NamesAgreeCorrect` | NamesAgree | in the property: ~fellThrough |
| `NpmToDebianProofs!NamesFoundCorrect` | NamesFound | the same |
| `NpmToDebianProofs!NamesAreFinalCorrect` | NamesAreFinal | the same |
| `NpmToDebianProofs!BuiltCorrect` | BuiltUnlessMissed | the same |
| `SemverToDebianProofs!InstallableCorrect` | Installable | in the property: no range is empty |
| `SemverToDebianProofs!ExactCorrect` | ExactForSingles | in the property: ranges of one comparator |
| `OscilloscopeProofs!TypeCorrect` | TypeOK | |
| `OscilloscopeProofs!StampsCorrect` | StampedOnPage | |
| `OscilloscopeProofs!OrderCorrect` | OnceInOrder | |
| `SmoothieChartProofs!TypeCorrect` | TypeOK | |
| `SmoothieChartProofs!LineCorrect` | LineKept | |
| `SmoothieChartProofs!ScaleCorrect` | DrawnToScale | |

The inductive invariants, which TLC finds to hold on the instances of the runs:

* *Device.* `Lifecycle` ties the timer, the callback and the mappings to the position in
  `lophilo_init` and `lophilo_cleanup`: `NoUseAfterFree` alone says nothing about which
  step may free the page next.  `FifoInv` adds to `FifoIntact` that only a reader between
  the copy and the commit holds a transfer; that a put keeps the transfer is
  `PutKeepsFront`, which rests on `RingInjective` (two positions less than a ring apart
  have different slots).  `CallInv` says what a reader's `pc` implies about the kfifo and
  the wait queue; `NoLostWakeup`, `NoEmptyRead` and `PollTruth` follow from it.  The
  condition "one reader" is used where one reader's step could empty the kfifo another
  one has seen filled: the very step of `device_two_readers`.
* *Netlink driver.* `Stages` ties the parts set up to the position in the set-up;
  `OwnerInv` ties `owner` to the two sender variables and to `target` while a message is
  being refused.  `Serving` says that only an observer that has sent its registration has
  messages, and that nobody is registered while the module is absent; `UpToDate`, that the
  registered observer's last message is the last count unless one went unannounced.  `NoGap`
  needs both: a count is appended after the last one, a displaced observer gets no more, and
  the counter starts anew only when nobody is registered.
* *Walk.* `LevelInv`: `currentDepth` is `maxDepth` or the next depth.  `ClosedInv`: what is
  queued is described or pending, unless something failed.  `OnceInv`: a pending package is
  queued and not listed.
* *Pipeline.* `FilesInv`: from `readPkgNames` on, memory and files hold the same tree and
  dependencies.  `WalkInv`: they are rewritten only while there is no `pkgnames.json`.
  `NamesInv` extends `NamesAgree` to the names in memory and the writes under way.  `JobInv`:
  debianizations are under way only while there are no names, and only of listed packages;
  with the test of `updatePkgNames` it follows that names and tree agree, since
  dependencies are within the recorded names, these within the listed packages, and
  these, by the lookups of `debianizeTree`, within the dependencies.  It is this circle that
  makes a tree and dependencies of different runs harmless.
  `BInv`, for runs that did not fall through: the names stand for packages that are built or
  were logged as failed, since they are written only when every debianization has settled, and
  no directory is touched from then on; the Makefile names no others.
* *Ranges.* `Converted`: the relation is the conversion of the field.  The rest is
  `EdgeMeaning`: a comparator and the relation made of it hold for the same versions.
* *Stream.* A put, a commit, a fault and a load are shown to be steps of `UpdateStream`
  under `queue <- Front(len)`, every other action a stutter.  A commit takes the oldest updates
  because, by `FifoInv`, what was copied is the front of the ring.  For the time stamps,
  `TickInv` says that a put that finds room follows, in the ring, the puts of the same tick
  before it: on one processor no reader runs between them, so what does not fit is the tail of
  a tick.  On several a reader makes room in between, and the invariant breaks.
* *Oscilloscope.* `StampInv`: a reading in the queue, and in every batch on its way, has its
  second and its microsecond right before it in the same batch.  It is inductive because a
  tick is cut at its end when there is no room, and because a read takes the whole queue; a read
  that took a part would break it, which is the mutant of the run.  `InOrder`: from the points
  drawn over the batches on their way to the queue, marked readings are of increasing ticks,
  none later than the last tick.
* *Chart.* `Sorted`: points are in the order of their ages.  It makes those that have left the
  chart an initial part of the list, so that the second point, which the loop tests, tells how
  far it may go.  `BoundsInv`: the bounds of a series have room for its points, so a
  series with a point has bounds and its chart is not `Empty`; deletion leaves bounds that are
  too wide, never none.  The rest is arithmetic: `ScaledWithin` (a part of a range, scaled and
  rounded, is within the height), `PlacedToScale` (a reading on the scale is off by half a pixel
  for rounding and half for the edge), `PlacedAtTop` and `PlacedAtBottom`.

Loops and induction.  The library's induction theorems take an operator as a parameter, which
no prover here can instantiate.  For a given property of a given loop there is another way:
`WFMin` gives a least number in every non-empty set of naturals (`LeastNumber`), and hence
`Reach`: a set that has 0 and, with every number below N, the next, has all up to N.  With the
set of the steps at which the property holds, this is induction over a loop.  The proofs about
`forEach`, about greatest and least values and about the deletion of old points use it.

Only model-checked: the liveness properties (`SleeperReturns`, `WaveHeals`,
`OwnerNotified`, `WalkEnds`, `RunEnds`, `UpdatesArrive`, `OldPointsGo`), which
TLAPS does not reach.

### Several processors

The board has one.  With `SMP = TRUE`, `device_smp` shows what survives all the same.
What does not: `StampedByOwnTick` (a reader makes room between two `kfifo_put` calls, so a
reading is accepted whose time stamp was dropped), and in the netlink driver
`NoUseAfterFree` (`del_timer` does not wait for a running callback, which then re-arms the
timer) and `OwnerKept` (a registration completes between the two clearing assignments).

## 5. Not modelled, and why

* `kmod/mmap.c`: a single `remap_pfn_range` without state of its own.  `map_fops` has no owner, so
  a mapping outlives the page when the module is removed; nothing says that it should not.
* The addon: every update calls `uv_queue_work` from the message thread, and the callback map
  is written by a thread of the pool while the main thread reads it.  Both are undefined, and
  `sanity.js`, the only user, spins in a loop so that no callback ever runs.
* The command line and the templates of `lib/cli.js`: parsing of options and text.
* The page's counters, `app.js`'s printing of addresses, and `String.js`, a vendored `sprintf`.
* `n2d/`: unfinished, `tree.js` does not parse.
* `bin/`: scripts of a few commands.
* Builds, toolchains, kernel configurations, `hwdb`, tutorials, tests, documents and vendored
  code have no logic of Lophilo's own.

## 6. Plan

1. Done: the device with its abstract specification, the netlink driver, the walk, the
   pipeline, the oscilloscope and its chart, the version ranges, and the theorems above.
2. The queue of `Oscilloscope` as an implementation of `UpdateStream` rather than an instance
   of its `Remove`, with a theorem that says so.
3. What survives on several processors as theorems of `LophiloKmod`, where the present ones
   ask for one.
