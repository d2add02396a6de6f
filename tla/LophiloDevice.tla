--------------------------- MODULE LophiloDevice ---------------------------
(***************************************************************************)
(* The character device of cdev/lophilo.c: a high resolution timer samples *)
(* pin XA0 (a triangle wave stands in for the pin), writes the sample with *)
(* its time stamp into a page that processes may map, and puts the three   *)
(* updates of the tick into a kfifo that processes read or poll.           *)
(*                                                                         *)
(* The timer's callback runs in interrupt context, the file operations in  *)
(* the context of the calling process.  On the board's single processor an *)
(* interrupt may preempt a process but not the other way round; SMP = TRUE *)
(* lets the two interleave, as they would on a multiprocessor.             *)
(***************************************************************************)
EXTENDS Integers, Sequences

CONSTANTS
  Readers,    \* the processes that use the device, one open file each
  FifoSize,   \* LOPHILO_FIFO_SIZE
  IndexMod,   \* the number of values of the kfifo's unsigned in and out
  Top,        \* the wave turns when the reading exceeds this (359)
  WordMod,    \* the number of values of a uint32_t
  TickMod,    \* bound: ticks are told apart modulo this number
  Counts,     \* buffer sizes of the read calls considered, in updates
  Stores,     \* readings a process may store through its mapping
  SMP,        \* TRUE iff there is more than one processor
  Signals,    \* TRUE iff a signal may reach a sleeping process
  Faults      \* TRUE iff a reader's buffer may be a bad address

ASSUME DeviceAssumption ==
  /\ FifoSize \in Nat \ {0}
  /\ IndexMod \in Nat
  /\ 2 * FifoSize <= IndexMod
  /\ Top \in Nat \ {0}
  /\ WordMod \in Nat
  /\ Top + 2 < WordMod
  /\ TickMod \in Nat \ {0}
  /\ Counts \subseteq Nat
  /\ Stores \subseteq 0..(WordMod - 1)
  /\ SMP \in BOOLEAN
  /\ Signals \in BOOLEAN
  /\ Faults \in BOOLEAN

VARIABLES
  mod,      \* how far lophilo_init or lophilo_cleanup has come
  page,     \* the page loldata points to: free, held by the driver, or lost
  value,    \* loldata->updates[LOPHILO_PIN_XA0].value
  dir,      \* the direction of the wave
  tick,     \* stands for the time stamp in the page
  armed,    \* hr_timer is queued
  irq,      \* where the timer callback is
  slots,    \* the kfifo's ring
  out,      \* the kfifo's out index, modulo the ring's size
  len,      \* kfifo_len: in - out, as an unsigned integer
  waiters,  \* the processes queued on fifo_wq and not yet woken
  pc,       \* where each reader is
  call,     \* the reader's current or last system call
  got,      \* what the copy to the reader's buffer has transferred
  ret,      \* the outcome of the reader's last call
  mapped,   \* whether the reader maps the page
  handed    \* history: the two updates given to readers last

moduleVars == <<mod, page, armed>>
sampleVars == <<value, dir, tick, irq>>
fifoVars   == <<slots, out, len>>
readerVars == <<pc, call, got, ret, mapped>>
vars == <<moduleVars, sampleVars, fifoVars, waiters, readerVars, handed>>

Sources == {"sec", "usec", "xa0"}
Update  == [source : Sources, tick : 0..(TickMod - 1)]

-----------------------------------------------------------------------------
(* The kfifo.                                                              *)

Least(a, b) == IF a < b THEN a ELSE b

\* Mutants (plausible slips; each is put in place of the definition named to
\* show that a property notices): kfifo_put that does not look for room ...
PutUnchecked(u) ==
  /\ slots' = [slots EXCEPT ![(out + len) % FifoSize] = u]
  /\ len' = len + 1
  /\ out' = out

\* ... and kfifo_put that makes room by dropping the oldest update.
PutOverOldest(u) ==
  /\ slots' = [slots EXCEPT ![(out + len) % FifoSize] = u]
  /\ len' = Least(len + 1, FifoSize)
  /\ out' = IF len < FifoSize THEN out ELSE (out + 1) % FifoSize

\* DEFINE_KFIFO rounds nothing: 32 is a power of two, and so is the range of
\* the indices, which therefore wrap at a multiple of the ring's size.
kfifo_put(u) ==
  IF len < FifoSize
  THEN /\ slots' = [slots EXCEPT ![(out + len) % FifoSize] = u]
       /\ len' = len + 1
       /\ out' = out
  ELSE UNCHANGED fifoVars

\* The n updates after the out index, as kfifo_copy_to_user transfers them.
Front(n) == [i \in 1..n |-> slots[(out + i - 1) % FifoSize]]

\* What a slot holds before its first use.
Blank == [source |-> "sec", tick |-> 0]

\* Advance out by n, whatever in is by now.  The slots passed are blanked, to
\* have fewer states: nothing looks at a slot outside out and in.
Skip(n) ==
  /\ slots' = [k \in 0..(FifoSize - 1) |->
                 IF \E i \in 1..n : k = (out + i - 1) % FifoSize
                 THEN Blank ELSE slots[k]]
  /\ out' = (out + n) % FifoSize
  /\ len' = (len - n) % IndexMod

\* The last two elements of s, or s when it is shorter.
LastTwo(s) == SubSeq(s, IF Len(s) < 2 THEN 1 ELSE Len(s) - 1, Len(s))

-----------------------------------------------------------------------------
(* Loading and unloading the driver.                                       *)

\* A task runs only when the processor is not in the interrupt handler.
Runs == SMP \/ irq = "idle"

\* Mutant of Referenced: a mapping does not hold the file it was made from.
ReferencedByFiles == \E r \in Readers : pc[r] # "closed"

\* An open file keeps the driver from being unloaded, as its owner is set; so
\* does a mapping, which holds its file beyond the close.
Referenced == \E r \in Readers : pc[r] # "closed" \/ mapped[r]

\* kmalloc, then the words of the page, the wait queue and the kfifo are
\* initialised (the static variables are those of a freshly loaded module).
LoadAlloc ==
  /\ Runs /\ mod = "absent"
  /\ mod' = "allocated" /\ page' = "held"
  /\ value' = 0 /\ dir' = 1 /\ tick' = 0
  /\ out' = 0 /\ len' = 0
  /\ slots' = [k \in 0..(FifoSize - 1) |-> Blank]
  /\ waiters' = {} /\ handed' = <<>>
  /\ UNCHANGED <<armed, irq, readerVars>>

LoadRegister ==
  /\ Runs /\ mod = "allocated"
  /\ mod' = "registered"
  /\ UNCHANGED <<page, armed, sampleVars, fifoVars, waiters, readerVars, handed>>

\* The early return does not free the page.
LoadRefused ==
  /\ Runs /\ mod = "allocated"
  /\ mod' = "absent" /\ page' = "lost"
  /\ UNCHANGED <<armed, sampleVars, fifoVars, waiters, readerVars, handed>>

LoadTimer ==
  /\ Runs /\ mod = "registered"
  /\ mod' = "live" /\ armed' = TRUE
  /\ UNCHANGED <<page, sampleVars, fifoVars, waiters, readerVars, handed>>

\* rmmod: from here on the module gives out no new reference.
Rmmod ==
  /\ Runs /\ mod = "live" /\ ~Referenced
  /\ mod' = "going"
  /\ UNCHANGED <<page, armed, sampleVars, fifoVars, waiters, readerVars, handed>>

\* Mutant of CancelTimer: hrtimer_try_to_cancel, which does not wait.
TryToCancelTimer ==
  /\ Runs /\ mod = "going"
  /\ mod' = "cancelled" /\ armed' = FALSE
  /\ UNCHANGED <<page, sampleVars, fifoVars, waiters, readerVars, handed>>

\* hrtimer_cancel waits for a running callback before it removes the timer.
CancelTimer ==
  /\ Runs /\ mod = "going" /\ irq = "idle"
  /\ mod' = "cancelled" /\ armed' = FALSE
  /\ UNCHANGED <<page, sampleVars, fifoVars, waiters, readerVars, handed>>

Unregister ==
  /\ Runs /\ mod = "cancelled"
  /\ mod' = "unregistered"
  /\ UNCHANGED <<page, armed, sampleVars, fifoVars, waiters, readerVars, handed>>

FreePage ==
  /\ Runs /\ mod = "unregistered"
  /\ mod' = "absent" /\ page' = "free"
  /\ UNCHANGED <<armed, sampleVars, fifoVars, waiters, readerVars, handed>>

-----------------------------------------------------------------------------
(* The timer callback, one step per operation on shared state.             *)

\* The sum is that of unsigned words; the tests come after it.
NextValue == (value + dir) % WordMod

\* Mutant of Turn: the test for zero is missing.
TurnAtTopOnly(v) == IF v > Top THEN -1 ELSE dir

Turn(v) == IF v = 0 THEN 1 ELSE IF v > Top THEN -1 ELSE dir

TimerFire ==
  /\ armed /\ irq = "idle"
  /\ armed' = FALSE
  /\ value' = NextValue
  /\ dir' = Turn(NextValue)
  /\ tick' = (tick + 1) % TickMod
  /\ irq' = "sec"
  /\ UNCHANGED <<mod, page, fifoVars, waiters, readerVars, handed>>

\* Mutant of AfterPut: the reading is put before the microsecond.
ReadingBeforeMicrosecond == [sec |-> "xa0", xa0 |-> "usec", usec |-> "wake"]

\* The three kfifo_put calls, in their order.
AfterPut == [sec |-> "usec", usec |-> "xa0", xa0 |-> "wake"]

PutUpdate ==
  /\ irq \in Sources
  /\ kfifo_put([source |-> irq, tick |-> tick])
  /\ irq' = AfterPut[irq]
  /\ UNCHANGED <<moduleVars, value, dir, tick, waiters, readerVars, handed>>

\* Mutant of WakeReaders: wake_up_interruptible is missing.
RestartOnly ==
  /\ irq = "wake"
  /\ irq' = "idle" /\ armed' = TRUE
  /\ UNCHANGED <<mod, page, value, dir, tick, fifoVars, waiters, readerVars, handed>>

\* wake_up_interruptible, then the timer is queued again (HRTIMER_RESTART).
WakeReaders ==
  /\ irq = "wake"
  /\ waiters' = {}
  /\ irq' = "idle" /\ armed' = TRUE
  /\ UNCHANGED <<mod, page, value, dir, tick, fifoVars, readerVars, handed>>

-----------------------------------------------------------------------------
(* The file operations of reader r.                                        *)

driverVars == <<moduleVars, sampleVars>>

\* The system call of r ends with the outcome o.
Return(r, o) ==
  /\ pc' = [pc EXCEPT ![r] = "open"]
  /\ ret' = [ret EXCEPT ![r] = o]

Goto(r, where) == pc' = [pc EXCEPT ![r] = where]

\* The device is registered and the module can be pinned.
Open(r) ==
  /\ Runs /\ pc[r] = "closed" /\ mod \in {"registered", "live"}
  /\ Goto(r, "open")
  /\ UNCHANGED <<driverVars, fifoVars, waiters, call, got, ret, mapped, handed>>

\* The last reference to the file goes, unless a mapping holds it; the map_fops
\* have no release.
Close(r) ==
  /\ Runs /\ pc[r] = "open"
  /\ Goto(r, "closed")
  /\ ret' = [ret EXCEPT ![r] = "none"]
  /\ UNCHANGED <<driverVars, fifoVars, waiters, call, got, mapped, handed>>

\* map_lophilo, for a request of the right size.
Mmap(r) ==
  /\ Runs /\ pc[r] = "open" /\ ~mapped[r]
  /\ mapped' = [mapped EXCEPT ![r] = TRUE]
  /\ UNCHANGED <<driverVars, fifoVars, waiters, pc, call, got, ret, handed>>

Munmap(r) ==
  /\ Runs /\ pc[r] \in {"open", "closed"} /\ mapped[r]
  /\ mapped' = [mapped EXCEPT ![r] = FALSE]
  /\ UNCHANGED <<driverVars, fifoVars, waiters, pc, call, got, ret, handed>>

\* The mapping is writable: a process may overwrite the reading.
Store(r) ==
  /\ Runs /\ mapped[r] /\ pc[r] \in {"open", "closed"}
  /\ value' \in Stores
  /\ UNCHANGED <<moduleVars, dir, tick, irq, fifoVars, waiters, readerVars, handed>>

\* Mutant of ReadCall: it never waits.
ReadCallNoWait(r) ==
  /\ Runs /\ pc[r] = "open"
  /\ \E n \in Counts : call' = [call EXCEPT ![r] = [op |-> "read", want |-> n]]
  /\ Goto(r, "copy")
  /\ ret' = [ret EXCEPT ![r] = "none"]
  /\ UNCHANGED <<driverVars, fifoVars, waiters, got, mapped, handed>>

\* read_lophilo up to its first decision.  O_NONBLOCK is looked at only when
\* the kfifo is empty, and may be set and cleared between two calls.
ReadCall(r) ==
  /\ Runs /\ pc[r] = "open"
  /\ \E n \in Counts : call' = [call EXCEPT ![r] = [op |-> "read", want |-> n]]
  /\ \/ /\ len = 0
        /\ Return(r, "eagain")
     \/ /\ Goto(r, IF len = 0 THEN "prepare" ELSE "copy")
        /\ ret' = [ret EXCEPT ![r] = "none"]
  /\ UNCHANGED <<driverVars, fifoVars, waiters, got, mapped, handed>>

\* poll or select: poll_lophilo queues the caller before it looks.
PollCall(r) ==
  /\ Runs /\ pc[r] = "open"
  /\ call' = [call EXCEPT ![r] = [op |-> "poll", want |-> 0]]
  /\ Goto(r, "prepare")
  /\ ret' = [ret EXCEPT ![r] = "none"]
  /\ UNCHANGED <<driverVars, fifoVars, waiters, got, mapped, handed>>

\* Mutant of Prepare: sleep without looking again.
PrepareAndSleep(r) ==
  /\ Runs /\ pc[r] = "prepare"
  /\ waiters' = waiters \union {r}
  /\ Goto(r, "asleep")
  /\ UNCHANGED <<driverVars, fifoVars, call, got, ret, mapped, handed>>

\* prepare_to_wait of wait_event_interruptible; poll_wait.
Prepare(r) ==
  /\ Runs /\ pc[r] = "prepare"
  /\ waiters' = waiters \union {r}
  /\ Goto(r, "recheck")
  /\ UNCHANGED <<driverVars, fifoVars, call, got, ret, mapped, handed>>

\* Mutant of Recheck: poll reports a readable file without looking.
RecheckReadsOnly(r) ==
  /\ Runs /\ pc[r] = "recheck"
  /\ \/ /\ len = 0 /\ call[r].op = "read"
        /\ Goto(r, "asleep")
        /\ UNCHANGED <<waiters, ret>>
     \/ /\ len # 0 \/ call[r].op = "poll"
        /\ waiters' = waiters \ {r}
        /\ IF call[r].op = "read"
           THEN Goto(r, "copy") /\ UNCHANGED ret
           ELSE Return(r, "pollin")
  /\ UNCHANGED <<driverVars, fifoVars, call, got, mapped, handed>>

\* The condition is looked at again, now that a wake-up would be noticed.
Recheck(r) ==
  /\ Runs /\ pc[r] = "recheck"
  /\ \/ /\ len = 0
        /\ Goto(r, "asleep")
        /\ UNCHANGED <<waiters, ret>>
     \/ /\ len # 0
        /\ waiters' = waiters \ {r}
        /\ IF call[r].op = "read"
           THEN Goto(r, "copy") /\ UNCHANGED ret
           ELSE Return(r, "pollin")
  /\ UNCHANGED <<driverVars, fifoVars, call, got, mapped, handed>>

\* schedule() returns once the reader has been woken.
Resume(r) ==
  /\ Runs /\ pc[r] = "asleep" /\ r \notin waiters
  /\ Goto(r, "prepare")
  /\ UNCHANGED <<driverVars, fifoVars, waiters, call, got, ret, mapped, handed>>

\* A signal ends the wait.  A poll gives up; read_lophilo drops the result of
\* wait_event_interruptible and goes on to the copy.
Signal(r) ==
  /\ Signals /\ Runs /\ pc[r] = "asleep"
  /\ waiters' = waiters \ {r}
  /\ IF call[r].op = "read"
     THEN Goto(r, "copy") /\ UNCHANGED ret
     ELSE Return(r, "nothing")
  /\ UNCHANGED <<driverVars, fifoVars, call, got, mapped, handed>>

\* The timeout of a poll expires.
PollTimeout(r) ==
  /\ Runs /\ pc[r] = "asleep" /\ call[r].op = "poll"
  /\ waiters' = waiters \ {r}
  /\ Return(r, "nothing")
  /\ UNCHANGED <<driverVars, fifoVars, call, got, mapped, handed>>

\* Mutant of CopyOut: as many updates as the buffer holds.
CopyOutUnclamped(r) ==
  /\ Runs /\ pc[r] = "copy"
  /\ got' = [got EXCEPT ![r] = Front(call[r].want)]
  /\ Goto(r, "commit")
  /\ UNCHANGED <<driverVars, fifoVars, waiters, call, ret, mapped, handed>>

\* kfifo_to_user, first half: the transfer, whose size is settled here.
CopyOut(r) ==
  /\ Runs /\ pc[r] = "copy"
  /\ got' = [got EXCEPT ![r] = Front(Least(call[r].want, len))]
  /\ Goto(r, "commit")
  /\ UNCHANGED <<driverVars, fifoVars, waiters, call, ret, mapped, handed>>

\* Mutant of Commit: one update too few is removed.
CommitOneShort(r) ==
  /\ Runs /\ pc[r] = "commit"
  /\ Skip(IF got[r] = <<>> THEN 0 ELSE Len(got[r]) - 1)
  /\ IF got[r] = <<>>
     THEN Return(r, "zero") /\ UNCHANGED handed
     ELSE Return(r, "data") /\ handed' = LastTwo(handed \o got[r])
  /\ got' = [got EXCEPT ![r] = <<>>]
  /\ UNCHANGED <<driverVars, waiters, call, mapped>>

\* kfifo_to_user, second half: out moves past what was transferred.
Commit(r) ==
  /\ Runs /\ pc[r] = "commit"
  /\ Skip(Len(got[r]))
  /\ IF got[r] = <<>>
     THEN Return(r, "zero") /\ UNCHANGED handed
     ELSE Return(r, "data") /\ handed' = LastTwo(handed \o got[r])
  /\ got' = [got EXCEPT ![r] = <<>>]
  /\ UNCHANGED <<driverVars, waiters, call, mapped>>

\* The buffer turned out bad after k updates: they are gone all the same.
CommitFault(r) ==
  /\ Faults /\ Runs /\ pc[r] = "commit"
  /\ \E k \in 0..(Len(got[r]) - 1) : Skip(k)
  /\ Return(r, "efault")
  /\ got' = [got EXCEPT ![r] = <<>>]
  /\ handed' = <<>>
  /\ UNCHANGED <<driverVars, waiters, call, mapped>>

-----------------------------------------------------------------------------
Init ==
  /\ mod = "absent" /\ page = "free" /\ armed = FALSE
  /\ value = 0 /\ dir = 1 /\ tick = 0 /\ irq = "idle"
  /\ slots = [k \in 0..(FifoSize - 1) |-> Blank]
  /\ out = 0 /\ len = 0
  /\ waiters = {}
  /\ pc = [r \in Readers |-> "closed"]
  /\ call = [r \in Readers |-> [op |-> "poll", want |-> 0]]
  /\ got = [r \in Readers |-> <<>>]
  /\ ret = [r \in Readers |-> "none"]
  /\ mapped = [r \in Readers |-> FALSE]
  /\ handed = <<>>

ModuleStep ==
  \/ LoadAlloc \/ LoadRegister \/ LoadRefused \/ LoadTimer
  \/ Rmmod \/ CancelTimer \/ Unregister \/ FreePage

TimerStep == TimerFire \/ PutUpdate \/ WakeReaders

\* The steps a reader chooses to take ...
UserStep(r) ==
  \/ Open(r) \/ Close(r) \/ Mmap(r) \/ Munmap(r) \/ Store(r)
  \/ ReadCall(r) \/ PollCall(r) \/ Signal(r) \/ PollTimeout(r)

\* ... and those the kernel takes for it inside a call.
CallStep(r) ==
  \/ Prepare(r) \/ Recheck(r) \/ Resume(r)
  \/ CopyOut(r) \/ Commit(r) \/ CommitFault(r)

Next ==
  \/ ModuleStep
  \/ TimerStep
  \/ \E r \in Readers : UserStep(r) \/ CallStep(r)

Spec == Init /\ [][Next]_vars

\* The timer interrupt is served and its handler runs to the end; loading,
\* once begun, is finished; a task inside a system call gets the processor
\* again and again between two interrupts (on one processor its steps are
\* disabled while the handler runs, hence strong fairness).
Fairness ==
  /\ WF_vars(TimerStep)
  /\ WF_vars(LoadTimer)
  /\ \A r \in Readers : SF_vars(CallStep(r))

FairSpec == Spec /\ Fairness

-----------------------------------------------------------------------------
(* Properties.                                                             *)

TypeOK ==
  /\ mod \in {"absent", "allocated", "registered", "live",
              "going", "cancelled", "unregistered"}
  /\ page \in {"free", "held", "lost"}
  /\ armed \in BOOLEAN
  /\ value \in 0..(WordMod - 1)
  /\ dir \in {-1, 1}
  /\ tick \in 0..(TickMod - 1)
  /\ irq \in {"idle", "wake"} \union Sources
  /\ slots \in [0..(FifoSize - 1) -> Update]
  /\ out \in 0..(FifoSize - 1)
  /\ len \in 0..(IndexMod - 1)
  /\ waiters \subseteq Readers
  /\ pc \in [Readers -> {"closed", "open", "prepare", "recheck", "asleep",
                         "copy", "commit"}]
  /\ call \in [Readers -> [op : {"read", "poll"}, want : Nat]]
  /\ got \in [Readers -> Seq(Update)]
  /\ ret \in [Readers -> {"none", "data", "zero", "eagain", "efault",
                          "pollin", "nothing"}]
  /\ mapped \in [Readers -> BOOLEAN]
  /\ handed \in Seq(Update)

\* Lines 51-57: the reading never leaves 0..Top+1 (in particular it never
\* wraps below zero, though it is unsigned and dir is added before the
\* tests), and dir points inwards at both ends.
InWave ==
  /\ value \in 0..(Top + 1)
  /\ value = Top + 1 => dir = -1
  /\ value = 0 => dir = 1

\* The wave is being sampled: the timer is queued or its callback runs.
Sampling == armed \/ irq # "idle"

\* Whoever can still touch the page (the callback, a queued timer, a
\* mapping, also one that outlives its file) finds it allocated:
\* lophilo_cleanup frees it last, and is not reached while the page is mapped.
NoUseAfterFree ==
  (Sampling \/ \E r \in Readers : mapped[r]) => page = "held"

\* With one reader the kfifo's out never overtakes in: there are at most
\* FifoSize updates in it, and a transfer that is not yet committed is still
\* in the queue, unchanged, however many updates the timer adds meanwhile.
FifoIntact ==
  /\ len <= FifoSize
  /\ \A r \in Readers : Len(got[r]) <= len /\ got[r] = Front(Len(got[r]))

\* A reader that sleeps, still queued, on a kfifo that is not empty is about
\* to be woken: the queueing before the second look at the kfifo leaves no
\* gap for a wake-up to be lost in.
NoLostWakeup ==
  \A r \in Readers :
    pc[r] = "asleep" /\ r \in waiters /\ len # 0 => irq \in {"usec", "xa0", "wake"}

\* A read returns 0, which to read(2)'s callers is the end of the file, only
\* for a buffer too small for one update: a blocking read blocks while there
\* is no data (line 109), a nonblocking one returns -EAGAIN.
NoEmptyRead == \A r \in Readers : ret[r] = "zero" => call[r].want = 0

\* A file that poll reported readable stays readable until its reader reads.
PollTruth == \A r \in Readers : ret[r] = "pollin" => len # 0

\* What the reader has been given last followed by what it will be given
\* next.
Stream == handed \o Front(len)

\* On one processor the callback is one unit for the readers: when it cannot
\* place all three updates of a tick, the ones it drops are the last ones, so
\* a reading of XA0 always comes right after its own second and microsecond
\* (as far as the reader has not received them in an earlier batch).
StampedByOwnTick ==
  \A i \in 3..Len(Stream) :
    Stream[i].source = "xa0" =>
      /\ Stream[i - 1] = [source |-> "usec", tick |-> Stream[i].tick]
      /\ Stream[i - 2] = [source |-> "sec", tick |-> Stream[i].tick]

\* A read or poll that had to wait ends: the timer keeps producing updates
\* while a file is open.
SleeperReturns == \A r \in Readers : pc[r] = "asleep" ~> pc[r] = "open"

\* A reading overwritten through the mapping heals: once the stores stop, the
\* reading is on the wave for good whenever it is sampled, even when it
\* wrapped below 0, over any number of unloads and loads.  (A removal that
\* stops the timer in between leaves the reading in a page about to be freed.)
WaveHeals == <>[][\A r \in Readers : ~Store(r)]_vars => <>[](Sampling => InWave)

\* The device as its one reader sees it.
AbstractQueue == Front(len)
AbstractDue ==
  IF irq \in Sources
  THEN [source |-> irq, tick |-> tick]
  ELSE [source |-> "sec", tick |-> (tick + 1) % TickMod]

Promise == INSTANCE UpdateStream WITH
  Capacity <- FifoSize, queue <- AbstractQueue, due <- AbstractDue

\* For one reader the device implements the update stream.
ImplementsStream == Promise!StreamSpec
=============================================================================
