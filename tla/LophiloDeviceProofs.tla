------------------------ MODULE LophiloDeviceProofs ------------------------
(***************************************************************************)
(* Theorems about the character device, for every value of its constants.  *)
(* Four of them need the process to be the device's only reader; the model *)
(* checker shows in the run device_two_readers what a second reader does.  *)
(***************************************************************************)
EXTENDS LophiloDevice, TLAPS

\* The device has at most one reader.
OneReader == \A r, s \in Readers : r = s

-----------------------------------------------------------------------------
(* Arithmetic of the kfifo's ring.                                         *)

\* A remainder lies in the range of its modulus.
LEMMA ModRange ==
  ASSUME NEW M \in Nat \ {0}, NEW x \in Int
  PROVE  x % M \in 0..(M - 1)
OBVIOUS

\* A number below its modulus is its own remainder.
LEMMA ModSmall ==
  ASSUME NEW M \in Nat \ {0}, NEW x \in 0..(M - 1)
  PROVE  x % M = x
OBVIOUS

\* Past the end of the ring the index starts again at 0.
LEMMA ModWrap ==
  ASSUME NEW M \in Nat \ {0}, NEW x \in M..(2 * M - 1)
  PROVE  x % M = x - M
OBVIOUS

\* Within one turn of the ring different offsets are different slots.
LEMMA RingInjective ==
  ASSUME NEW M \in Nat \ {0}, NEW o \in 0..(M - 1),
         NEW i \in 0..(M - 1), NEW j \in 0..(M - 1), (o + i) % M = (o + j) % M
  PROVE  i = j
<1>1. \A k \in 0..(M - 1) :
        (o + k) % M = IF o + k < M THEN o + k ELSE o + k - M
  <2> SUFFICES ASSUME NEW k \in 0..(M - 1)
               PROVE  (o + k) % M = IF o + k < M THEN o + k ELSE o + k - M
    OBVIOUS
  <2>1. CASE o + k < M
    BY <2>1, ModSmall
  <2>2. CASE ~(o + k < M)
    <3>1. o + k \in M..(2 * M - 1)
      BY <2>2
    <3>2. (o + k) % M = (o + k) - M
      BY <3>1, ModWrap
    <3> QED BY <2>2, <3>2
  <2> QED BY <2>1, <2>2
<1> QED BY <1>1

-----------------------------------------------------------------------------
(* Type correctness.                                                       *)

\* Skip keeps the kfifo well typed.
LEMMA SkipType ==
  ASSUME TypeOK, NEW n \in Nat, Skip(n)
  PROVE  /\ slots' \in [0..(FifoSize - 1) -> Update]
         /\ out' \in 0..(FifoSize - 1)
         /\ len' \in 0..(IndexMod - 1)
<1>1. Blank \in Update
  BY DeviceAssumption DEF Blank, Update, Sources
<1>2. slots' \in [0..(FifoSize - 1) -> Update]
  BY <1>1 DEF TypeOK, Skip
<1>3. out' \in 0..(FifoSize - 1)
  BY ModRange, DeviceAssumption DEF TypeOK, Skip
<1>4. len' \in 0..(IndexMod - 1)
  <2>1. IndexMod \in Nat \ {0} /\ len - n \in Int
    BY DeviceAssumption DEF TypeOK
  <2> QED BY <2>1, ModRange DEF Skip
<1> QED BY <1>2, <1>3, <1>4

\* The last two elements of a sequence form a sequence over the same set.
LEMMA LastTwoType ==
  ASSUME NEW S, NEW s \in Seq(S)
  PROVE  LastTwo(s) \in Seq(S)
BY DEF LastTwo

\* What a transfer of n updates reads from the ring is a sequence of n updates.
LEMMA FrontType ==
  ASSUME TypeOK, NEW n \in Nat
  PROVE  Front(n) \in Seq(Update) /\ Len(Front(n)) = n
<1>1. \A i \in 1..n : (out + i - 1) % FifoSize \in 0..(FifoSize - 1)
  BY ModRange, DeviceAssumption DEF TypeOK
<1>2. \A i \in 1..n : slots[(out + i - 1) % FifoSize] \in Update
  BY <1>1 DEF TypeOK
<1> QED BY <1>2 DEF Front

\* Loading and unloading keep the types.
LEMMA ModuleStepType ==
  ASSUME TypeOK, ModuleStep
  PROVE  TypeOK'
<1> USE DeviceAssumption DEF TypeOK, vars, moduleVars, sampleVars, fifoVars, readerVars
<1>1. CASE LoadAlloc
  <2>1. Blank \in Update
    BY DEF Blank, Update, Sources
  <2>2. slots' \in [0..(FifoSize - 1) -> Update]
    BY <1>1, <2>1 DEF LoadAlloc
  <2>3. /\ value' \in 0..(WordMod - 1) /\ dir' \in {-1, 1}
        /\ tick' \in 0..(TickMod - 1)
        /\ out' \in 0..(FifoSize - 1) /\ len' \in 0..(IndexMod - 1)
    BY <1>1 DEF LoadAlloc
  <2>4. waiters' \subseteq Readers /\ handed' \in Seq(Update)
    BY <1>1 DEF LoadAlloc
  <2>5. /\ mod' \in {"absent", "allocated", "registered", "live",
                     "going", "cancelled", "unregistered"}
        /\ page' \in {"free", "held", "lost"}
        /\ UNCHANGED <<armed, irq, pc, call, got, ret, mapped>>
    BY <1>1 DEF LoadAlloc
  <2> QED BY <2>2, <2>3, <2>4, <2>5
<1>2. CASE LoadRegister BY <1>2 DEF LoadRegister
<1>3. CASE LoadRefused BY <1>3 DEF LoadRefused
<1>4. CASE LoadTimer BY <1>4 DEF LoadTimer
<1>5. CASE Rmmod BY <1>5 DEF Rmmod
<1>6. CASE CancelTimer BY <1>6 DEF CancelTimer
<1>7. CASE Unregister BY <1>7 DEF Unregister
<1>8. CASE FreePage BY <1>8 DEF FreePage
<1> QED BY <1>1, <1>2, <1>3, <1>4, <1>5, <1>6, <1>7, <1>8 DEF ModuleStep

\* So does the timer callback.
LEMMA TimerStepType ==
  ASSUME TypeOK, TimerStep
  PROVE  TypeOK'
<1> USE DeviceAssumption DEF TypeOK, vars, moduleVars, sampleVars, fifoVars, readerVars
<1>1. CASE TimerFire
  <2>1. value' \in 0..(WordMod - 1)
    <3>1. WordMod \in Nat \ {0} /\ value + dir \in Int
      OBVIOUS
    <3> QED BY <1>1, <3>1, ModRange DEF TimerFire, NextValue
  <2>2. tick' \in 0..(TickMod - 1)
    BY <1>1, ModRange DEF TimerFire
  <2>3. dir' \in {-1, 1}
    BY <1>1 DEF TimerFire, Turn
  <2> QED BY <1>1, <2>1, <2>2, <2>3 DEF TimerFire, Sources
<1>2. CASE PutUpdate
  <2>1. irq' \in {"idle", "wake"} \union Sources
    BY <1>2 DEF PutUpdate, AfterPut, Sources
  <2>2. [source |-> irq, tick |-> tick] \in Update
    BY <1>2 DEF PutUpdate, Update
  <2>3. /\ slots' \in [0..(FifoSize - 1) -> Update]
        /\ len' \in 0..(IndexMod - 1)
        /\ out' \in 0..(FifoSize - 1)
    <3>1. CASE len < FifoSize
      <4>1. /\ slots' = [slots EXCEPT ![(out + len) % FifoSize]
                                   = [source |-> irq, tick |-> tick]]
            /\ len' = len + 1 /\ out' = out
        BY <1>2, <3>1 DEF PutUpdate, kfifo_put
      <4>2. slots' \in [0..(FifoSize - 1) -> Update]
        BY <4>1, <2>2
      <4>3. len' \in 0..(IndexMod - 1)
        BY <4>1, <3>1
      <4> QED BY <4>1, <4>2, <4>3
    <3>2. CASE ~(len < FifoSize)
      BY <1>2, <3>2 DEF PutUpdate, kfifo_put
    <3> QED BY <3>1, <3>2
  <2> QED BY <1>2, <2>1, <2>3 DEF PutUpdate
<1>3. CASE WakeReaders BY <1>3 DEF WakeReaders
<1> QED BY <1>1, <1>2, <1>3 DEF TimerStep

\* So do the steps a reader chooses ...
LEMMA UserStepType ==
  ASSUME TypeOK, NEW r \in Readers, UserStep(r)
  PROVE  TypeOK'
<1> USE DEF TypeOK, vars, driverVars, moduleVars, sampleVars, fifoVars, readerVars, Goto, Return
<1>1. CASE Open(r) BY <1>1 DEF Open
<1>2. CASE Close(r) BY <1>2 DEF Close
<1>3. CASE Mmap(r) BY <1>3 DEF Mmap
<1>4. CASE Munmap(r) BY <1>4 DEF Munmap
<1>5. CASE Store(r) BY <1>5, DeviceAssumption DEF Store
<1>6. CASE ReadCall(r)
  <2>1. call' \in [Readers -> [op : {"read", "poll"}, want : Nat]]
    BY <1>6, DeviceAssumption DEF ReadCall
  <2>2. pc' \in [Readers -> {"closed", "open", "prepare", "recheck", "asleep",
                             "copy", "commit"}]
    BY <1>6 DEF ReadCall
  <2>3. ret' \in [Readers -> {"none", "data", "zero", "eagain", "efault",
                              "pollin", "nothing"}]
    BY <1>6 DEF ReadCall
  <2> QED BY <1>6, <2>1, <2>2, <2>3 DEF ReadCall
<1>7. CASE PollCall(r) BY <1>7 DEF PollCall
<1>8. CASE Signal(r) BY <1>8 DEF Signal
<1>9. CASE PollTimeout(r) BY <1>9 DEF PollTimeout
<1> QED BY <1>1, <1>2, <1>3, <1>4, <1>5, <1>6, <1>7, <1>8, <1>9 DEF UserStep

\* ... and those the kernel takes for it.
LEMMA CallStepType ==
  ASSUME TypeOK, NEW r \in Readers, CallStep(r)
  PROVE  TypeOK'
<1> USE DEF TypeOK, vars, driverVars, moduleVars, sampleVars, fifoVars, readerVars, Goto, Return
<1>1. CASE Prepare(r) BY <1>1 DEF Prepare
<1>2. CASE Recheck(r) BY <1>2 DEF Recheck
<1>3. CASE Resume(r) BY <1>3 DEF Resume
<1>4. CASE CopyOut(r)
  <2>1. Least(call[r].want, len) \in Nat
    BY DeviceAssumption DEF Least
  <2>2. Front(Least(call[r].want, len)) \in Seq(Update)
    BY <2>1, FrontType
  <2>3. got' \in [Readers -> Seq(Update)]
    BY <1>4, <2>2 DEF CopyOut
  <2> QED BY <1>4, <2>3 DEF CopyOut
<1>5. CASE Commit(r)
  <2>1. Len(got[r]) \in Nat /\ got[r] \in Seq(Update)
    OBVIOUS
  <2>2. /\ slots' \in [0..(FifoSize - 1) -> Update]
        /\ out' \in 0..(FifoSize - 1)
        /\ len' \in 0..(IndexMod - 1)
    BY <1>5, <2>1, SkipType DEF Commit
  <2>3. handed' \in Seq(Update)
    <3>1. handed \o got[r] \in Seq(Update)
      BY <2>1
    <3>2. LastTwo(handed \o got[r]) \in Seq(Update)
      BY <3>1, LastTwoType
    <3> QED BY <1>5, <3>2 DEF Commit
  <2>4. got' \in [Readers -> Seq(Update)]
    BY <1>5 DEF Commit
  <2> QED BY <1>5, <2>2, <2>3, <2>4 DEF Commit
<1>6. CASE CommitFault(r)
  <2>1. PICK k \in 0..(Len(got[r]) - 1) : Skip(k)
    BY <1>6 DEF CommitFault
  <2>2. /\ slots' \in [0..(FifoSize - 1) -> Update]
        /\ out' \in 0..(FifoSize - 1)
        /\ len' \in 0..(IndexMod - 1)
    BY <2>1, SkipType
  <2>3. got' \in [Readers -> Seq(Update)] /\ handed' \in Seq(Update)
    BY <1>6 DEF CommitFault
  <2> QED BY <1>6, <2>2, <2>3 DEF CommitFault
<1> QED BY <1>1, <1>2, <1>3, <1>4, <1>5, <1>6 DEF CallStep

\* The variables of cdev/lophilo.c, of its kfifo and of its callers keep their
\* types: in particular the unsigned reading and the kfifo's length stay in
\* their words, and no index leaves the ring.
THEOREM TypeCorrect == Spec => []TypeOK
<1>1. Init => TypeOK
  <2> SUFFICES ASSUME Init PROVE TypeOK
    OBVIOUS
  <2>1. Blank \in Update
    BY DeviceAssumption DEF Blank, Update, Sources
  <2>2. slots \in [0..(FifoSize - 1) -> Update]
    BY <2>1 DEF Init
  <2>3. got \in [Readers -> Seq(Update)] /\ handed \in Seq(Update)
    BY DEF Init
  <2>4. /\ value \in 0..(WordMod - 1) /\ dir \in {-1, 1}
        /\ tick \in 0..(TickMod - 1)
        /\ out \in 0..(FifoSize - 1) /\ len \in 0..(IndexMod - 1)
    BY DeviceAssumption DEF Init
  <2>5. /\ pc \in [Readers -> {"closed", "open", "prepare", "recheck", "asleep",
                               "copy", "commit"}]
        /\ call \in [Readers -> [op : {"read", "poll"}, want : Nat]]
        /\ ret \in [Readers -> {"none", "data", "zero", "eagain", "efault",
                                "pollin", "nothing"}]
        /\ mapped \in [Readers -> BOOLEAN]
    BY DEF Init
  <2> QED BY <2>2, <2>3, <2>4, <2>5 DEF Init, TypeOK
<1>2. TypeOK /\ [Next]_vars => TypeOK'
  <2> SUFFICES ASSUME TypeOK, [Next]_vars PROVE TypeOK'
    OBVIOUS
  <2>1. CASE ModuleStep BY <2>1, ModuleStepType
  <2>2. CASE TimerStep BY <2>2, TimerStepType
  <2>3. ASSUME NEW r \in Readers, UserStep(r) PROVE TypeOK'
    BY <2>3, UserStepType
  <2>4. ASSUME NEW r \in Readers, CallStep(r) PROVE TypeOK'
    BY <2>4, CallStepType
  <2>5. CASE UNCHANGED vars
    BY <2>5 DEF TypeOK, vars, moduleVars, sampleVars, fifoVars, readerVars
  <2> QED BY <2>1, <2>2, <2>3, <2>4, <2>5 DEF Next
<1> QED BY <1>1, <1>2, PTL DEF Spec

-----------------------------------------------------------------------------
(* The wave.                                                               *)

\* Only the callback, a load and a store through a mapping touch the wave.
LEMMA WaveFrame ==
  ASSUME NEW r \in Readers, CallStep(r) \/ (UserStep(r) /\ ~Store(r))
  PROVE  UNCHANGED <<value, dir>>
BY DEF CallStep, UserStep, Prepare, Recheck, Resume, CopyOut, Commit,
       CommitFault, Open, Close, Mmap, Munmap, ReadCall, PollCall, Signal,
       PollTimeout, driverVars, sampleVars

\* Lines 51-57: as long as no process overwrites the page, the reading stays
\* between 0 and Top + 1 and dir points inwards at both ends; the unsigned
\* reading never wraps.
THEOREM WaveCorrect ==
  ASSUME Stores = {}
  PROVE  Spec => []InWave
<1>1. Init => InWave
  BY DeviceAssumption DEF Init, InWave
<1>2. TypeOK /\ InWave /\ [Next]_vars => InWave'
  <2> SUFFICES ASSUME TypeOK, InWave, [Next]_vars PROVE InWave'
    OBVIOUS
  <2>1. CASE ModuleStep
    BY <2>1, DeviceAssumption
    DEF ModuleStep, LoadAlloc, LoadRegister, LoadRefused, LoadTimer, Rmmod,
        CancelTimer, Unregister, FreePage, sampleVars, InWave
  <2>2. CASE TimerFire
    <3>1. value + dir \in 0..(Top + 1)
      BY DeviceAssumption DEF TypeOK, InWave
    <3>2. NextValue = value + dir
      <4>1. WordMod \in Nat \ {0} /\ value + dir \in 0..(WordMod - 1)
        BY <3>1, DeviceAssumption
      <4> QED BY <4>1, ModSmall DEF NextValue
    <3>3. value' = NextValue /\ dir' = Turn(NextValue)
      BY <2>2 DEF TimerFire
    <3> QED BY <3>1, <3>2, <3>3, DeviceAssumption DEF TypeOK, InWave, Turn
  <2>3. CASE PutUpdate \/ WakeReaders
    BY <2>3 DEF PutUpdate, WakeReaders, InWave
  <2>4. ASSUME NEW r \in Readers, UserStep(r) PROVE InWave'
    <3>1. ~Store(r)
      BY DEF Store
    <3> QED BY <2>4, <3>1, WaveFrame DEF InWave
  <2>5. ASSUME NEW r \in Readers, CallStep(r) PROVE InWave'
    BY <2>5, WaveFrame DEF InWave
  <2>6. CASE UNCHANGED vars
    BY <2>6 DEF InWave, vars, sampleVars
  <2> QED BY <2>1, <2>2, <2>3, <2>4, <2>5, <2>6 DEF Next, TimerStep
<1> QED BY <1>1, <1>2, TypeCorrect, PTL DEF Spec

-----------------------------------------------------------------------------
(* The page.                                                               *)

\* What loading and unloading guarantee at each of their stages: the timer
\* exists only from its start to its cancellation, files and mappings only
\* while the module can be pinned, the page from the first stage to the last.
Lifecycle ==
  /\ irq # "idle" \/ armed => mod \in {"live", "going"}
  /\ \A r \in Readers :
       pc[r] # "closed" \/ mapped[r] => mod \in {"registered", "live"}
  /\ mod # "absent" => page = "held"

\* No file operation moves the module or the timer, and one that needs the
\* device finds it there.
LEMMA LifecycleFrame ==
  ASSUME TypeOK, Lifecycle, NEW r \in Readers, UserStep(r) \/ CallStep(r)
  PROVE  /\ UNCHANGED <<mod, page, armed, irq>>
         /\ \A s \in Readers : s # r => pc'[s] = pc[s] /\ mapped'[s] = mapped[s]
         /\ pc'[r] # "closed" \/ mapped'[r] => mod \in {"registered", "live"}
<1> USE DEF TypeOK, Lifecycle, driverVars, moduleVars, sampleVars, readerVars, Goto, Return
<1>1. CASE Open(r) BY <1>1 DEF Open
<1>2. CASE Close(r) BY <1>2 DEF Close
<1>3. CASE Mmap(r) BY <1>3 DEF Mmap
<1>4. CASE Munmap(r) BY <1>4 DEF Munmap
<1>5. CASE Store(r) BY <1>5 DEF Store
<1>6. CASE ReadCall(r) BY <1>6 DEF ReadCall
<1>7. CASE PollCall(r) BY <1>7 DEF PollCall
<1>8. CASE Signal(r) BY <1>8 DEF Signal
<1>9. CASE PollTimeout(r) BY <1>9 DEF PollTimeout
<1>10. CASE Prepare(r) BY <1>10 DEF Prepare
<1>11. CASE Recheck(r) BY <1>11 DEF Recheck
<1>12. CASE Resume(r) BY <1>12 DEF Resume
<1>13. CASE CopyOut(r) BY <1>13 DEF CopyOut
<1>14. CASE Commit(r) BY <1>14 DEF Commit
<1>15. CASE CommitFault(r) BY <1>15 DEF CommitFault
<1> QED BY <1>1, <1>2, <1>3, <1>4, <1>5, <1>6, <1>7, <1>8, <1>9, <1>10,
           <1>11, <1>12, <1>13, <1>14, <1>15 DEF UserStep, CallStep

\* The stages of the driver's life hold throughout.
LEMMA LifecycleInvariant == Spec => []Lifecycle
<1>1. Init => Lifecycle
  BY DEF Init, Lifecycle
<1>2. TypeOK /\ Lifecycle /\ [Next]_vars => Lifecycle'
  <2> SUFFICES ASSUME TypeOK, Lifecycle, [Next]_vars PROVE Lifecycle'
    OBVIOUS
  <2>1. CASE LoadAlloc \/ LoadRegister \/ LoadRefused \/ LoadTimer
    BY <2>1 DEF LoadAlloc, LoadRegister, LoadRefused, LoadTimer, Lifecycle,
                sampleVars, readerVars
  <2>2. CASE Rmmod
    BY <2>2 DEF Rmmod, Referenced, Lifecycle, sampleVars, readerVars
  <2>3. CASE CancelTimer \/ Unregister \/ FreePage
    BY <2>3 DEF CancelTimer, Unregister, FreePage, Lifecycle, sampleVars, readerVars
  <2>4. CASE TimerStep
    BY <2>4 DEF TimerStep, TimerFire, PutUpdate, WakeReaders, AfterPut, Sources,
                Lifecycle, moduleVars, readerVars
  <2>5. ASSUME NEW r \in Readers, UserStep(r) \/ CallStep(r) PROVE Lifecycle'
    <3>1. UNCHANGED <<mod, page, armed, irq>>
      BY <2>5, LifecycleFrame
    <3>2. \A s \in Readers :
            pc'[s] # "closed" \/ mapped'[s] => mod \in {"registered", "live"}
      BY <2>5, LifecycleFrame DEF Lifecycle
    <3> QED BY <3>1, <3>2 DEF Lifecycle
  <2>6. CASE UNCHANGED vars
    BY <2>6 DEF Lifecycle, vars, moduleVars, sampleVars, readerVars
  <2> QED BY <2>1, <2>2, <2>3, <2>4, <2>5, <2>6 DEF Next, ModuleStep
<1> QED BY <1>1, <1>2, TypeCorrect, PTL DEF Spec

\* lophilo_cleanup frees the page after everything that can touch it is gone:
\* the callback and the queued timer (hrtimer_cancel waits for them) and the
\* mappings (each pins the module).  It holds on one processor and on many.
THEOREM PageSafe == Spec => []NoUseAfterFree
<1>1. Lifecycle => NoUseAfterFree
  BY DEF Lifecycle, NoUseAfterFree, Sampling
<1> QED BY <1>1, LifecycleInvariant, PTL

-----------------------------------------------------------------------------
(* The kfifo of a single reader.                                           *)

\* FifoIntact, and nothing transferred is left over outside kfifo_to_user.
FifoInv ==
  /\ FifoIntact
  /\ \A r \in Readers : pc[r] # "commit" => got[r] = <<>>

\* No update, no transfer.
LEMMA FrontZero == Front(0) = <<>> /\ Front(0)' = <<>>
BY DEF Front

\* A put leaves alone what a transfer under way has read.
LEMMA PutKeepsFront ==
  ASSUME TypeOK, NEW n \in 0..len, NEW u, kfifo_put(u)
  PROVE  Front(n)' = Front(n)
<1>1. CASE len < FifoSize
  <2>1. \A i \in 1..n : slots'[(out + i - 1) % FifoSize] = slots[(out + i - 1) % FifoSize]
    <3> SUFFICES ASSUME NEW i \in 1..n
                 PROVE  slots'[(out + i - 1) % FifoSize] = slots[(out + i - 1) % FifoSize]
      OBVIOUS
    <3> DEFINE j == i - 1
    <3>1. j \in 0..(FifoSize - 1) /\ len \in 0..(FifoSize - 1) /\ j # len
      BY <1>1, DeviceAssumption DEF TypeOK
    <3>2. (out + j) % FifoSize # (out + len) % FifoSize
      BY <3>1, RingInjective, DeviceAssumption DEF TypeOK
    <3>3. (out + j) % FifoSize \in 0..(FifoSize - 1)
      <4>1. FifoSize \in Nat \ {0} /\ out + j \in Int
        BY <3>1, DeviceAssumption DEF TypeOK
      <4> QED BY <4>1, ModRange
    <3>4. slots' = [slots EXCEPT ![(out + len) % FifoSize] = u]
      BY <1>1 DEF kfifo_put
    <3>5. slots'[(out + j) % FifoSize] = slots[(out + j) % FifoSize]
      BY <3>2, <3>3, <3>4 DEF TypeOK
    <3>6. out + i - 1 = out + j
      BY <3>1 DEF TypeOK
    <3> QED BY <3>5, <3>6
  <2>2. out' = out
    BY <1>1 DEF kfifo_put
  <2> QED BY <2>1, <2>2 DEF Front
<1>2. CASE ~(len < FifoSize)
  BY <1>2 DEF kfifo_put, fifoVars, Front
<1> QED BY <1>1, <1>2

\* Removing what is there leaves the rest.
LEMMA SkipWithin ==
  ASSUME TypeOK, NEW n \in 0..len, Skip(n)
  PROVE  len' = len - n
<1>1. len - n \in 0..(IndexMod - 1) /\ IndexMod \in Nat \ {0}
  BY DeviceAssumption DEF TypeOK
<1> QED BY <1>1, ModSmall DEF Skip

\* The other file operations leave the kfifo and the transfers alone.
LEMMA FifoFrame ==
  ASSUME TypeOK, NEW r \in Readers,
         \/ UserStep(r)
         \/ Prepare(r) \/ Recheck(r) \/ Resume(r)
  PROVE  /\ UNCHANGED <<slots, out, len, got>>
         /\ \A s \in Readers : pc[s] = "commit" => pc'[s] = "commit"
<1> USE DEF TypeOK, fifoVars, readerVars, Goto, Return
<1>1. CASE UserStep(r)
  <2>1. CASE Open(r) BY <2>1 DEF Open
  <2>2. CASE Close(r) BY <2>2 DEF Close
  <2>3. CASE Mmap(r) BY <2>3 DEF Mmap
  <2>4. CASE Munmap(r) BY <2>4 DEF Munmap
  <2>5. CASE Store(r) BY <2>5 DEF Store
  <2>6. CASE ReadCall(r) BY <2>6 DEF ReadCall
  <2>7. CASE PollCall(r) BY <2>7 DEF PollCall
  <2>8. CASE Signal(r) BY <2>8 DEF Signal
  <2>9. CASE PollTimeout(r) BY <2>9 DEF PollTimeout
  <2> QED BY <1>1, <2>1, <2>2, <2>3, <2>4, <2>5, <2>6, <2>7, <2>8, <2>9 DEF UserStep
<1>2. CASE Prepare(r) BY <1>2 DEF Prepare
<1>3. CASE Recheck(r) BY <1>3 DEF Recheck
<1>4. CASE Resume(r) BY <1>4 DEF Resume
<1> QED BY <1>1, <1>2, <1>3, <1>4

\* So do loading, once begun, and the rest of the callback.
LEMMA FifoFrameDriver ==
  ASSUME \/ LoadRegister \/ LoadRefused \/ LoadTimer
         \/ Rmmod \/ CancelTimer \/ Unregister \/ FreePage
         \/ TimerFire \/ WakeReaders
         \/ UNCHANGED vars
  PROVE  UNCHANGED <<slots, out, len, got, pc>>
BY DEF LoadRegister, LoadRefused, LoadTimer, Rmmod, CancelTimer, Unregister,
       FreePage, TimerFire, WakeReaders, vars, fifoVars, readerVars

\* The fifo of a single reader is intact initially and after every step.
LEMMA FifoInvInductive ==
  ASSUME OneReader
  PROVE  /\ Init => FifoInv
         /\ TypeOK /\ Lifecycle /\ FifoInv /\ [Next]_vars => FifoInv'
<1>1. Init => FifoInv
  BY FrontZero, DeviceAssumption DEF Init, FifoInv, FifoIntact
<1>2. ASSUME TypeOK, Lifecycle, FifoInv, [Next]_vars PROVE FifoInv'
  <2> USE <1>2
  <2>0. \A s \in Readers : Len(got[s]) \in Nat
    BY DEF TypeOK
  <2>1. CASE LoadAlloc
    <3>1. \A s \in Readers : got[s] = <<>>
      BY <2>1 DEF LoadAlloc, Lifecycle, FifoInv
    <3>2. len' = 0 /\ got' = got
      BY <2>1 DEF LoadAlloc, readerVars
    <3> QED BY <3>1, <3>2, FrontZero, DeviceAssumption DEF FifoInv, FifoIntact
  <2>2. CASE PutUpdate
    <3>1. kfifo_put([source |-> irq, tick |-> tick]) /\ UNCHANGED <<got, pc>>
      BY <2>2 DEF PutUpdate, readerVars
    <3>2. len' \in {len, len + 1} /\ len' <= FifoSize
      BY <3>1, DeviceAssumption DEF kfifo_put, fifoVars, TypeOK, FifoInv, FifoIntact
    <3>3. \A s \in Readers : Len(got[s]) <= len'
      BY <2>0, <3>2 DEF TypeOK, FifoInv, FifoIntact
    <3>4. \A s \in Readers : got[s] = Front(Len(got[s]))'
      <4> SUFFICES ASSUME NEW s \in Readers PROVE got[s] = Front(Len(got[s]))'
        OBVIOUS
      <4>1. PICK n \in 0..len : n = Len(got[s]) /\ got[s] = Front(n)
        BY <2>0 DEF TypeOK, FifoInv, FifoIntact
      <4>2. Front(n)' = Front(n)
        BY <4>1, <3>1, PutKeepsFront
      <4> QED BY <3>1, <4>1, <4>2
    <3> QED BY <3>1, <3>2, <3>3, <3>4 DEF FifoInv, FifoIntact
  <2>3. ASSUME NEW r \in Readers, CopyOut(r) PROVE FifoInv'
    <3>1. PICK n \in 0..len : n = Least(call[r].want, len)
      BY DEF TypeOK, Least
    <3>2. got'[r] = Front(n) /\ Len(Front(n)) = n
      BY <2>3, <3>1, FrontType DEF CopyOut, TypeOK
    <3>3. UNCHANGED <<slots, out, len>> /\ pc'[r] = "commit"
      BY <2>3 DEF CopyOut, fifoVars, Goto, TypeOK
    <3>4. Front(n)' = Front(n)
      BY <3>3 DEF Front
    <3>5. \A s \in Readers : s = r
      BY DEF OneReader
    <3>6. Len(got'[r]) = n /\ got'[r] = Front(n)'
      BY <3>2, <3>4
    <3>7. \A s \in Readers : got'[s] = Front(Len(got[s]))' /\ Len(got'[s]) <= len'
      BY <3>1, <3>3, <3>5, <3>6 DEF TypeOK
    <3> QED BY <3>3, <3>5, <3>7 DEF FifoInv, FifoIntact
  <2>4. ASSUME NEW r \in Readers, NEW n \in 0..len, Skip(n), got'[r] = <<>>
        PROVE  FifoInv'
    <3>1. len' = len - n /\ len' <= FifoSize /\ 0 <= len'
      BY <2>4, SkipWithin, DeviceAssumption DEF TypeOK, FifoInv, FifoIntact
    <3>2. \A s \in Readers : got'[s] = <<>>
      BY <2>4 DEF OneReader
    <3> QED BY <3>1, <3>2, FrontZero DEF FifoInv, FifoIntact
  <2>5. ASSUME NEW r \in Readers, Commit(r) PROVE FifoInv'
    <3>1. Len(got[r]) \in 0..len
      BY <2>0 DEF TypeOK, FifoInv, FifoIntact
    <3>2. Skip(Len(got[r])) /\ got'[r] = <<>>
      BY <2>5 DEF Commit, TypeOK
    <3> QED BY <2>4, <3>1, <3>2
  <2>6. ASSUME NEW r \in Readers, CommitFault(r) PROVE FifoInv'
    <3>1. PICK k \in 0..(Len(got[r]) - 1) : Skip(k)
      BY <2>6 DEF CommitFault
    <3>2. k \in 0..len
      BY <2>0, <3>1 DEF TypeOK, FifoInv, FifoIntact
    <3>3. got'[r] = <<>>
      BY <2>6 DEF CommitFault, TypeOK
    <3> QED BY <2>4, <3>1, <3>2, <3>3
  <2>7. ASSUME UNCHANGED <<slots, out, len, got>>,
               \A s \in Readers : pc[s] = "commit" => pc'[s] = "commit"
        PROVE  FifoInv'
    <3>1. \A n \in Nat : Front(n)' = Front(n)
      BY <2>7 DEF Front
    <3>2. \A s \in Readers : got'[s] = Front(Len(got[s]))' /\ Len(got'[s]) <= len'
      BY <2>0, <2>7, <3>1 DEF FifoInv, FifoIntact
    <3> QED BY <2>7, <3>2 DEF FifoInv, FifoIntact
  <2>8. ASSUME NEW r \in Readers,
               UserStep(r) \/ Prepare(r) \/ Recheck(r) \/ Resume(r)
        PROVE  FifoInv'
    BY <2>7, <2>8, FifoFrame
  <2>9. CASE \/ LoadRegister \/ LoadRefused \/ LoadTimer
             \/ Rmmod \/ CancelTimer \/ Unregister \/ FreePage
             \/ TimerFire \/ WakeReaders
             \/ UNCHANGED vars
    BY <2>7, <2>9, FifoFrameDriver
  <2> QED BY <2>1, <2>2, <2>3, <2>5, <2>6, <2>8, <2>9
          DEF Next, ModuleStep, TimerStep, CallStep
<1> QED BY <1>1, <1>2

\* FifoInv holds for a single reader.
LEMMA FifoInvariant ==
  ASSUME OneReader
  PROVE  Spec => []FifoInv
<1>1. Init => FifoInv
  BY FifoInvInductive
<1>2. TypeOK /\ Lifecycle /\ FifoInv /\ [Next]_vars => FifoInv'
  BY FifoInvInductive
<1> QED BY <1>1, <1>2, TypeCorrect, LifecycleInvariant, PTL DEF Spec

\* Lines 63-65 and 114: with a single reader the kfifo's indices never cross.
\* It holds at most FifoSize updates, and what the reader is being given is
\* at the front of it, unchanged, until out has moved past it; the timer may
\* put updates in the middle of the transfer, from another processor too.
THEOREM FifoCorrect ==
  ASSUME OneReader
  PROVE  Spec => []FifoIntact
<1>1. FifoInv => FifoIntact
  BY DEF FifoInv
<1> QED BY <1>1, FifoInvariant, PTL

-----------------------------------------------------------------------------
(* Waiting.                                                                *)

\* Lines 66, 93 and 111: with a single reader no wake-up is lost.  A process
\* is queued on fifo_wq before it looks at the kfifo for the last time, so an
\* update put after that look finds it queued and wakes it.
THEOREM WakeupCorrect ==
  ASSUME OneReader
  PROVE  Spec => []NoLostWakeup
<1>1. Init => NoLostWakeup
  BY DEF Init, NoLostWakeup
<1>2. TypeOK /\ NoLostWakeup /\ [Next]_vars => NoLostWakeup'
  <2> SUFFICES ASSUME TypeOK, NoLostWakeup, [Next]_vars,
                      NEW s \in Readers, pc'[s] = "asleep", s \in waiters', len' # 0
               PROVE  irq' \in {"usec", "xa0", "wake"}
    BY DEF NoLostWakeup
  <2>1. CASE ModuleStep
    BY <2>1 DEF ModuleStep, LoadAlloc, LoadRegister, LoadRefused, LoadTimer, Rmmod,
                CancelTimer, Unregister, FreePage, sampleVars, fifoVars,
                readerVars, NoLostWakeup
  <2>2. CASE TimerFire
    BY <2>2 DEF TimerFire, NoLostWakeup, fifoVars, readerVars
  <2>3. CASE PutUpdate
    BY <2>3 DEF PutUpdate, AfterPut, Sources
  <2>4. CASE WakeReaders
    BY <2>4 DEF WakeReaders
  <2>5. ASSUME NEW r \in Readers, UserStep(r) \/ CallStep(r)
        PROVE  irq' \in {"usec", "xa0", "wake"}
    <3>1. s = r
      BY DEF OneReader
    <3> USE DEF driverVars, sampleVars, fifoVars, readerVars, Goto, Return, TypeOK
    <3>2. CASE Recheck(r)
      BY <3>1, <3>2 DEF Recheck
    <3>3. CASE Store(r)
      BY <3>3 DEF Store, NoLostWakeup
    <3>4. CASE Mmap(r) \/ Munmap(r)
      BY <3>4 DEF Mmap, Munmap, NoLostWakeup
    <3>5. CASE Open(r) \/ Close(r) \/ ReadCall(r) \/ PollCall(r) \/ Signal(r) \/ PollTimeout(r)
      BY <3>1, <3>5 DEF Open, Close, ReadCall, PollCall, Signal, PollTimeout
    <3>6. CASE Prepare(r) \/ Resume(r) \/ CopyOut(r) \/ Commit(r) \/ CommitFault(r)
      BY <3>1, <3>6 DEF Prepare, Resume, CopyOut, Commit, CommitFault
    <3> QED BY <2>5, <3>2, <3>3, <3>4, <3>5, <3>6 DEF UserStep, CallStep
  <2>6. CASE UNCHANGED vars
    BY <2>6 DEF vars, sampleVars, fifoVars, readerVars, NoLostWakeup
  <2> QED BY <2>1, <2>2, <2>3, <2>4, <2>5, <2>6 DEF Next, TimerStep
<1> QED BY <1>1, <1>2, TypeCorrect, PTL DEF Spec

\* What a single reader knows of the kfifo inside and after its calls.
CallInv ==
  \A r \in Readers :
    /\ pc[r] = "copy" => len # 0 \/ Signals
    /\ pc[r] = "commit" /\ got[r] = <<>> => call[r].want = 0 \/ Signals
    /\ ret[r] = "zero" => pc[r] = "open" /\ (call[r].want = 0 \/ Signals)
    /\ ret[r] = "pollin" => pc[r] = "open" /\ len # 0

\* A single reader's calls keep CallInv.
LEMMA CallInvReader ==
  ASSUME TypeOK, CallInv, OneReader,
         NEW r \in Readers, UserStep(r) \/ CallStep(r)
  PROVE  CallInv'
<1> USE DEF TypeOK, driverVars, fifoVars, readerVars, Goto, Return, CallInv
<1>0. \A s \in Readers : s = r
  BY DEF OneReader
<1>1. CASE Open(r) BY <1>0, <1>1 DEF Open
<1>2. CASE Close(r) BY <1>0, <1>2 DEF Close
<1>3. CASE Mmap(r) BY <1>3 DEF Mmap
<1>4. CASE Munmap(r) BY <1>4 DEF Munmap
<1>5. CASE Store(r) BY <1>5 DEF Store
<1>6. CASE ReadCall(r)
  <2>1. ret'[r] \in {"eagain", "none"} /\ UNCHANGED <<len, got>>
    BY <1>6 DEF ReadCall
  <2>2. pc'[r] \in {"open", "prepare", "copy"} /\ (pc'[r] = "copy" => len # 0)
    BY <1>6 DEF ReadCall
  <2> QED BY <1>0, <2>1, <2>2
<1>7. CASE PollCall(r) BY <1>0, <1>7 DEF PollCall
<1>8. CASE Signal(r) BY <1>0, <1>8 DEF Signal
<1>9. CASE PollTimeout(r) BY <1>0, <1>9 DEF PollTimeout
<1>10. CASE Prepare(r) BY <1>0, <1>10 DEF Prepare
<1>11. CASE Recheck(r) BY <1>0, <1>11 DEF Recheck
<1>12. CASE Resume(r) BY <1>0, <1>12 DEF Resume
<1>13. CASE CopyOut(r)
  <2>1. PICK n \in Nat : n = Least(call[r].want, len)
    BY DEF Least
  <2>2. got'[r] = Front(n) /\ Len(Front(n)) = n
    BY <1>13, <2>1, FrontType DEF CopyOut
  <2>3. len # 0 \/ Signals
    BY <1>13 DEF CopyOut
  <2>4. got'[r] = <<>> => call[r].want = 0 \/ Signals
    BY <2>1, <2>2, <2>3, Len(<<>>) = 0 DEF Least
  <2>5. pc'[r] = "commit" /\ UNCHANGED <<call, ret, len>>
    BY <1>13 DEF CopyOut
  <2>6. ret[r] \notin {"zero", "pollin"}
    BY <1>13 DEF CopyOut
  <2> QED BY <1>0, <2>4, <2>5, <2>6
<1>14. CASE Commit(r)
  <2>1. pc'[r] = "open" /\ UNCHANGED call
    BY <1>14 DEF Commit
  <2>2. /\ ret'[r] \in {"zero", "data"}
        /\ ret'[r] = "zero" => call[r].want = 0 \/ Signals
    BY <1>14 DEF Commit
  <2> QED BY <1>0, <2>1, <2>2
<1>15. CASE CommitFault(r) BY <1>0, <1>15 DEF CommitFault
<1> QED BY <1>1, <1>2, <1>3, <1>4, <1>5, <1>6, <1>7, <1>8, <1>9, <1>10,
           <1>11, <1>12, <1>13, <1>14, <1>15 DEF UserStep, CallStep

\* CallInv holds for a single reader.
LEMMA CallInvariant ==
  ASSUME OneReader
  PROVE  Spec => []CallInv
<1>1. Init => CallInv
  BY DEF Init, CallInv
<1>2. TypeOK /\ Lifecycle /\ CallInv /\ [Next]_vars => CallInv'
  <2> SUFFICES ASSUME TypeOK, Lifecycle, CallInv, [Next]_vars PROVE CallInv'
    OBVIOUS
  <2>1. CASE LoadAlloc
    <3>1. \A r \in Readers : pc[r] = "closed"
      BY <2>1 DEF LoadAlloc, Lifecycle
    <3>2. UNCHANGED <<pc, ret>>
      BY <2>1 DEF LoadAlloc, readerVars
    <3> QED BY <3>1, <3>2 DEF CallInv
  <2>2. CASE ModuleStep /\ ~LoadAlloc
    BY <2>2 DEF ModuleStep, LoadRegister, LoadRefused, LoadTimer, Rmmod,
                CancelTimer, Unregister, FreePage, fifoVars, readerVars, CallInv
  <2>3. CASE TimerFire \/ WakeReaders
    BY <2>3 DEF TimerFire, WakeReaders, fifoVars, readerVars, CallInv
  <2>4. CASE PutUpdate
    <3>1. kfifo_put([source |-> irq, tick |-> tick]) /\ UNCHANGED <<pc, call, got, ret>>
      BY <2>4 DEF PutUpdate, readerVars
    <3>2. len # 0 => len' # 0
      BY <3>1, DeviceAssumption DEF kfifo_put, fifoVars, TypeOK
    <3> QED BY <3>1, <3>2 DEF CallInv
  <2>5. ASSUME NEW r \in Readers, UserStep(r) \/ CallStep(r) PROVE CallInv'
    BY <2>5, CallInvReader
  <2>6. CASE UNCHANGED vars
    BY <2>6 DEF vars, fifoVars, readerVars, CallInv
  <2> QED BY <2>1, <2>2, <2>3, <2>4, <2>5, <2>6 DEF Next, TimerStep
<1> QED BY <1>1, <1>2, TypeCorrect, LifecycleInvariant, PTL DEF Spec

\* Lines 106-117: a single reader that no signal reaches never sees the end
\* of the file: read_lophilo returns 0 only for a buffer too small for one
\* update.
THEOREM ReadCorrect ==
  ASSUME OneReader, ~Signals
  PROVE  Spec => []NoEmptyRead
<1>1. CallInv => NoEmptyRead
  BY DEF CallInv, NoEmptyRead
<1> QED BY <1>1, CallInvariant, PTL

\* Lines 93-96: for a single reader, signals or not, a file that poll reported
\* readable stays readable until it is read.
THEOREM PollCorrect ==
  ASSUME OneReader
  PROVE  Spec => []PollTruth
<1>1. CallInv => PollTruth
  BY DEF CallInv, PollTruth
<1> QED BY <1>1, CallInvariant, PTL
=============================================================================
