------------------------ MODULE LophiloStreamProofs ------------------------
(***************************************************************************)
(* What the one reader of the character device receives.                   *)
(*                                                                         *)
(* First, the device implements the update stream: every step of           *)
(* lophilo.c, of the kfifo and of the kernel inside a call is, for that    *)
(* reader, a step of UpdateStream or none at all.  The abstract queue is   *)
(* what lies between the kfifo's out and in, oldest first; the update that *)
(* is due next is the one the callback is about to put or, between two     *)
(* ticks, the first of the next one.                                       *)
(*                                                                         *)
(* Second, on one processor a reading keeps its own time stamp however     *)
(* many updates are lost.                                                  *)
(***************************************************************************)
EXTENDS LophiloDeviceProofs, SequenceTheorems

-----------------------------------------------------------------------------
(* The queue between out and in.                                           *)

\* Advancing out and then counting from it is counting from the old out, as
\* long as both together stay within one turn of the ring.
LEMMA ModShift ==
  ASSUME NEW M \in Nat \ {0}, NEW o \in 0..(M - 1), NEW n \in Nat, NEW i \in Nat,
         n + i < M
  PROVE  (((o + n) % M) + i) % M = (o + (n + i)) % M
<1>1. CASE o + n < M
  BY <1>1, ModSmall
<1>2. CASE ~(o + n < M)
  <2>1. o + n \in M..(2 * M - 1) /\ o + (n + i) \in M..(2 * M - 1)
    BY <1>2
  <2>2. (o + n) % M = o + n - M
    BY <2>1, ModWrap
  <2>4. (o + (n + i)) % M = o + (n + i) - M
    BY <2>1, ModWrap
  <2>3. o + n - M + i \in 0..(M - 1) /\ o + n - M + i = o + (n + i) - M
    BY <2>1
  <2> QED BY <2>2, <2>3, <2>4, ModSmall
<1> QED BY <1>1, <1>2

\* What a transfer reads is the front of the queue.
LEMMA FrontIsPrefix ==
  ASSUME TypeOK, NEW n \in 0..len
  PROVE  Front(n) = SubSeq(Front(len), 1, n)
<1>1. Front(len) \in Seq(Update) /\ Len(Front(len)) = len /\ len \in Nat
  BY FrontType, DeviceAssumption DEF TypeOK
<1>2. Front(n) \in Seq(Update) /\ Len(Front(n)) = n
  BY FrontType, <1>1
<1>3. SubSeq(Front(len), 1, n) \in Seq(Update) /\ Len(SubSeq(Front(len), 1, n)) = n
  BY <1>1
<1>4. \A i \in 1..n : Front(n)[i] = SubSeq(Front(len), 1, n)[i]
  BY <1>1 DEF Front
<1> QED BY <1>2, <1>3, <1>4, SeqEqual

\* An update that finds room joins the queue at its end.
LEMMA PutAppends ==
  ASSUME TypeOK, TypeOK', len < FifoSize, NEW u \in Update, kfifo_put(u)
  PROVE  Front(len)' = Append(Front(len), u)
<1>1. Front(len) \in Seq(Update) /\ Len(Front(len)) = len /\ len \in Nat
  BY FrontType, DeviceAssumption DEF TypeOK
<1>2. len' = len + 1 /\ out' = out
      /\ slots' = [slots EXCEPT ![(out + len) % FifoSize] = u]
  BY DEF kfifo_put
<1>3. Front(len)' = [i \in 1..(len + 1) |-> slots'[(out + i - 1) % FifoSize]]
  BY <1>2 DEF Front
<1>4. \A i \in 1..len : slots'[(out + i - 1) % FifoSize] = Front(len)[i]
  <2>1. Front(len)' = [i \in 1..len' |-> slots'[(out' + i - 1) % FifoSize]]
    BY DEF Front
  <2> SUFFICES ASSUME NEW i \in 1..len
               PROVE  slots'[(out + i - 1) % FifoSize] = slots[(out + i - 1) % FifoSize]
    BY DEF Front
  <2>2. i - 1 \in 0..(FifoSize - 1) /\ len \in 0..(FifoSize - 1) /\ i - 1 # len
    BY <1>1, DeviceAssumption
  <2>3. (out + (i - 1)) % FifoSize # (out + len) % FifoSize
    BY <2>2, RingInjective, DeviceAssumption DEF TypeOK
  <2>4. out + i - 1 = out + (i - 1) /\ out + (i - 1) \in Int
    BY <1>1 DEF TypeOK
  <2>5. (out + (i - 1)) % FifoSize \in 0..(FifoSize - 1)
    BY <2>4, ModRange, DeviceAssumption
  <2> QED BY <1>2, <2>3, <2>4, <2>5 DEF TypeOK
<1>5. slots'[(out + (len + 1) - 1) % FifoSize] = u
  <2>1. out + (len + 1) - 1 = out + len /\ out + len \in Int
    BY <1>1 DEF TypeOK
  <2>2. (out + len) % FifoSize \in 0..(FifoSize - 1)
    BY <2>1, ModRange, DeviceAssumption
  <2> QED BY <1>2, <2>1, <2>2 DEF TypeOK
<1>6. Append(Front(len), u) \in Seq(Update) /\ Len(Append(Front(len), u)) = len + 1
  BY <1>1
<1>7. \A i \in 1..(len + 1) : slots'[(out + i - 1) % FifoSize] = Append(Front(len), u)[i]
  BY <1>1, <1>4, <1>5
<1>8. Front(len)' = [i \in 1..(len + 1) |-> Append(Front(len), u)[i]]
  BY <1>3, <1>7
<1>9. \A s \in Seq(Update) : s = [i \in 1..Len(s) |-> s[i]]
  OBVIOUS
<1> QED BY <1>6, <1>8, <1>9

\* Advancing out by n removes the n oldest updates and leaves the others.
LEMMA SkipRemoves ==
  ASSUME TypeOK, len <= FifoSize, NEW n \in 0..len, Skip(n)
  PROVE  Front(len)' = SubSeq(Front(len), n + 1, len)
<1>1. Front(len) \in Seq(Update) /\ Len(Front(len)) = len /\ len \in Nat
  BY FrontType, DeviceAssumption DEF TypeOK
<1>2. len' = len - n
  BY SkipWithin
<1>3. out' = (out + n) % FifoSize
  BY DEF Skip
<1>4. \A i \in 1..(len - n) :
        slots'[(out' + i - 1) % FifoSize] = Front(len)[n + i]
  <2> SUFFICES ASSUME NEW i \in 1..(len - n)
               PROVE  slots'[(out' + i - 1) % FifoSize] = slots[(out + (n + i) - 1) % FifoSize]
    BY <1>1 DEF Front
  <2> DEFINE j == n + (i - 1)
  <2>1. j \in 0..(FifoSize - 1) /\ j >= n /\ out \in 0..(FifoSize - 1)
        /\ FifoSize \in Nat \ {0} /\ i - 1 \in Nat /\ n \in Nat
    BY <1>1, DeviceAssumption DEF TypeOK
  <2>2. out' + i - 1 = out' + (i - 1) /\ out + (n + i) - 1 = out + j
    <3>1. out' \in Int
      BY <1>3, <2>1, ModRange
    <3> QED BY <2>1, <3>1
  <2>3. (out' + (i - 1)) % FifoSize = (out + j) % FifoSize
    <3>1. n + (i - 1) < FifoSize
      BY <2>1
    <3> QED BY <1>3, <2>1, <3>1, ModShift
  <2>4. (out + j) % FifoSize \in 0..(FifoSize - 1)
    <3>1. out + j \in Int
      BY <2>1
    <3> QED BY <2>1, <3>1, ModRange
  <2>5. \A m \in 1..n : (out + j) % FifoSize # (out + m - 1) % FifoSize
    <3> SUFFICES ASSUME NEW m \in 1..n
                 PROVE  (out + j) % FifoSize # (out + m - 1) % FifoSize
      OBVIOUS
    <3>1. m - 1 \in 0..(FifoSize - 1) /\ m - 1 # j /\ out + m - 1 = out + (m - 1)
      BY <2>1
    <3> HIDE DEF j
    <3> QED BY <2>1, <3>1, RingInjective
  <2>6. slots'[(out + j) % FifoSize] = slots[(out + j) % FifoSize]
    <3> HIDE DEF j
    <3> QED BY <2>4, <2>5 DEF Skip
  <2> QED BY <2>2, <2>3, <2>6
<1>5. Front(len)' = [i \in 1..(len - n) |-> Front(len)[n + i]]
  <2>1. Front(len)' = [i \in 1..len' |-> slots'[(out' + i - 1) % FifoSize]]
    BY DEF Front
  <2> QED BY <1>2, <1>4, <2>1
<1> QED BY <1>1, <1>5

-----------------------------------------------------------------------------
(* The steps, one by one.                                                  *)

\* Steps that the stream does not see.
LEMMA Unseen ==
  ASSUME UNCHANGED <<slots, out, len, handed>>, AbstractDue' = AbstractDue
  PROVE  UNCHANGED Promise!streamVars
<1>1. Front(len)' = Front(len)
  BY DEF Front
<1> QED BY <1>1 DEF Promise!streamVars, AbstractQueue

\* Loading, unloading and the callback outside its puts are not seen: the
\* callback's first step makes due what was due already, and its last one
\* makes the next tick's second due.
LEMMA DriverUnseen ==
  ASSUME TypeOK,
         \/ LoadRegister \/ LoadRefused \/ LoadTimer
         \/ Rmmod \/ CancelTimer \/ Unregister \/ FreePage
         \/ TimerFire \/ WakeReaders
         \/ UNCHANGED vars
  PROVE  UNCHANGED Promise!streamVars
<1>1. UNCHANGED <<slots, out, len, handed>>
  BY DEF LoadRegister, LoadRefused, LoadTimer, Rmmod, CancelTimer, Unregister,
         FreePage, TimerFire, WakeReaders, vars, fifoVars
<1>2. CASE TimerFire
  <2>1. AbstractDue' = AbstractDue
    BY <1>2 DEF TimerFire, AbstractDue, Sources
  <2> QED BY <1>1, <2>1, Unseen
<1>3. CASE WakeReaders
  <2>1. AbstractDue' = AbstractDue
    BY <1>3 DEF WakeReaders, AbstractDue, Sources
  <2> QED BY <1>1, <2>1, Unseen
<1>4. CASE ~TimerFire /\ ~WakeReaders
  <2>1. AbstractDue' = AbstractDue
    BY <1>4 DEF LoadRegister, LoadRefused, LoadTimer, Rmmod, CancelTimer,
                Unregister, FreePage, vars, sampleVars, AbstractDue
  <2> QED BY <1>1, <2>1, Unseen
<1> QED BY <1>2, <1>3, <1>4

\* A file operation moves neither the timer nor its time stamp, and only the
\* end of a transfer hands anything over.
LEMMA ReaderUnseen ==
  ASSUME TypeOK, NEW r \in Readers,
         \/ UserStep(r)
         \/ Prepare(r) \/ Recheck(r) \/ Resume(r) \/ CopyOut(r)
  PROVE  UNCHANGED Promise!streamVars
<1> USE DEF driverVars, moduleVars, sampleVars, fifoVars
<1>1. UNCHANGED <<slots, out, len, handed, irq, tick>>
  <2>1. CASE UserStep(r)
    BY <2>1 DEF UserStep, Open, Close, Mmap, Munmap, Store, ReadCall, PollCall,
                Signal, PollTimeout
  <2>2. CASE Prepare(r) \/ Recheck(r) \/ Resume(r) \/ CopyOut(r)
    BY <2>2 DEF Prepare, Recheck, Resume, CopyOut
  <2> QED BY <2>1, <2>2
<1> QED BY <1>1, Unseen DEF AbstractDue

\* A put accepts the update that is due, or loses it when the kfifo is full;
\* the next one of the three is due after it.
LEMMA PutOffers ==
  ASSUME TypeOK, TypeOK', FifoIntact, PutUpdate
  PROVE  Promise!Accept \/ Promise!Lose
<1> DEFINE u == [source |-> irq, tick |-> tick]
<1>1. irq \in {"sec", "usec", "xa0"} /\ kfifo_put(u) /\ UNCHANGED <<tick, handed>>
      /\ irq' = AfterPut[irq]
  BY DEF PutUpdate, Sources
<1>2. u \in Update /\ AbstractDue = u
  BY <1>1 DEF TypeOK, Update, AbstractDue, Sources
<1>3. AbstractDue' = Promise!Following(AbstractDue)
  <2>1. CASE irq = "sec"
    BY <1>1, <2>1 DEF AfterPut, AbstractDue, Sources, Promise!Following
  <2>2. CASE irq = "usec"
    BY <1>1, <2>2 DEF AfterPut, AbstractDue, Sources, Promise!Following
  <2>3. CASE irq = "xa0"
    BY <1>1, <2>3 DEF AfterPut, AbstractDue, Sources, Promise!Following
  <2> QED BY <1>1, <2>1, <2>2, <2>3
<1>4. Len(AbstractQueue) = len
  <2>1. len \in Nat
    BY DeviceAssumption DEF TypeOK
  <2> QED BY <2>1, FrontType DEF AbstractQueue
<1> HIDE DEF u
<1>5. CASE len < FifoSize
  <2>1. AbstractQueue' = Append(AbstractQueue, AbstractDue)
    BY <1>1, <1>2, <1>5, PutAppends DEF AbstractQueue
  <2> QED BY <1>1, <1>3, <1>4, <1>5, <2>1 DEF Promise!Accept
<1>6. CASE ~(len < FifoSize)
  <2>1. len = FifoSize
    BY <1>6, DeviceAssumption DEF TypeOK, FifoIntact
  <2>2. UNCHANGED <<slots, out, len>>
    BY <1>1, <1>6 DEF kfifo_put, fifoVars
  <2>3. AbstractQueue' = AbstractQueue
    BY <2>2 DEF AbstractQueue, Front
  <2> QED BY <1>1, <1>3, <1>4, <2>1, <2>3 DEF Promise!Lose
<1> QED BY <1>5, <1>6

\* The end of a transfer takes from the queue what it hands over, or nothing
\* when nothing was transferred.
LEMMA CommitTakes ==
  ASSUME TypeOK, FifoIntact, NEW r \in Readers, Commit(r)
  PROVE  Promise!Take \/ UNCHANGED Promise!streamVars
<1>1. PICK n \in 0..len : n = Len(got[r])
  BY DEF TypeOK, FifoIntact
<1>2. got[r] = Front(n)
  BY <1>1 DEF FifoIntact
<1>3. len <= FifoSize /\ Skip(n)
  BY <1>1 DEF FifoIntact, Commit
<1>4. Front(len)' = SubSeq(Front(len), n + 1, len)
  BY <1>3, SkipRemoves
<1>5. Len(Front(len)) = len /\ Front(len) \in Seq(Update) /\ len \in Nat
  BY FrontType, DeviceAssumption DEF TypeOK
<1>6. UNCHANGED <<irq, tick>> /\ AbstractDue' = AbstractDue
  BY DEF Commit, driverVars, sampleVars, AbstractDue
<1>7. CASE n = 0
  <2>1. got[r] = <<>>
    BY <1>2, <1>7, FrontZero
  <2>2. handed' = handed
    BY <2>1 DEF Commit
  <2>3. Front(len)' = Front(len)
    BY <1>4, <1>5, <1>7
  <2> QED BY <1>6, <2>2, <2>3 DEF Promise!streamVars, AbstractQueue
<1>8. CASE n # 0
  <2>1. got[r] # <<>>
    BY <1>1, <1>8
  <2>2. handed' = LastTwo(handed \o SubSeq(Front(len), 1, n))
    BY <1>2, <2>1, FrontIsPrefix DEF Commit
  <2>3. n \in 1..Len(Front(len))
    BY <1>5, <1>8
  <2> QED BY <1>4, <1>5, <1>6, <2>2, <2>3
          DEF Promise!Take, Promise!Remove, Promise!LastTwo, LastTwo, AbstractQueue
<1> QED BY <1>7, <1>8

\* A transfer to a bad address takes some updates and hands over none.
LEMMA FaultSpoils ==
  ASSUME TypeOK, FifoIntact, NEW r \in Readers, CommitFault(r)
  PROVE  Promise!Spoil
<1>1. PICK k \in 0..(Len(got[r]) - 1) : Skip(k)
  BY DEF CommitFault
<1>2. k \in 0..len /\ len <= FifoSize
  BY <1>1 DEF TypeOK, FifoIntact
<1>3. Front(len)' = SubSeq(Front(len), k + 1, len)
  BY <1>1, <1>2, SkipRemoves
<1>4. Len(Front(len)) = len
  BY FrontType, DeviceAssumption DEF TypeOK
<1>5. AbstractDue' = AbstractDue /\ handed' = <<>> /\ Faults
  BY DEF CommitFault, driverVars, sampleVars, AbstractDue
<1> QED BY <1>2, <1>3, <1>4, <1>5 DEF Promise!Spoil, Promise!Remove, AbstractQueue

\* Loading the driver starts the stream again: no callback is running then.
LEMMA LoadRestarts ==
  ASSUME TypeOK, Lifecycle, LoadAlloc
  PROVE  Promise!Restart
<1>1. irq = "idle" /\ irq' = irq /\ tick' = 0 /\ len' = 0 /\ handed' = <<>>
  BY DEF LoadAlloc, Lifecycle
<1>2. AbstractDue' = Promise!FirstDue
  BY <1>1 DEF AbstractDue, Sources, Promise!FirstDue
<1>3. AbstractQueue' = <<>>
  BY <1>1, FrontZero DEF AbstractQueue
<1> QED BY <1>1, <1>2, <1>3 DEF Promise!Restart

-----------------------------------------------------------------------------
\* For a single reader, on one processor or many, with faults or without, the
\* device of cdev/lophilo.c implements the update stream: an update is lost
\* only when the queue is full at the moment it is put (lines 63-65), the
\* others are handed over in the order they were put, each at most once (line
\* 114), however the callback and the reader's transfer interleave.
THEOREM Refinement ==
  ASSUME OneReader
  PROVE  Spec => ImplementsStream
<1>1. Init => Promise!StreamInit
  BY FrontZero DEF Init, Promise!StreamInit, Promise!FirstDue, AbstractQueue,
                   AbstractDue, Sources
<1>2. TypeOK /\ TypeOK' /\ Lifecycle /\ FifoInv /\ [Next]_vars
        => [Promise!StreamNext]_(Promise!streamVars)
  <2> SUFFICES ASSUME TypeOK, TypeOK', Lifecycle, FifoInv, [Next]_vars
               PROVE  Promise!StreamNext \/ UNCHANGED Promise!streamVars
    OBVIOUS
  <2> FifoIntact
    BY DEF FifoInv
  <2>1. CASE LoadAlloc
    BY <2>1, LoadRestarts DEF Promise!StreamNext
  <2>2. CASE PutUpdate
    BY <2>2, PutOffers DEF Promise!StreamNext
  <2>3. ASSUME NEW r \in Readers, Commit(r)
        PROVE  Promise!StreamNext \/ UNCHANGED Promise!streamVars
    BY <2>3, CommitTakes DEF Promise!StreamNext
  <2>4. ASSUME NEW r \in Readers, CommitFault(r)
        PROVE  Promise!StreamNext \/ UNCHANGED Promise!streamVars
    BY <2>4, FaultSpoils DEF Promise!StreamNext
  <2>5. ASSUME NEW r \in Readers,
               \/ UserStep(r)
               \/ Prepare(r) \/ Recheck(r) \/ Resume(r) \/ CopyOut(r)
        PROVE  Promise!StreamNext \/ UNCHANGED Promise!streamVars
    BY <2>5, ReaderUnseen
  <2>6. CASE \/ LoadRegister \/ LoadRefused \/ LoadTimer
             \/ Rmmod \/ CancelTimer \/ Unregister \/ FreePage
             \/ TimerFire \/ WakeReaders
             \/ UNCHANGED vars
    BY <2>6, DriverUnseen
  <2> QED BY <2>1, <2>2, <2>3, <2>4, <2>5, <2>6
          DEF Next, ModuleStep, TimerStep, CallStep
<1> QED BY <1>1, <1>2, TypeCorrect, LifecycleInvariant, FifoInvariant, PTL
        DEF Spec, ImplementsStream, Promise!StreamSpec

-----------------------------------------------------------------------------
(* The stamps.                                                             *)

\* On one processor no reader gets between the puts of a tick.  If the kfifo
\* still has room at the second or the third of them, the ones before it were
\* accepted, and they are the last in the queue.
TickInv ==
  /\ irq = "usec" /\ len < FifoSize =>
       len >= 1 /\ Front(len)[len] = [source |-> "sec", tick |-> tick]
  /\ irq = "xa0" /\ len < FifoSize =>
       /\ len >= 2
       /\ Front(len)[len] = [source |-> "usec", tick |-> tick]
       /\ Front(len)[len - 1] = [source |-> "sec", tick |-> tick]

StampInv == StampedByOwnTick /\ TickInv

\* t is what is left of s when some elements at its front are gone.
IsRemainder(t, s) == \E d \in 0..Len(s) :
  /\ Len(t) = Len(s) - d
  /\ \A i \in 1..(Len(s) - d) : t[i] = s[i + d]

\* The stream is a sequence of updates, the queue after what was handed over.
LEMMA StreamElements ==
  ASSUME TypeOK
  PROVE  /\ Stream \in Seq(Update)
         /\ Len(Stream) = Len(handed) + len
         /\ \A i \in 1..Len(handed) : Stream[i] = handed[i]
         /\ \A i \in 1..len : Stream[Len(handed) + i] = Front(len)[i]
<1>1. Front(len) \in Seq(Update) /\ Len(Front(len)) = len /\ len \in Nat
  BY FrontType, DeviceAssumption DEF TypeOK
<1>2. handed \in Seq(Update)
  BY DEF TypeOK
<1> QED BY <1>1, <1>2 DEF Stream

\* A suffix of a well stamped stream is well stamped.
LEMMA SuffixStamped ==
  ASSUME TypeOK, StampedByOwnTick, IsRemainder(Stream', Stream)
  PROVE  StampedByOwnTick'
<1> SUFFICES ASSUME NEW i \in 3..Len(Stream'), Stream'[i].source = "xa0"
             PROVE  /\ Stream'[i - 1] = [source |-> "usec", tick |-> Stream'[i].tick]
                    /\ Stream'[i - 2] = [source |-> "sec", tick |-> Stream'[i].tick]
  BY DEF StampedByOwnTick
<1>0. PICK d \in 0..Len(Stream) :
        /\ Len(Stream') = Len(Stream) - d
        /\ \A j \in 1..(Len(Stream) - d) : Stream'[j] = Stream[j + d]
  BY DEF IsRemainder
<1>1. Len(Stream) \in Nat /\ d \in Nat /\ i \in 3..(Len(Stream) - d)
  <2>1. Stream \in Seq(Update)
    BY StreamElements
  <2> HIDE DEF Stream
  <2>2. Len(Stream) \in Nat
    BY <2>1
  <2> QED BY <1>0, <2>2
<1>2. /\ Stream'[i] = Stream[i + d]
      /\ Stream'[i - 1] = Stream[(i + d) - 1]
      /\ Stream'[i - 2] = Stream[(i + d) - 2]
  <2>1. \A j \in 1..(Len(Stream) - d) : Stream'[j] = Stream[j + d]
    BY <1>0
  <2>2. /\ i \in 1..(Len(Stream) - d)
        /\ i - 1 \in 1..(Len(Stream) - d) /\ (i - 1) + d = (i + d) - 1
        /\ i - 2 \in 1..(Len(Stream) - d) /\ (i - 2) + d = (i + d) - 2
    BY <1>1
  <2> HIDE DEF Stream
  <2> QED BY <2>1, <2>2
<1>3. i + d \in 3..Len(Stream)
  BY <1>1
<1> QED BY <1>2, <1>3 DEF StampedByOwnTick

\* The last two elements of a sequence are a suffix of it.
LEMMA LastTwoSuffix ==
  ASSUME NEW S, NEW s \in Seq(S)
  PROVE  IsRemainder(LastTwo(s), s)
<1>1. CASE Len(s) < 2
  <2>1. LastTwo(s) = SubSeq(s, 1, Len(s))
    BY <1>1 DEF LastTwo
  <2>2. LastTwo(s) = s
    BY <2>1, SubSeqFull
  <2>3. 0 \in 0..Len(s) /\ \A i \in 1..(Len(s) - 0) : i + 0 = i
    OBVIOUS
  <2> QED BY <2>2, <2>3 DEF IsRemainder
<1>2. CASE ~(Len(s) < 2)
  <2>1. LastTwo(s) = SubSeq(s, Len(s) - 1, Len(s))
    BY <1>2 DEF LastTwo
  <2> DEFINE d == Len(s) - 2
  <2>2. d \in 0..Len(s) /\ Len(s) - d = 2
    BY <1>2
  <2>3. Len(LastTwo(s)) = 2 /\ \A i \in 1..2 : LastTwo(s)[i] = s[i + (Len(s) - 2)]
    BY <1>2, <2>1
  <2> QED BY <2>2, <2>3 DEF IsRemainder
<1> QED BY <1>1, <1>2

\* The stream when n more updates of the queue q have been handed over after h.
Later(h, q, n) == LastTwo(h \o SubSeq(q, 1, n)) \o SubSeq(q, n + 1, Len(q))

\* Handing over n updates of a queue, and forgetting all but the last two of
\* those handed over, leaves a suffix of the stream.
LEMMA HandOver ==
  ASSUME NEW S, NEW h \in Seq(S), NEW q \in Seq(S), NEW n \in 0..Len(q)
  PROVE  IsRemainder(Later(h, q, n), h \o q)
<1> DEFINE s == h \o SubSeq(q, 1, n)
           t == h \o q
           h2 == LastTwo(s)
           q2 == SubSeq(q, n + 1, Len(q))
<1>1. /\ Len(h) \in Nat /\ Len(q) \in Nat
      /\ SubSeq(q, 1, n) \in Seq(S) /\ Len(SubSeq(q, 1, n)) = n
      /\ q2 \in Seq(S) /\ Len(q2) = Len(q) - n
      /\ \A i \in 1..Len(q2) : q2[i] = q[n + i]
  OBVIOUS
<1>2. s \in Seq(S) /\ Len(s) = Len(h) + n
  BY <1>1
<1>3. Len(t) = Len(h) + Len(q) /\ \A i \in 1..Len(q) : t[Len(h) + i] = q[i]
  OBVIOUS
<1>4. \A i \in 1..Len(s) : s[i] = t[i]
  BY <1>1
<1> HIDE DEF s, q2
<1>5. PICK d \in 0..Len(s) :
        /\ Len(LastTwo(s)) = Len(s) - d
        /\ \A i \in 1..(Len(s) - d) : LastTwo(s)[i] = s[i + d]
  BY <1>2, LastTwoSuffix DEF IsRemainder
<1>6. h2 = LastTwo(s) /\ h2 \in Seq(S)
  BY <1>2, LastTwoType
<1> HIDE DEF h2
<1>7. /\ Len(h2) = Len(s) - d
      /\ Len(h2 \o q2) = Len(h2) + Len(q2)
      /\ \A i \in 1..Len(h2) : (h2 \o q2)[i] = h2[i]
      /\ \A i \in 1..Len(q2) : (h2 \o q2)[Len(h2) + i] = q2[i]
  <2>1. Len(h2) = Len(s) - d
    BY <1>5, <1>6
  <2>2. q2 \in Seq(S) /\ h2 \in Seq(S)
    BY <1>1, <1>6
  <2>3. /\ Len(h2 \o q2) = Len(h2) + Len(q2)
        /\ \A i \in 1..Len(h2) : (h2 \o q2)[i] = h2[i]
        /\ \A i \in 1..Len(q2) : (h2 \o q2)[Len(h2) + i] = q2[i]
    BY <2>2
  <2> QED BY <2>1, <2>3, Zenon
<1> HIDE DEF t
<1> DEFINE lh == Len(h)  lq == Len(q)  ls == Len(s)  l2 == Len(h2)  k2 == Len(q2)
<1>10. /\ lh \in Nat /\ lq \in Nat /\ n \in 0..lq /\ d \in 0..ls /\ ls = lh + n
       /\ ls \in Nat /\ l2 \in Nat /\ k2 \in Nat
       /\ Len(t) = lh + lq /\ l2 = ls - d /\ k2 = lq - n
       /\ Len(h2 \o q2) = l2 + k2
  BY <1>1, <1>2, <1>3, <1>7
<1> HIDE DEF lh, lq, ls, l2, k2
<1>8. d \in 0..Len(t) /\ Len(h2 \o q2) = Len(t) - d
  <2>1. d \in 0..(lh + lq)
    BY <1>10
  <2>2. l2 + k2 = (lh + lq) - d
    BY <1>10
  <2> QED BY <1>10, <2>1, <2>2
<1>9. ASSUME NEW i \in 1..(Len(t) - d) PROVE (h2 \o q2)[i] = t[i + d]
  <2>1. CASE i <= l2
    <3>1. i \in 1..l2 /\ i + d \in 1..ls
      BY <1>10, <2>1
    <3>2. i \in 1..(ls - d)
      BY <1>10, <3>1
    <3> QED BY <1>4, <1>5, <1>6, <1>7, <3>1, <3>2 DEF l2, ls
  <2>2. CASE ~(i <= l2)
    <3>1. i - l2 \in 1..k2 /\ i = l2 + (i - l2)
          /\ n + (i - l2) \in 1..lq /\ i + d = lh + (n + (i - l2))
      BY <1>10, <2>2
    <3>2. (h2 \o q2)[i] = q2[i - l2]
      BY <1>7, <3>1 DEF l2, k2
    <3>3. q2[i - l2] = q[n + (i - l2)]
      BY <1>1, <3>1 DEF k2
    <3>4. t[i + d] = q[n + (i - l2)]
      BY <1>3, <3>1 DEF lh, lq
    <3> QED BY <3>2, <3>3, <3>4
  <2> QED BY <2>1, <2>2
<1>11. Later(h, q, n) = h2 \o q2
  BY DEF Later, h2, q2, s
<1>12. IsRemainder(h2 \o q2, t)
  BY <1>8, <1>9 DEF IsRemainder
<1> QED BY <1>11, <1>12 DEF t

\* A finished transfer drops from the stream at most what was handed over
\* before the last two updates.
LEMMA CommitShortens ==
  ASSUME TypeOK, FifoIntact, NEW r \in Readers, Commit(r)
  PROVE  IsRemainder(Stream', Stream)
<1>1. PICK n \in 0..len : n = Len(got[r])
  BY DEF TypeOK, FifoIntact
<1>2. got[r] = Front(n)
  BY <1>1 DEF FifoIntact
<1>3. len <= FifoSize /\ Skip(n)
  BY <1>1 DEF FifoIntact, Commit
<1>4. Front(len)' = SubSeq(Front(len), n + 1, len)
  BY <1>3, SkipRemoves
<1>5. /\ Len(Front(len)) = len /\ Front(len) \in Seq(Update)
      /\ handed \in Seq(Update) /\ len \in Nat
  BY FrontType, DeviceAssumption DEF TypeOK
<1>6. CASE n = 0
  <2>1. got[r] = <<>>
    BY <1>2, <1>6, FrontZero
  <2>2. handed' = handed
    BY <2>1 DEF Commit
  <2>3. Front(len)' = Front(len)
    BY <1>4, <1>5, <1>6
  <2>4. Stream' = Stream
    BY <2>2, <2>3 DEF Stream
  <2>5. Len(Stream) \in Nat
    BY <1>5 DEF Stream
  <2> HIDE DEF Stream
  <2>6. 0 \in 0..Len(Stream) /\ \A i \in 1..(Len(Stream) - 0) : Stream[i] = Stream[i + 0]
    BY <2>5
  <2> QED BY <2>4, <2>5, <2>6 DEF IsRemainder
<1>7. CASE n # 0
  <2>1. got[r] # <<>>
    BY <1>1, <1>7
  <2>2. handed' = LastTwo(handed \o SubSeq(Front(len), 1, n))
    BY <1>2, <2>1, FrontIsPrefix DEF Commit
  <2>3. Stream' = Later(handed, Front(len), n)
    BY <1>4, <1>5, <2>2 DEF Stream, Later
  <2>4. Stream = handed \o Front(len)
    BY DEF Stream
  <2>5. n \in 0..Len(Front(len))
    BY <1>5
  <2>6. IsRemainder(Later(handed, Front(len), n), handed \o Front(len))
    BY <1>5, <2>5, HandOver
  <2> QED BY <2>3, <2>4, <2>6
<1> QED BY <1>6, <1>7

\* A transfer to a bad address drops all that was handed over, and what it
\* took from the queue.
LEMMA FaultShortens ==
  ASSUME TypeOK, FifoIntact, NEW r \in Readers, CommitFault(r)
  PROVE  IsRemainder(Stream', Stream)
<1>1. PICK k \in 0..(Len(got[r]) - 1) : Skip(k)
  BY DEF CommitFault
<1>2. k \in 0..len /\ len <= FifoSize
  BY <1>1 DEF TypeOK, FifoIntact
<1>3. Front(len)' = SubSeq(Front(len), k + 1, len)
  BY <1>1, <1>2, SkipRemoves
<1>4. /\ Len(Front(len)) = len /\ Front(len) \in Seq(Update) /\ len \in Nat
      /\ Len(handed) \in Nat
  <2>1. len \in Nat /\ Len(handed) \in Nat
    BY DeviceAssumption DEF TypeOK
  <2> QED BY <2>1, FrontType
<1>5. Stream' = SubSeq(Front(len), k + 1, len)
  <2>1. handed' = <<>>
    BY DEF CommitFault
  <2>2. SubSeq(Front(len), k + 1, len) \in Seq(Update)
    BY <1>2, <1>4
  <2> QED BY <1>3, <2>1, <2>2, ConcatEmptySeq DEF Stream
<1>6. /\ Len(Stream') = len - k
      /\ \A i \in 1..(len - k) : Stream'[i] = Front(len)[i + k]
  BY <1>2, <1>4, <1>5
<1> DEFINE d == Len(handed) + k
<1>7. d \in 0..Len(Stream) /\ Len(Stream') = Len(Stream) - d
  BY <1>2, <1>4, <1>6, StreamElements
<1>8. ASSUME NEW i \in 1..(Len(Stream) - d) PROVE Stream'[i] = Stream[i + d]
  <2>1. i \in 1..(len - k) /\ i + k \in 1..len /\ i + d = Len(handed) + (i + k)
    BY <1>2, <1>4, StreamElements
  <2> QED BY <1>6, <2>1, StreamElements
<1> QED BY <1>7, <1>8 DEF IsRemainder

\* A put keeps the stamps: the reading joins the queue only behind its own
\* second and microsecond.
LEMMA PutStamped ==
  ASSUME TypeOK, TypeOK', FifoIntact, StampInv, PutUpdate
  PROVE  StampInv'
<1> DEFINE u == [source |-> irq, tick |-> tick]
<1>1. irq \in {"sec", "usec", "xa0"} /\ kfifo_put(u) /\ UNCHANGED <<tick, handed>>
      /\ irq' = AfterPut[irq]
  BY DEF PutUpdate, Sources
<1>2. u \in Update
  BY <1>1 DEF TypeOK, Update, Sources
<1>3. /\ irq' = "usec" => irq = "sec"
      /\ irq' = "xa0" => irq = "usec"
  BY <1>1 DEF AfterPut
<1>4. /\ Front(len) \in Seq(Update) /\ Len(Front(len)) = len /\ len \in Nat
      /\ handed \in Seq(Update) /\ Len(handed) \in Nat
  <2>1. len \in Nat
    BY DeviceAssumption DEF TypeOK
  <2>2. handed \in Seq(Update)
    BY DEF TypeOK
  <2> QED BY <2>1, <2>2, FrontType
<1> HIDE DEF u
<1>5. CASE len < FifoSize
  <2>1. Front(len)' = Append(Front(len), u) /\ len' = len + 1
    BY <1>1, <1>2, <1>5, PutAppends DEF kfifo_put
  <2>2. /\ Append(Front(len), u)[len + 1] = u
        /\ len >= 1 => Append(Front(len), u)[(len + 1) - 1] = Front(len)[len]
    BY <1>2, <1>4
  <2>3. TickInv'
    <3>1. CASE irq' = "usec"
      BY <1>1, <1>3, <1>4, <2>1, <2>2, <3>1 DEF TickInv, u
    <3>2. CASE irq' = "xa0"
      <4>1. len >= 1 /\ Front(len)[len] = [source |-> "sec", tick |-> tick]
        BY <1>3, <1>5, <3>2 DEF StampInv, TickInv
      <4>2. u = [source |-> "usec", tick |-> tick]
        BY <1>3, <3>2 DEF u
      <4> QED BY <1>1, <1>4, <2>1, <2>2, <3>2, <4>1, <4>2 DEF TickInv
    <3>3. CASE irq' \notin {"usec", "xa0"}
      BY <3>3 DEF TickInv
    <3> QED BY <3>1, <3>2, <3>3
  <2>4. Stream' = Append(Stream, u)
    <3>1. handed \o Append(Front(len), u) = Append(handed \o Front(len), u)
      BY <1>2, <1>4
    <3> QED BY <1>1, <2>1, <3>1 DEF Stream
  <2>5. /\ Stream \in Seq(Update)
        /\ Len(Stream) = Len(handed) + len
        /\ \A i \in 1..len : Stream[Len(handed) + i] = Front(len)[i]
    BY StreamElements
  <2>6. ASSUME NEW i \in 3..Len(Append(Stream, u)), Append(Stream, u)[i].source = "xa0"
        PROVE  /\ Append(Stream, u)[i - 1]
                    = [source |-> "usec", tick |-> Append(Stream, u)[i].tick]
               /\ Append(Stream, u)[i - 2]
                    = [source |-> "sec", tick |-> Append(Stream, u)[i].tick]
    <3> HIDE DEF Stream
    <3>1. CASE i \in 3..Len(Stream)
      <4>1. /\ Append(Stream, u)[i] = Stream[i]
            /\ Append(Stream, u)[i - 1] = Stream[i - 1]
            /\ Append(Stream, u)[i - 2] = Stream[i - 2]
        BY <1>2, <2>5, <3>1
      <4> QED BY <2>6, <3>1, <4>1 DEF StampInv, StampedByOwnTick
    <3>2. CASE i \notin 3..Len(Stream)
      <4>1. i = Len(Stream) + 1 /\ Append(Stream, u)[i] = u
        BY <1>2, <2>5, <3>2
      <4>2. irq = "xa0" /\ u.tick = tick
        BY <2>6, <4>1 DEF u
      <4>3. /\ len >= 2
            /\ Front(len)[len] = [source |-> "usec", tick |-> tick]
            /\ Front(len)[len - 1] = [source |-> "sec", tick |-> tick]
        BY <1>5, <4>2 DEF StampInv, TickInv
      <4>4. /\ i - 1 = Len(handed) + len /\ i - 1 \in 1..Len(Stream)
            /\ i - 2 = Len(handed) + (len - 1) /\ i - 2 \in 1..Len(Stream)
            /\ len \in 1..len /\ len - 1 \in 1..len
        BY <1>4, <2>5, <4>1, <4>3
      <4>5. /\ Append(Stream, u)[i - 1] = Stream[i - 1]
            /\ Append(Stream, u)[i - 2] = Stream[i - 2]
        BY <1>2, <2>5, <4>4
      <4> QED BY <2>5, <4>1, <4>2, <4>3, <4>4, <4>5
    <3> QED BY <3>1, <3>2
  <2>7. StampedByOwnTick'
    BY <2>4, <2>6 DEF StampedByOwnTick
  <2> QED BY <2>3, <2>7 DEF StampInv
<1>6. CASE ~(len < FifoSize)
  <2>1. UNCHANGED <<slots, out, len>>
    BY <1>1, <1>6 DEF kfifo_put, fifoVars
  <2>2. Stream' = Stream
    BY <1>1, <2>1 DEF Stream, Front
  <2>3. StampedByOwnTick'
    BY <2>2 DEF StampInv, StampedByOwnTick
  <2>4. TickInv'
    BY <1>6, <2>1 DEF TickInv
  <2> QED BY <2>3, <2>4 DEF StampInv
<1> QED BY <1>5, <1>6

\* Lines 63-65, on one processor, where no reader makes room in the middle of
\* a tick: whichever updates are lost because the kfifo is full, a reading of
\* XA0 is delivered right behind the second and the microsecond of its own
\* tick (as far as the reader has not received these in an earlier batch).
THEOREM StampsCorrect ==
  ASSUME OneReader, SMP = FALSE
  PROVE  Spec => []StampedByOwnTick
<1>1. Init => StampInv
  <2> SUFFICES ASSUME Init PROVE StampInv
    OBVIOUS
  <2>1. Stream = <<>> /\ irq = "idle"
    BY FrontZero DEF Init, Stream
  <2>2. \A i \in 3..Len(<<>>) : FALSE
    OBVIOUS
  <2> QED BY <2>1, <2>2 DEF StampInv, StampedByOwnTick, TickInv
<1>2. TypeOK /\ TypeOK' /\ FifoInv /\ StampInv /\ [Next]_vars => StampInv'
  <2> SUFFICES ASSUME TypeOK, TypeOK', FifoInv, StampInv, [Next]_vars
               PROVE  StampInv'
    OBVIOUS
  <2> FifoIntact
    BY DEF FifoInv
  <2>1. ASSUME irq' \notin {"usec", "xa0"}, IsRemainder(Stream', Stream)
        PROVE  StampInv'
    BY <2>1, SuffixStamped DEF StampInv, TickInv
  <2>2. ASSUME UNCHANGED <<slots, out, len, handed>>, irq' \notin {"usec", "xa0"}
        PROVE  StampInv'
    <3>1. Stream' = Stream
      BY <2>2 DEF Stream, Front
    <3> QED BY <2>2, <3>1 DEF StampInv, StampedByOwnTick, TickInv
  <2>3. CASE LoadAlloc
    <3>1. Stream' = <<>>
      BY <2>3, FrontZero DEF LoadAlloc, Stream
    <3>2. irq' = "idle"
      BY <2>3 DEF LoadAlloc, Runs
    <3>3. \A i \in 3..Len(<<>>) : FALSE
      OBVIOUS
    <3> QED BY <3>1, <3>2, <3>3 DEF StampInv, StampedByOwnTick, TickInv
  <2>4. CASE \/ LoadRegister \/ LoadRefused \/ LoadTimer
             \/ Rmmod \/ CancelTimer \/ Unregister \/ FreePage
             \/ TimerFire \/ WakeReaders
    <3>1. UNCHANGED <<slots, out, len, handed>> /\ irq' \notin {"usec", "xa0"}
      BY <2>4 DEF LoadRegister, LoadRefused, LoadTimer, Rmmod, CancelTimer,
                  Unregister, FreePage, TimerFire, WakeReaders, fifoVars,
                  sampleVars, Runs
    <3> QED BY <2>2, <3>1
  <2>5. CASE PutUpdate
    BY <2>5, PutStamped
  <2>6. ASSUME NEW r \in Readers,
               UserStep(r) \/ Prepare(r) \/ Recheck(r) \/ Resume(r) \/ CopyOut(r)
        PROVE  StampInv'
    <3>1. UNCHANGED <<slots, out, len, handed>> /\ irq' = "idle"
      BY <2>6 DEF UserStep, Open, Close, Mmap, Munmap, Store, ReadCall, PollCall,
                  Signal, PollTimeout, Prepare, Recheck, Resume, CopyOut,
                  driverVars, sampleVars, fifoVars, Runs
    <3> QED BY <2>2, <3>1
  <2>7. ASSUME NEW r \in Readers, Commit(r) PROVE StampInv'
    <3>1. irq' = "idle"
      BY <2>7 DEF Commit, driverVars, sampleVars, Runs
    <3> QED BY <2>1, <2>7, <3>1, CommitShortens
  <2>8. ASSUME NEW r \in Readers, CommitFault(r) PROVE StampInv'
    <3>1. irq' = "idle"
      BY <2>8 DEF CommitFault, driverVars, sampleVars, Runs
    <3> QED BY <2>1, <2>8, <3>1, FaultShortens
  <2>9. CASE UNCHANGED vars
    <3>1. Stream' = Stream /\ Front(len)' = Front(len) /\ UNCHANGED <<irq, tick, len>>
      BY <2>9 DEF Stream, Front, vars, fifoVars, sampleVars
    <3> QED BY <3>1 DEF StampInv, StampedByOwnTick, TickInv
  <2> QED BY <2>3, <2>4, <2>5, <2>6, <2>7, <2>8, <2>9
          DEF Next, ModuleStep, TimerStep, CallStep
<1>3. StampInv => StampedByOwnTick
  BY DEF StampInv
<1> QED BY <1>1, <1>2, <1>3, TypeCorrect, FifoInvariant, PTL DEF Spec
=============================================================================
