-------------------------- MODULE LophiloKmodProofs --------------------------
(***************************************************************************)
(* Theorems about the netlink driver of kmod/ on one processor, for any    *)
(* number of observers and any size of their sockets.  On several          *)
(* processors the safety theorems fail: del_timer does not wait for  *)
(* the callback, and the callback clears a registration that may be newer  *)
(* than the one it found dead.                                             *)
(***************************************************************************)
EXTENDS LophiloKmod, TLAPS

\* The types of the kmod driver's variables are kept by every step.
THEOREM TypeCorrect == Spec => []TypeOK
<1>1. Init => TypeOK
  <2> SUFFICES ASSUME Init PROVE TypeOK
    OBVIOUS
  <2>1. p0 \in 0..(CountMod - 1)
    BY KmodAssumption DEF Init
  <2>2. /\ pc \in [Observers -> {"out", "connected", "set_pid", "set_net", "loop", "gone"}]
        /\ inbox \in [Observers -> Seq(Message)]
    BY DEF Init
  <2> QED BY <2>1, <2>2 DEF Init, TypeOK
<1>2. TypeOK /\ [Next]_vars => TypeOK'
  <2> SUFFICES ASSUME TypeOK, [Next]_vars PROVE TypeOK'
    OBVIOUS
  <2> USE KmodAssumption
      DEF TypeOK, vars, moduleVars, senderVars, observerVars, historyVars
  <2>1. CASE DataInit
    <3>1. p0' \in 0..(CountMod - 1)
      BY <2>1 DEF DataInit
    <3>2. data' \in BOOLEAN /\ step' \in {"absent", "netlink_init"}
      BY <2>1 DEF DataInit, Proceed, Outcome
    <3> QED BY <2>1, <3>1, <3>2 DEF DataInit
  <2>2. CASE NetlinkInit
    BY <2>2 DEF NetlinkInit, Proceed, Outcome
  <2>3. CASE TimerInit BY <2>3 DEF TimerInit
  <2>4. CASE ChrdevInit
    BY <2>4 DEF ChrdevInit, Proceed, Outcome
  <2>5. CASE Remove \/ TimerCleanup \/ NetlinkCleanup \/ DataCleanup
    BY <2>5 DEF Remove, TimerCleanup, NetlinkCleanup, DataCleanup
  <2>6. CASE TimerFires BY <2>6 DEF TimerFires
  <2>7. CASE Update
    <3>1. (p0 + 1) % CountMod \in 0..(CountMod - 1)
      OBVIOUS
    <3> QED BY <2>7, <3>1 DEF Update
  <2>8. CASE SendNothing BY <2>8 DEF SendNothing
  <2>9. CASE SendDelivered
    <3>1. [count |-> p0, gap |-> unsent] \in Message
      BY DEF Message
    <3>2. Append(inbox[senderPid], [count |-> p0, gap |-> unsent]) \in Seq(Message)
      BY <2>9, <3>1 DEF SendDelivered
    <3> QED BY <2>9, <3>2 DEF SendDelivered
  <2>10. CASE SendRefused \/ ForgetNet \/ ForgetPid \/ Rearm
    BY <2>10 DEF SendRefused, ForgetNet, ForgetPid, Rearm
  <2>11. ASSUME NEW o \in Observers, ObserverStep(o) PROVE TypeOK'
    <3>1. CASE Connect(o) BY <3>1 DEF Connect
    <3>2. CASE SendRegister(o) BY <3>2 DEF SendRegister
    <3>3. CASE SetPid(o) BY <3>3 DEF SetPid
    <3>4. CASE SetNet(o) BY <3>4 DEF SetNet
    <3>5. CASE Receive(o)
      <4>1. Tail(inbox[o]) \in Seq(Message)
        BY <3>5 DEF Receive
      <4> QED BY <3>5, <4>1 DEF Receive
    <3>6. CASE Exit(o) BY <3>6 DEF Exit
    <3> QED BY <2>11, <3>1, <3>2, <3>3, <3>4, <3>5, <3>6 DEF ObserverStep
  <2>12. CASE UNCHANGED vars BY <2>12
  <2> QED BY <2>1, <2>2, <2>3, <2>4, <2>5, <2>6, <2>7, <2>8, <2>9, <2>10,
             <2>11, <2>12 DEF Next, ModuleStep, CallbackStep
<1> QED BY <1>1, <1>2, PTL DEF Spec

-----------------------------------------------------------------------------
(* Loading and removing.                                                   *)

\* Which parts of the module exist at each label of lophilo_init and of the
\* cleanup.
Stages ==
  /\ timer \/ cb # "idle" => step \in {"chrdev_init", "live", "timer_cleanup"}
  /\ data <=> step # "absent"
  /\ family => step \in {"timer_init", "chrdev_init", "live", "timer_cleanup",
                         "netlink_cleanup"}
  /\ chrdev => step = "live"

\* On one processor the parts and the labels always agree.
LEMMA StagesInvariant ==
  ASSUME ~SMP
  PROVE  Spec => []Stages
<1>1. Init => Stages
  BY DEF Init, Stages
<1>2. TypeOK /\ Stages /\ [Next]_vars => Stages'
  <2> SUFFICES ASSUME TypeOK, Stages, [Next]_vars PROVE Stages'
    OBVIOUS
  <2> USE DEF TypeOK, Stages, moduleVars
  <2>1. CASE DataInit
    BY <2>1 DEF DataInit, Proceed, Outcome, Runs
  <2>2. CASE NetlinkInit
    BY <2>2 DEF NetlinkInit, Proceed, Outcome, Runs
  <2>3. CASE TimerInit BY <2>3 DEF TimerInit, Runs
  <2>4. CASE ChrdevInit
    BY <2>4 DEF ChrdevInit, Proceed, Outcome, Runs
  <2>5. CASE Remove BY <2>5 DEF Remove
  <2>6. CASE TimerCleanup BY <2>6 DEF TimerCleanup, Runs
  <2>7. CASE NetlinkCleanup BY <2>7 DEF NetlinkCleanup
  <2>8. CASE DataCleanup BY <2>8 DEF DataCleanup
  <2>9. CASE CallbackStep
    BY <2>9 DEF CallbackStep, TimerFires, Update, SendNothing, SendDelivered,
                SendRefused, ForgetNet, ForgetPid, Rearm
  <2>10. ASSUME NEW o \in Observers, ObserverStep(o) PROVE Stages'
    BY <2>10 DEF ObserverStep, Connect, SendRegister, SetPid, SetNet, Receive, Exit
  <2>11. CASE UNCHANGED vars BY <2>11 DEF vars
  <2> QED BY <2>1, <2>2, <2>3, <2>4, <2>5, <2>6, <2>7, <2>8, <2>9, <2>10, <2>11
          DEF Next, ModuleStep
<1> QED BY <1>1, <1>2, TypeCorrect, PTL DEF Spec

\* timer.c:26 and data.c:31: on one processor the page outlives the timer and
\* its callback, on a removal and on every way lophilo_init can fail.
THEOREM PageSafe ==
  ASSUME ~SMP
  PROVE  Spec => []NoUseAfterFree
<1>1. Stages => NoUseAfterFree
  BY DEF Stages, NoUseAfterFree
<1> QED BY <1>1, StagesInvariant, PTL

\* module.c:13-69: on one processor a module that is not there has left
\* nothing behind, neither after a removal nor after a failed load.
THEOREM CleanupComplete ==
  ASSUME ~SMP
  PROVE  Spec => []NothingLeftBehind
<1>1. Stages => NothingLeftBehind
  BY DEF Stages, NothingLeftBehind
<1> QED BY <1>1, StagesInvariant, PTL

-----------------------------------------------------------------------------
(* The registration.                                                       *)

\* While lophilo_notify clears a registration, the registration is still the
\* one it found dead, and then nobody's.
OwnerInv ==
  /\ OwnerKept
  /\ cb = "forget_net" => target = senderPid
  /\ cb = "forget_pid" => owner = Nobody

\* netlink.c:42-109: on one processor the callback, which clears the port and
\* the net of an observer it could not reach, never clears those of another
\* observer that has completed its registration since.
THEOREM RegistrationKept ==
  ASSUME ~SMP
  PROVE  Spec => []OwnerKept
<1>1. Init => OwnerInv
  BY DEF Init, OwnerInv, OwnerKept
<1>2. TypeOK /\ OwnerInv /\ [Next]_vars => OwnerInv'
  <2> SUFFICES ASSUME TypeOK, OwnerInv, [Next]_vars PROVE OwnerInv'
    OBVIOUS
  <2> USE DEF TypeOK, OwnerInv, OwnerKept, moduleVars, senderVars, observerVars,
             historyVars
  <2>1. CASE DataInit \/ NetlinkInit \/ TimerInit \/ ChrdevInit \/ Remove
             \/ TimerCleanup \/ NetlinkCleanup
    BY <2>1 DEF DataInit, NetlinkInit, TimerInit, ChrdevInit, Remove,
                TimerCleanup, NetlinkCleanup
  <2>2. CASE DataCleanup BY <2>2 DEF DataCleanup, Runs
  <2>3. CASE TimerFires \/ Update \/ SendNothing \/ SendDelivered \/ SendRefused
             \/ Rearm
    BY <2>3 DEF TimerFires, Update, SendNothing, SendDelivered, SendRefused, Rearm
  <2>4. CASE ForgetNet BY <2>4 DEF ForgetNet
  <2>5. CASE ForgetPid BY <2>5 DEF ForgetPid
  <2>6. ASSUME NEW o \in Observers, ObserverStep(o) PROVE OwnerInv'
    <3>1. cb = "idle" /\ UNCHANGED <<cb, target>>
      BY <2>6 DEF ObserverStep, Connect, SendRegister, SetPid, SetNet, Receive,
                  Exit, Runs
    <3>2. OwnerKept'
      BY <2>6 DEF ObserverStep, Connect, SendRegister, SetPid, SetNet, Receive, Exit
    <3> QED BY <3>1, <3>2
  <2>7. CASE UNCHANGED vars BY <2>7 DEF vars
  <2> QED BY <2>1, <2>2, <2>3, <2>4, <2>5, <2>6, <2>7
          DEF Next, ModuleStep, CallbackStep
<1>3. OwnerInv => OwnerKept
  BY DEF OwnerInv
<1> QED BY <1>1, <1>2, <1>3, TypeCorrect, PTL DEF Spec

-----------------------------------------------------------------------------
(* The counts an observer sees.                                            *)

\* Only an observer that has sent its registration has messages, and a request
\* is handled only while its family, and so the module, is there.
Serving ==
  /\ \A o \in Observers : inbox[o] # <<>> => pc[o] \in {"set_net", "loop"}
  /\ senderPid # Nobody => pc[senderPid] \in {"set_net", "loop", "gone"}
  /\ \A o \in Observers : InHandler(o) => family
  /\ step = "absent" => senderPid = Nobody

\* Who is served stays so at every step of the driver and the observers.
LEMMA ServingInvariant ==
  ASSUME ~SMP
  PROVE  Spec => []Serving
<1>1. Init => Serving
  BY DEF Init, Serving, InHandler
<1>2. TypeOK /\ Stages /\ Serving /\ [Next]_vars => Serving'
  <2> SUFFICES ASSUME TypeOK, Stages, Serving, [Next]_vars PROVE Serving'
    OBVIOUS
  <2> USE DEF TypeOK, Stages, Serving, InHandler, moduleVars, senderVars, observerVars,
             historyVars
  <2>1. CASE DataInit BY <2>1 DEF DataInit, Proceed
  <2>2. CASE NetlinkInit BY <2>2 DEF NetlinkInit, Proceed
  <2>3. CASE TimerInit \/ ChrdevInit \/ Remove \/ TimerCleanup
    BY <2>3 DEF TimerInit, ChrdevInit, Proceed, Remove, TimerCleanup
  <2>4. CASE NetlinkCleanup BY <2>4 DEF NetlinkCleanup
  <2>5. CASE DataCleanup BY <2>5 DEF DataCleanup
  <2>6. CASE TimerFires \/ Update \/ SendNothing \/ SendRefused \/ ForgetNet
             \/ ForgetPid \/ Rearm
    BY <2>6 DEF TimerFires, Update, SendNothing, SendRefused, ForgetNet, ForgetPid, Rearm
  <2>7. CASE SendDelivered
    <3>1. pc[senderPid] \in {"set_net", "loop"}
      BY <2>7, KmodAssumption DEF SendDelivered, Listening
    <3> QED BY <2>7, <3>1 DEF SendDelivered
  <2>8. ASSUME NEW o \in Observers, ObserverStep(o) PROVE Serving'
    <3>1. CASE Connect(o) BY <3>1 DEF Connect
    <3>2. CASE SendRegister(o) BY <3>2 DEF SendRegister
    <3>3. CASE SetPid(o) BY <3>3 DEF SetPid
    <3>4. CASE SetNet(o) BY <3>4 DEF SetNet
    <3>5. CASE Receive(o) BY <3>5 DEF Receive
    <3>6. CASE Exit(o) BY <3>6 DEF Exit
    <3> QED BY <2>8, <3>1, <3>2, <3>3, <3>4, <3>5, <3>6 DEF ObserverStep
  <2>9. CASE UNCHANGED vars BY <2>9 DEF vars
  <2> QED BY <2>1, <2>2, <2>3, <2>4, <2>5, <2>6, <2>7, <2>8, <2>9
          DEF Next, ModuleStep, CallbackStep
<1> QED BY <1>1, <1>2, TypeCorrect, StagesInvariant, PTL DEF Spec

\* As long as an observer that has messages is the registered one, its last
\* message is of the last count, or of the one before while the next is under
\* way, unless a count went unannounced since.
UpToDate ==
  /\ cb = "send" => senderNet
  /\ senderPid # Nobody /\ cb \notin {"forget_net", "forget_pid"} =>
       LET box == inbox[senderPid]
       IN  box # <<>> =>
             /\ senderNet
             /\ ~unsent => IF cb = "send" THEN p0 = (box[Len(box)].count + 1) % CountMod
                           ELSE p0 = box[Len(box)].count

\* netlink.c:90-104: on one processor an observer never sees a count that is
\* not the successor of the one before, but for those there was no memory to
\* announce: whatever is refused, displaced, removed and loaded again.
THEOREM CountsContiguous ==
  ASSUME ~SMP
  PROVE  Spec => []NoGap
<1> DEFINE Inv == NoGap /\ UpToDate
<1>1. Init => Inv
  BY DEF Init, NoGap, UpToDate
<1>2. TypeOK /\ Stages /\ Serving /\ Inv /\ [Next]_vars => Inv'
  <2> SUFFICES ASSUME TypeOK, Stages, Serving, Inv, [Next]_vars PROVE Inv'
    OBVIOUS
  <2> USE DEF moduleVars, senderVars, observerVars, historyVars
  <2>1. CASE ModuleStep
    <3>1. NoGap'
      BY <2>1 DEF NoGap, ModuleStep, DataInit, NetlinkInit, TimerInit, ChrdevInit, Remove,
                  TimerCleanup, NetlinkCleanup, DataCleanup
    <3>2. UpToDate'
      <4>1. CASE DataInit BY <4>1 DEF DataInit, Serving, UpToDate
      <4>2. CASE DataCleanup BY <4>2 DEF DataCleanup, UpToDate, Runs
      <4>3. CASE NetlinkInit \/ TimerInit \/ ChrdevInit \/ Remove
                 \/ TimerCleanup \/ NetlinkCleanup
        BY <4>3 DEF UpToDate, NetlinkInit, TimerInit, ChrdevInit, Remove,
                    TimerCleanup, NetlinkCleanup
      <4> QED BY <2>1, <4>1, <4>2, <4>3 DEF ModuleStep
    <3> QED BY <3>1, <3>2
  <2>2. CASE TimerFires \/ Rearm \/ SendNothing
    BY <2>2 DEF TimerFires, Rearm, SendNothing, NoGap, UpToDate
  <2>3. CASE Update BY <2>3 DEF Update, NoGap, UpToDate
  <2>4. CASE SendDelivered
    <3> DEFINE o == senderPid
               old == inbox[o]
               m == [count |-> p0, gap |-> unsent]
    <3>1. /\ o \in Observers /\ cb = "send" /\ cb' = "rearm" /\ unsent' = FALSE
          /\ inbox' = [inbox EXCEPT ![o] = Append(old, m)]
          /\ UNCHANGED <<p0, senderPid, senderNet>>
      BY <2>4 DEF SendDelivered
    <3>2. old \in Seq(Message) /\ inbox'[o] = Append(old, m)
      BY <3>1 DEF TypeOK
    <3>3. /\ Len(inbox'[o]) = Len(old) + 1 /\ inbox'[o][Len(old) + 1] = m
          /\ \A i \in 1..Len(old) : inbox'[o][i] = old[i]
      BY <3>2
    <3>4. old # <<>> => Len(old) \in Nat \ {0}
      BY <3>2
    <3>5. ASSUME NEW i \in 1..Len(old)
          PROVE  \/ inbox'[o][i + 1].gap
                 \/ inbox'[o][i + 1].count = (inbox'[o][i].count + 1) % CountMod
      <4>1. CASE i = Len(old)
        <5>1. unsent \/ p0 = (old[i].count + 1) % CountMod
          BY <3>1, <3>2, <4>1, KmodAssumption DEF UpToDate
        <5> QED BY <3>3, <4>1, <5>1
      <4>2. CASE i # Len(old)
        <5>1. i \in 1..(Len(old) - 1) /\ i + 1 \in 1..Len(old)
          BY <3>2, <4>2
        <5> QED BY <3>1, <3>3, <5>1 DEF NoGap
      <4> QED BY <4>1, <4>2
    <3>6. \A p \in Observers : p # o => inbox'[p] = inbox[p]
      BY <3>1 DEF TypeOK
    <3>7. NoGap'
      BY <3>1, <3>2, <3>3, <3>5, <3>6 DEF NoGap
    <3>8. UpToDate'
      <4>1. Len(inbox'[o]) = Len(old) + 1 /\ inbox'[o][Len(inbox'[o])].count = p0
        BY <3>3
      <4>2. senderPid' = o /\ cb' # "send" /\ p0' = p0 /\ senderNet
        BY <3>1 DEF UpToDate
      <4> HIDE DEF old, m
      <4> QED BY <3>1, <4>1, <4>2 DEF UpToDate
    <3> QED BY <3>7, <3>8
  <2>5. CASE SendRefused \/ ForgetNet \/ ForgetPid
    BY <2>5 DEF SendRefused, ForgetNet, ForgetPid, NoGap, UpToDate
  <2>6. ASSUME NEW o \in Observers, ObserverStep(o) PROVE Inv'
    <3>1. CASE Connect(o) \/ SendRegister(o) \/ SetNet(o)
      BY <3>1 DEF Connect, SendRegister, SetNet, NoGap, UpToDate
    <3>2. CASE SetPid(o)
      <4>1. inbox[o] = <<>>
        BY <3>2 DEF Serving, SetPid
      <4> QED BY <3>2, <4>1 DEF SetPid, NoGap, UpToDate
    <3>3. CASE Receive(o)
      <4> DEFINE old == inbox[o]
      <4>1. /\ old # <<>> /\ old \in Seq(Message)
            /\ inbox' = [inbox EXCEPT ![o] = Tail(old)]
            /\ UNCHANGED <<cb, p0, senderPid, senderNet, unsent>>
        BY <3>3 DEF Receive, TypeOK
      <4>2. /\ inbox'[o] = Tail(old)
            /\ \A p \in Observers : p # o => inbox'[p] = inbox[p]
        BY <4>1 DEF TypeOK
      <4>3. /\ Len(old) \in Nat \ {0} /\ Len(inbox'[o]) = Len(old) - 1
            /\ \A i \in 1..(Len(old) - 1) : inbox'[o][i] = old[i + 1]
        <5>1. old \in Seq(Message) /\ old # <<>>
          BY <4>1
        <5> HIDE DEF old
        <5> QED BY <4>2, <5>1, SMTT(30)
      <4>4. ASSUME NEW i \in 1..(Len(inbox'[o]) - 1)
            PROVE  \/ inbox'[o][i + 1].gap
                   \/ inbox'[o][i + 1].count = (inbox'[o][i].count + 1) % CountMod
        <5>1. /\ i + 1 \in 1..(Len(old) - 1)
              /\ i \in 1..(Len(old) - 1)
          BY <4>3
        <5>2. \/ old[(i + 1) + 1].gap
              \/ old[(i + 1) + 1].count = (old[i + 1].count + 1) % CountMod
          BY <5>1 DEF NoGap
        <5>3. inbox'[o][i] = old[i + 1] /\ inbox'[o][i + 1] = old[(i + 1) + 1]
          BY <4>3, <5>1
        <5> QED BY <5>2, <5>3
      <4>5. NoGap'
        BY <4>2, <4>4 DEF NoGap
      <4>6. inbox'[o] # <<>> => inbox'[o][Len(inbox'[o])] = old[Len(old)]
        <5>1. SUFFICES ASSUME Tail(old) # <<>>
                       PROVE  inbox'[o][Len(inbox'[o])] = old[Len(old)]
          BY <4>2
        <5>2. Tail(old) \in Seq(Message)
          BY <4>1
        <5>3. Len(Tail(old)) \in Nat \ {0}
          <6> HIDE DEF old
          <6> QED BY <5>1, <5>2
        <5>4. Len(Tail(old)) = Len(old) - 1
          BY <4>2, <4>3
        <5>5. Len(old) - 1 \in 1..(Len(old) - 1)
          <6>1. \A n \in Nat \ {0} : n \in 1..n
            OBVIOUS
          <6>2. Len(old) - 1 \in Nat \ {0}
            BY <5>3, <5>4
          <6> HIDE DEF old
          <6> QED BY <6>1, <6>2, Zenon
        <5> QED BY <4>3, <5>5
      <4>7. UpToDate'
        <5>1. CASE senderPid = o
          BY <4>1, <4>6, <5>1 DEF UpToDate
        <5>2. CASE senderPid # o
          BY <4>1, <4>2, <5>2 DEF UpToDate, TypeOK
        <5> QED BY <5>1, <5>2
      <4> QED BY <4>5, <4>7
    <3>4. CASE Exit(o)
      <4>1. /\ inbox'[o] = <<>>
            /\ \A p \in Observers : p # o => inbox'[p] = inbox[p]
            /\ UNCHANGED <<cb, p0, senderPid, senderNet, unsent>>
        BY <3>4 DEF Exit, TypeOK
      <4>2. NoGap'
        BY <4>1 DEF NoGap
      <4>3. UpToDate'
        BY <4>1 DEF UpToDate, TypeOK
      <4> QED BY <4>2, <4>3
    <3> QED BY <2>6, <3>1, <3>2, <3>3, <3>4 DEF ObserverStep
  <2>7. CASE UNCHANGED vars BY <2>7 DEF vars, NoGap, UpToDate
  <2> QED BY <2>1, <2>2, <2>3, <2>4, <2>5, <2>6, <2>7 DEF Next, CallbackStep
<1> QED BY <1>1, <1>2, TypeCorrect, StagesInvariant, ServingInvariant, PTL DEF Spec
=============================================================================
