----------------------------- MODULE LophiloKmod -----------------------------
(***************************************************************************)
(* The netlink driver of kmod/: a kernel timer counts in a page (timer.c,  *)
(* data.c) and notifies one registered observer of every new count         *)
(* (netlink.c); module.c sets the parts up and, when one of them fails or  *)
(* the module is removed, takes them down again.  The observers are the    *)
(* processes of observer.c on top of client.c.                             *)
(*                                                                         *)
(* The timer callback is a softirq: on one processor it preempts a process *)
(* anywhere and runs to its end; SMP = TRUE lets the two interleave.       *)
(***************************************************************************)
EXTENDS Integers, Sequences

CONSTANTS
  Observers,  \* the observer processes (each has its netlink port, its pid)
  Nobody,     \* sender_pid = 0
  RcvBuf,     \* how many messages an observer's socket holds
  CountMod,   \* bound: counts are told apart modulo this number
  Failures,   \* TRUE iff setting up a part of the module may fail
  Removable,  \* TRUE iff the module may be removed
  Shortage,   \* TRUE iff the atomic allocation of a message may fail
  SMP         \* TRUE iff there is more than one processor

ASSUME KmodAssumption ==
  /\ Nobody \notin Observers
  /\ RcvBuf \in Nat \ {0}
  /\ CountMod \in Nat \ {0}
  /\ Failures \in BOOLEAN /\ Removable \in BOOLEAN
  /\ Shortage \in BOOLEAN /\ SMP \in BOOLEAN

VARIABLES
  step,       \* where lophilo_init or lophilo_cleanup is
  data,       \* the page loldata points to is allocated
  family,     \* the netlink family is registered
  timer,      \* timer_1s is queued
  chrdev,     \* the character device is registered
  cb,         \* where lophilo_timer_callback is
  p0,         \* loldata->p0
  senderPid,  \* sender_pid
  senderNet,  \* sender_net is not NULL
  target,     \* whom the message under way was sent to
  pc,         \* where each observer is
  inbox,      \* the messages in each observer's socket
  owner,      \* history: whose registration should be in force
  unsent      \* history: the last count went unannounced for want of memory

moduleVars == <<step, data, family, timer, chrdev>>
senderVars == <<senderPid, senderNet>>
observerVars == <<pc, inbox>>
historyVars == <<owner, unsent>>
vars == <<moduleVars, cb, p0, senderVars, target, observerVars, historyVars>>

\* A process runs only when its processor is not in the softirq.
Runs == SMP \/ cb = "idle"

-----------------------------------------------------------------------------
(* module.c: the labels of lophilo_init double as those of the cleanup.    *)

\* One part is set up; if that fails, the labels from undo on take down the
\* parts set up before.
Proceed(next, undo, ok) == step' = IF ok THEN next ELSE undo

Outcome == IF Failures THEN BOOLEAN ELSE {TRUE}

DataInit == \E ok \in Outcome :
  /\ Runs /\ step = "absent"
  /\ Proceed("netlink_init", "absent", ok)
  /\ data' = ok
  /\ p0' = 0
  /\ UNCHANGED <<family, timer, chrdev, cb, senderVars, target, observerVars, historyVars>>

\* Mutant of NetlinkInit: its failure goes to the label failure.
NetlinkInitNoRollback == \E ok \in Outcome :
  /\ Runs /\ step = "netlink_init"
  /\ Proceed("timer_init", "absent", ok)
  /\ family' = ok
  /\ UNCHANGED <<data, timer, chrdev, cb, p0, senderVars, target, observerVars, historyVars>>

NetlinkInit == \E ok \in Outcome :
  /\ Runs /\ step = "netlink_init"
  /\ Proceed("timer_init", "data_cleanup", ok)
  /\ family' = ok
  /\ UNCHANGED <<data, timer, chrdev, cb, p0, senderVars, target, observerVars, historyVars>>

\* mod_timer on a timer that was just set up finds it inactive.
TimerInit ==
  /\ Runs /\ step = "timer_init"
  /\ step' = "chrdev_init" /\ timer' = TRUE
  /\ UNCHANGED <<data, family, chrdev, cb, p0, senderVars, target, observerVars, historyVars>>

ChrdevInit == \E ok \in Outcome :
  /\ Runs /\ step = "chrdev_init"
  /\ Proceed("live", "timer_cleanup", ok)
  /\ chrdev' = ok
  /\ UNCHANGED <<data, family, timer, cb, p0, senderVars, target, observerVars, historyVars>>

\* lophilo_cleanup.  Open files do not pin the module: map_fops has no owner.
Remove ==
  /\ Removable /\ Runs /\ step = "live"
  /\ step' = "timer_cleanup" /\ chrdev' = FALSE
  /\ UNCHANGED <<data, family, timer, cb, p0, senderVars, target, observerVars, historyVars>>

\* Mutant of TimerCleanup: del_timer is forgotten.
TimerCleanupNothing ==
  /\ Runs /\ step = "timer_cleanup"
  /\ step' = "netlink_cleanup"
  /\ UNCHANGED <<data, family, timer, chrdev, cb, p0, senderVars, target, observerVars, historyVars>>

\* del_timer does not wait for a callback that is running.
TimerCleanup ==
  /\ Runs /\ step = "timer_cleanup"
  /\ step' = "netlink_cleanup" /\ timer' = FALSE
  /\ UNCHANGED <<data, family, chrdev, cb, p0, senderVars, target, observerVars, historyVars>>

\* The handlers of a family run under the lock that unregistering it takes.
InHandler(o) == pc[o] \in {"set_pid", "set_net"}

NetlinkCleanup ==
  /\ Runs /\ step = "netlink_cleanup"
  /\ \A o \in Observers : ~InHandler(o)
  /\ step' = "data_cleanup" /\ family' = FALSE
  /\ UNCHANGED <<data, timer, chrdev, cb, p0, senderVars, target, observerVars, historyVars>>

\* kfree; then the module is gone, and with it its static variables, which are
\* zero when it is loaded again.
DataCleanup ==
  /\ Runs /\ step = "data_cleanup"
  /\ step' = "absent" /\ data' = FALSE
  /\ senderPid' = Nobody /\ senderNet' = FALSE /\ owner' = Nobody
  /\ UNCHANGED <<family, timer, chrdev, cb, p0, target, observerVars, unsent>>

-----------------------------------------------------------------------------
(* timer.c, data.c and lophilo_notify: the timer callback.                 *)

TimerFires ==
  /\ timer /\ cb = "idle"
  /\ timer' = FALSE /\ cb' = "update"
  /\ UNCHANGED <<step, data, family, chrdev, p0, senderVars, target, observerVars, historyVars>>

\* lophilo_data_update, up to the test of lophilo_notify.
Update ==
  /\ cb = "update"
  /\ p0' = (p0 + 1) % CountMod
  /\ cb' = IF senderNet /\ senderPid # Nobody THEN "send" ELSE "rearm"
  /\ UNCHANGED <<moduleVars, senderVars, target, observerVars, historyVars>>

\* No memory for a message: the count goes unannounced, the observer stays.
SendNothing ==
  /\ Shortage /\ cb = "send"
  /\ cb' = "rearm" /\ unsent' = TRUE
  /\ UNCHANGED <<moduleVars, p0, senderVars, target, observerVars, owner>>

\* An observer's socket exists from genl_connect to its exit.
Listening(o) == pc[o] \notin {"out", "gone"}

\* genlmsg_unicast reaches the socket of the port ...
SendDelivered ==
  /\ cb = "send" /\ senderPid \in Observers
  /\ Listening(senderPid) /\ Len(inbox[senderPid]) < RcvBuf
  /\ inbox' = [inbox EXCEPT ![senderPid] = Append(@, [count |-> p0, gap |-> unsent])]
  /\ cb' = "rearm" /\ unsent' = FALSE
  /\ UNCHANGED <<moduleVars, p0, senderVars, target, pc, owner>>

\* ... or fails: nobody has the port, or its socket is full.
SendRefused ==
  /\ cb = "send"
  /\ ~(senderPid \in Observers /\ Listening(senderPid) /\ Len(inbox[senderPid]) < RcvBuf)
  /\ target' = senderPid
  /\ cb' = "forget_net"
  /\ UNCHANGED <<moduleVars, p0, senderVars, observerVars, historyVars>>

\* sender_net and sender_pid are cleared one after the other, whoever they
\* name by then.  What ends is the registration the message was sent for.
ForgetNet ==
  /\ cb = "forget_net"
  /\ senderNet' = FALSE
  /\ owner' = IF owner = target THEN Nobody ELSE owner
  /\ cb' = "forget_pid"
  /\ UNCHANGED <<moduleVars, p0, senderPid, target, observerVars, unsent>>

\* Mutants of ForgetPid: no registration is written -1, not 0 ...
ForgetPidMinusOne ==
  /\ cb = "forget_pid"
  /\ senderPid' = -1
  /\ cb' = "rearm" /\ target' = Nobody
  /\ UNCHANGED <<moduleVars, p0, senderNet, observerVars, historyVars>>

\* ... and the port stays, and so does the net.
KeepSender ==
  /\ cb = "forget_pid"
  /\ senderNet' = TRUE
  /\ cb' = "rearm" /\ target' = Nobody
  /\ UNCHANGED <<moduleVars, p0, senderPid, observerVars, historyVars>>

ForgetPid ==
  /\ cb = "forget_pid"
  /\ senderPid' = Nobody
  /\ cb' = "rearm" /\ target' = Nobody
  /\ UNCHANGED <<moduleVars, p0, senderNet, observerVars, historyVars>>

\* Mutant of Rearm: the timer is not set again.
DoNotRearm ==
  /\ cb = "rearm"
  /\ cb' = "idle"
  /\ UNCHANGED <<moduleVars, p0, senderVars, target, observerVars, historyVars>>

\* mod_timer at the end of lophilo_timer_callback.
Rearm ==
  /\ cb = "rearm"
  /\ cb' = "idle" /\ timer' = TRUE
  /\ UNCHANGED <<step, data, family, chrdev, p0, senderVars, target, observerVars, historyVars>>

-----------------------------------------------------------------------------
(* client.c and observer.c, with lophilo_register of netlink.c.            *)

\* lophilo_init of client.c: the family must exist for its name to resolve.
Connect(o) ==
  /\ Runs /\ pc[o] = "out" /\ family
  /\ pc' = [pc EXCEPT ![o] = "connected"]
  /\ UNCHANGED <<moduleVars, cb, p0, senderVars, target, inbox, historyVars>>

\* lophilo_register of client.c: the request is handled inside the send, one
\* request at a time.  The client does not look at the answer: when the
\* family is gone it goes on to its loop all the same.
SendRegister(o) ==
  /\ Runs /\ pc[o] = "connected"
  /\ \A other \in Observers : ~InHandler(other)
  /\ pc' = [pc EXCEPT ![o] = IF family THEN "set_pid" ELSE "loop"]
  /\ UNCHANGED <<moduleVars, cb, p0, senderVars, target, inbox, historyVars>>

\* lophilo_register of netlink.c: the new observer takes the place of the old.
SetPid(o) ==
  /\ Runs /\ pc[o] = "set_pid"
  /\ senderPid' = o
  /\ pc' = [pc EXCEPT ![o] = "set_net"]
  /\ owner' = Nobody
  /\ UNCHANGED <<moduleVars, cb, p0, senderNet, target, inbox, unsent>>

\* Mutant of SetNet: only the port is recorded.
SetNetForgotten(o) ==
  /\ Runs /\ pc[o] = "set_net"
  /\ pc' = [pc EXCEPT ![o] = "loop"]
  /\ owner' = IF senderPid = o THEN o ELSE Nobody
  /\ UNCHANGED <<moduleVars, cb, p0, senderVars, target, inbox, unsent>>

\* (A message that was refused between the two assignments has ended the
\* registration before it was complete.)
SetNet(o) ==
  /\ Runs /\ pc[o] = "set_net"
  /\ senderNet' = TRUE
  /\ pc' = [pc EXCEPT ![o] = "loop"]
  /\ owner' = IF senderPid = o THEN o ELSE Nobody
  /\ UNCHANGED <<moduleVars, cb, p0, senderPid, target, inbox, unsent>>

\* nl_recvmsgs_default: a message is received and given to update_function.
Receive(o) ==
  /\ Runs /\ pc[o] = "loop" /\ inbox[o] # <<>>
  /\ inbox' = [inbox EXCEPT ![o] = Tail(@)]
  /\ UNCHANGED <<moduleVars, cb, p0, senderVars, target, pc, historyVars>>

\* The observer exits or is killed; the driver is not told.  Another run of the
\* program is another observer, with a port of its own.
Exit(o) ==
  /\ Runs /\ pc[o] \in {"connected", "loop"}
  /\ pc' = [pc EXCEPT ![o] = "gone"]
  /\ inbox' = [inbox EXCEPT ![o] = <<>>]
  /\ owner' = IF owner = o THEN Nobody ELSE owner
  /\ UNCHANGED <<moduleVars, cb, p0, senderVars, target, unsent>>

-----------------------------------------------------------------------------
Init ==
  /\ step = "absent"
  /\ data = FALSE /\ family = FALSE /\ timer = FALSE /\ chrdev = FALSE
  /\ cb = "idle" /\ p0 = 0
  /\ senderPid = Nobody /\ senderNet = FALSE /\ target = Nobody
  /\ pc = [o \in Observers |-> "out"]
  /\ inbox = [o \in Observers |-> <<>>]
  /\ owner = Nobody /\ unsent = FALSE

ModuleStep ==
  \/ DataInit \/ NetlinkInit \/ TimerInit \/ ChrdevInit
  \/ Remove \/ TimerCleanup \/ NetlinkCleanup \/ DataCleanup

CallbackStep ==
  \/ TimerFires \/ Update
  \/ SendNothing \/ SendDelivered \/ SendRefused
  \/ ForgetNet \/ ForgetPid \/ Rearm

ObserverStep(o) ==
  \/ Connect(o) \/ SendRegister(o) \/ SetPid(o) \/ SetNet(o)
  \/ Receive(o) \/ Exit(o)

Next == ModuleStep \/ CallbackStep \/ \E o \in Observers : ObserverStep(o)

Spec == Init /\ [][Next]_vars

\* The timer's softirq is served and runs to its end; a process in a system
\* call or with a message to receive gets the processor again and again (on
\* one processor not while the softirq runs, hence strong fairness).
FairSpec ==
  /\ Spec
  /\ WF_vars(CallbackStep)
  /\ \A o \in Observers : SF_vars(SetPid(o) \/ SetNet(o)) /\ SF_vars(Receive(o))

-----------------------------------------------------------------------------
(* Properties.                                                             *)

\* A message is its count; gap belongs to the history.
Message == [count : 0..(CountMod - 1), gap : BOOLEAN]

TypeOK ==
  /\ step \in {"absent", "netlink_init", "timer_init", "chrdev_init", "live",
               "timer_cleanup", "netlink_cleanup", "data_cleanup"}
  /\ data \in BOOLEAN /\ family \in BOOLEAN /\ timer \in BOOLEAN /\ chrdev \in BOOLEAN
  /\ cb \in {"idle", "update", "send", "forget_net", "forget_pid", "rearm"}
  /\ p0 \in 0..(CountMod - 1)
  /\ senderPid \in Observers \union {Nobody}
  /\ senderNet \in BOOLEAN
  /\ target \in Observers \union {Nobody}
  /\ pc \in [Observers -> {"out", "connected", "set_pid", "set_net", "loop", "gone"}]
  /\ inbox \in [Observers -> Seq(Message)]
  /\ owner \in Observers \union {Nobody}
  /\ unsent \in BOOLEAN

\* The page outlives the timer: neither a queued timer nor a running callback
\* meets a freed page, whichever way the module goes.
NoUseAfterFree == timer \/ cb # "idle" => data

\* Whatever fails during lophilo_init, and after every removal, no part of the
\* module is left behind.
NothingLeftBehind == step = "absent" => ~data /\ ~family /\ ~timer /\ ~chrdev

\* A registration that was completed stays in force until its observer exits,
\* misses a message, or makes room for another: the callback's clearing of an
\* old registration never takes a new one with it.
OwnerKept == owner # Nobody => senderPid = owner /\ senderNet

\* An observer sees every count between the first and the last one it sees,
\* but for those there was no memory to announce: when its socket overflows it
\* is cut off rather than resumed later with counts missing.
NoGap ==
  \A o \in Observers : \A i \in 1..(Len(inbox[o]) - 1) :
    \/ inbox[o][i + 1].gap
    \/ inbox[o][i + 1].count = (inbox[o][i].count + 1) % CountMod

\* While its registration is in force, and there is memory for a message, an
\* observer keeps being notified.
OwnerNotified == \A o \in Observers :
  (owner = o /\ step = "live") ~>
    (inbox[o] # <<>> \/ unsent \/ owner # o \/ step # "live")
=============================================================================
