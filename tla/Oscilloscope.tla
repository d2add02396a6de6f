---------------------------- MODULE Oscilloscope ----------------------------
(***************************************************************************)
(* The oscilloscope from the device to the page: lophilo.js reads the      *)
(* character device as a stream and cuts it into updates, app.js sends     *)
(* each batch to every connected page, and the page (public/client.html)   *)
(* appends the readings to its time series.                                *)
(*                                                                         *)
(* The device is the queue of UpdateStream on one processor: the three     *)
(* updates of a tick are offered at once, and a read takes all there are,  *)
(* since the buffer of a read stream (64 KiB) holds far more than the      *)
(* device.  The stages work each at its own pace: updates wait in the      *)
(* device, batches on the way to a page.                                   *)
(*                                                                         *)
(* Readings pass through unlooked at, so two marked ticks among unmarked   *)
(* ones are enough to see whether any two arrive once and in order.        *)
(***************************************************************************)
EXTENDS Naturals, Sequences, FiniteSets

CONSTANTS
  Pages,      \* the browser pages
  NoPoint,    \* the page has appended no point
  Capacity,   \* LOPHILO_FIFO_SIZE
  InFlight,   \* bound on the messages on the way to a page
  MaxDead     \* bound: more listeners of closed sockets are not told apart

ASSUME OscilloscopeAssumption ==
  Capacity \in Nat \ {0} /\ InFlight \in Nat \ {0} /\ MaxDead \in Nat

VARIABLES
  queue,       \* the updates in the device
  mark,        \* the mark given last
  server,      \* "down", "reading" the device, or at the "end" of the stream
  listeners,   \* the pages whose socket has a listener on 'update'
  dead,        \* the listeners whose socket is closed
  connected,   \* the pages that have a socket
  wire,        \* the messages on the way to each page
  page,        \* the page's variables
  drawn        \* history: the marked readings the page has appended

serverVars == <<server, listeners, dead>>
netVars == <<connected, wire>>
pageVars == <<page, drawn>>
vars == <<queue, mark, serverVars, netVars, pageVars>>

\* In place of its value an update has its tick's mark: 0 for most, 1 and then
\* 2 for two of them.  (The page's stamps are 0 too before the first update.)
Marks == 0..2

Device == INSTANCE UpdateStream WITH
  TickMod <- 3, Faults <- FALSE, handed <- <<>>,
  due <- [source |-> "sec", tick |-> mark]

FreshPage == [configured |-> FALSE, sec |-> 0, usec |-> 0, point |-> NoPoint]

-----------------------------------------------------------------------------
(* The device.                                                             *)

\* Mutant of Tick: updates are put whether there is room or not.
TickOverrun == \E m \in {0} \union ({mark + 1} \cap Marks) :
  /\ queue' = queue \o [i \in 1..3 |-> [source |-> <<"sec", "usec", "xa0">>[i], tick |-> m]]
  /\ mark' = IF m = 0 THEN mark ELSE m
  /\ UNCHANGED <<serverVars, netVars, pageVars>>

\* A tick: what does not fit into the queue is lost.
Tick == \E m \in {0} \union ({mark + 1} \cap Marks) :
  LET all == queue \o [i \in 1..3 |-> [source |-> <<"sec", "usec", "xa0">>[i], tick |-> m]]
      room == IF Len(all) < Capacity THEN Len(all) ELSE Capacity
  IN  /\ queue' = SubSeq(all, 1, room)
      /\ mark' = IF m = 0 THEN mark ELSE m
      /\ UNCHANGED <<serverVars, netVars, pageVars>>

-----------------------------------------------------------------------------
(* lophilo.js and app.js: one process, one handler at a time.              *)

\* app.js from its start to listen(): configure() opens the device.
Serve ==
  /\ server = "down"
  /\ server' = "reading"
  /\ UNCHANGED <<queue, mark, listeners, dead, netVars, pageVars>>

\* The process ends (an exception nobody catches, or its restart by supervisor
\* when a file changes, line 2) and takes the sockets with it.
Die ==
  /\ server # "down"
  /\ server' = "down" /\ listeners' = {} /\ dead' = 0
  /\ connected' = {} /\ wire' = [p \in Pages |-> <<>>]
  /\ UNCHANGED <<queue, mark, pageVars>>

\* 'connection': the configuration is sent and a listener is added.
Connection(p) ==
  /\ server # "down" /\ p \notin connected
  /\ connected' = connected \union {p}
  /\ listeners' = listeners \union {p}
  /\ wire' = [wire EXCEPT ![p] = <<[kind |-> "configuration"]>>]
  /\ UNCHANGED <<queue, mark, server, dead, pageVars>>

\* The socket closes.  Its listener stays: what it emits goes nowhere.
Disconnect(p) ==
  /\ p \in connected
  /\ connected' = connected \ {p} /\ listeners' = listeners \ {p}
  /\ dead' = IF dead < MaxDead THEN dead + 1 ELSE dead
  /\ wire' = [wire EXCEPT ![p] = <<>>]
  /\ UNCHANGED <<queue, mark, server, pageVars>>

\* n updates are read and emitted, and every listener sends them to its socket.
Emit(n, copies) ==
  /\ server = "reading" /\ queue # <<>>
  /\ \A p \in connected : Len(wire[p]) < InFlight
  /\ Device!Remove(n)
  /\ wire' = [p \in Pages |->
       IF p \notin listeners THEN wire[p]
       ELSE wire[p] \o [i \in 1..copies |->
              [kind |-> "update", data |-> SubSeq(queue, 1, n)]]]
  /\ UNCHANGED <<mark, server, dead, connected, pageVars>>

\* Mutants of Data: a read takes part of the updates ...
DataInParts == \E n \in 1..Len(queue) : Emit(n, 1) /\ UNCHANGED listeners

\* ... or a listener emits to all sockets instead of its own ...
DataToAll == Emit(Len(queue), Cardinality(listeners) + dead) /\ UNCHANGED listeners

\* ... or it is called only once.
DataOnce == Emit(Len(queue), 1) /\ listeners' = {}

\* 'data', 'update'.  The device hands over whole updates: the assertion holds.
Data == Emit(Len(queue), 1) /\ UNCHANGED listeners

\* 'end': a read returned 0 (another process took the updates, or a signal
\* came).  Nobody opens the device again.
End ==
  /\ server = "reading" /\ queue = <<>>
  /\ server' = "end"
  /\ UNCHANGED <<queue, mark, listeners, dead, netVars, pageVars>>

-----------------------------------------------------------------------------
(* The page.                                                               *)

process_data(v, u) ==
  IF u.source # "xa0" THEN [v EXCEPT ![u.source] = u.tick]
  ELSE [v EXCEPT !.point = [sec |-> v.sec, usec |-> v.usec, value |-> u.tick]]

\* A marked reading that is appended is noted.
Handle(x, u) ==
  [page  |-> process_data(x.page, u),
   drawn |-> IF u.source = "xa0" /\ u.tick # 0 THEN Append(x.drawn, u.tick) ELSE x.drawn]

forEach(x, data) ==
  LET after[n \in 0..Len(data)] == IF n = 0 THEN x ELSE Handle(after[n - 1], data[n])
  IN  after[Len(data)]

\* Without a configuration process_data throws at the first update.
Receive(p) ==
  /\ wire[p] # <<>>
  /\ wire' = [wire EXCEPT ![p] = Tail(@)]
  /\ LET message == Head(wire[p])
         done == forEach([page |-> page[p], drawn |-> drawn[p]], message.data)
     IN  \/ /\ message.kind = "configuration"
            /\ page' = [page EXCEPT ![p].configured = TRUE]
            /\ UNCHANGED drawn
         \/ /\ message.kind = "update" /\ page[p].configured
            /\ page' = [page EXCEPT ![p] = done.page]
            /\ drawn' = [drawn EXCEPT ![p] = done.drawn]
  /\ UNCHANGED <<queue, mark, serverVars, connected>>

\* The page is loaded anew.
Load(p) ==
  /\ p \notin connected
  /\ page' = [page EXCEPT ![p] = FreshPage]
  /\ UNCHANGED <<queue, mark, serverVars, netVars, drawn>>

-----------------------------------------------------------------------------
Init ==
  /\ queue = <<>> /\ mark = 0
  /\ server = "down" /\ listeners = {} /\ dead = 0
  /\ connected = {} /\ wire = [p \in Pages |-> <<>>]
  /\ page = [p \in Pages |-> FreshPage]
  /\ drawn = [p \in Pages |-> <<>>]

Next ==
  \/ Tick \/ Serve \/ Die \/ Data \/ End
  \/ \E p \in Pages : Connection(p) \/ Disconnect(p) \/ Receive(p) \/ Load(p)

Spec == Init /\ [][Next]_vars

\* The device samples, the server reads what there is, and a message on an
\* open socket arrives.
FairSpec ==
  Spec /\ WF_vars(Tick) /\ WF_vars(Data) /\ \A p \in Pages : WF_vars(Receive(p))

-----------------------------------------------------------------------------
(* Properties.                                                             *)

Message ==
  [kind : {"configuration"}] \union [kind : {"update"}, data : Seq(Device!Update)]

Point == [sec : Marks, usec : Marks, value : Marks]

TypeOK ==
  /\ queue \in Seq(Device!Update) /\ Len(queue) <= Capacity
  /\ mark \in Marks
  /\ server \in {"down", "reading", "end"}
  /\ listeners \subseteq connected /\ connected \subseteq Pages /\ dead \in 0..MaxDead
  /\ wire \in [Pages -> Seq(Message)]
  /\ page \in [Pages -> [configured : BOOLEAN, sec : Marks, usec : Marks,
                         point : Point \union {NoPoint}]]
  /\ drawn \in [Pages -> Seq(Marks)]

\* A point has the second and the microsecond of its own tick, whenever the
\* page connected, reconnected or was loaded, and whichever updates the device
\* had no room for: client.html:18 reads them from what came before.
StampedOnPage == \A p \in Pages : page[p].point # NoPoint =>
  page[p].point.sec = page[p].point.value /\ page[p].point.usec = page[p].point.value

\* A reading is appended to a page's series at most once, and readings are in
\* the order of their ticks, across lost connections and restarts: what
\* smoothie.js:214 takes for granted.
OnceInOrder == \A p \in Pages : drawn[p] \in {<<>>, <<1>>, <<2>>, <<1, 2>>}

\* As long as its connection and the stream last, a page gets new updates.
UpdatesArrive == \A p \in Pages :
  (p \in connected /\ server = "reading") ~>
    \/ p \notin connected \/ server # "reading"
    \/ \E i \in DOMAIN wire[p] : wire[p][i].kind = "update"
=============================================================================
