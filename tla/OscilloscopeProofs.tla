------------------------ MODULE OscilloscopeProofs ------------------------
(***************************************************************************)
(* Theorems about the oscilloscope, for every number of pages, every size  *)
(* of the device's queue and every number of messages on the way: the      *)
(* types, that a point has the stamp of its own tick, and that readings    *)
(* arrive at most once and in order.                                       *)
(*                                                                         *)
(* A batch is handled update by update (forEach); what holds after all of  *)
(* it is shown by going through it, from lemma Reach on.                   *)
(***************************************************************************)
EXTENDS Oscilloscope, TLAPS, SequenceTheorems, WellFoundedInduction

-----------------------------------------------------------------------------
(* Going through a batch.                                                  *)

\* A set that has 0 and, with every number below N, the next has all up to N.
LEMMA Reach ==
  ASSUME NEW N \in Nat, NEW T, 0 \in T, \A n \in 0..N : n \in T /\ n < N => n + 1 \in T
  PROVE  \A n \in 0..N : n \in T
<1> DEFINE R == OpToRel(<, Nat)
           Out == {n \in 0..N : n \notin T}
<1> SUFFICES ASSUME Out # {} PROVE FALSE
  OBVIOUS
<1>1. IsWellFoundedOn(R, Nat)
  BY NatLessThanWellFounded
<1>2. \A m, n \in Nat : m < n => <<m, n>> \in R
  BY DEF OpToRel
<1> HIDE DEF R
<1>3. Out \in SUBSET Nat
  OBVIOUS
<1> HIDE DEF Out
<1>4. PICK n \in Out : \A m \in Out : ~(<<m, n>> \in R)
  BY <1>1, <1>3, WFMin
<1> USE DEF Out
<1>5. n # 0 /\ n \in 0..N
  OBVIOUS
<1>6. n - 1 \in 0..N /\ n - 1 < n /\ n - 1 < N /\ (n - 1) + 1 = n
  BY <1>5
<1>7. <<n - 1, n>> \in R
  BY <1>2, <1>5, <1>6
<1>8. n - 1 \notin Out
  BY <1>4, <1>7
<1>9. n - 1 \in T
  BY <1>6, <1>8
<1>10. n \in T
  BY <1>6, <1>9
<1> QED BY <1>10

\* What forEach makes of a batch is reached update by update.
LEMMA ForEachSteps ==
  ASSUME NEW x, NEW data, Len(data) \in Nat
  PROVE  \E after : /\ after[0] = x
                    /\ \A n \in 1..Len(data) : after[n] = Handle(after[n - 1], data[n])
                    /\ forEach(x, data) = after[Len(data)]
<1> DEFINE N == Len(data)
           Steps(g, m) == [n \in 0..m |-> IF n = 0 THEN x ELSE Handle(g[n - 1], data[n])]
           T == {m \in 0..N : \E g : g = Steps(g, m)}
<1>1. 0 \in T
  <2>1. [n \in 0..0 |-> x] = Steps([n \in 0..0 |-> x], 0)
    OBVIOUS
  <2>2. 0 \in 0..N
    OBVIOUS
  <2> HIDE DEF Steps
  <2>3. \E g : g = Steps(g, 0)
    BY <2>1
  <2> QED BY <2>2, <2>3
<1>2. ASSUME NEW m \in 0..N, m \in T, m < N PROVE m + 1 \in T
  <2>1. PICK g : g = Steps(g, m)
    BY <1>2
  <2> DEFINE h == [n \in 0..(m + 1) |-> IF n = m + 1 THEN Handle(g[m], data[m + 1]) ELSE g[n]]
  <2>2. \A n \in 0..m : h[n] = g[n]
    OBVIOUS
  <2>3. ASSUME NEW n \in 0..(m + 1)
        PROVE  h[n] = IF n = 0 THEN x ELSE Handle(h[n - 1], data[n])
    <3>1. CASE n = m + 1
      <4>1. n # 0 /\ n - 1 = m /\ h[n] = Handle(g[m], data[m + 1]) /\ h[m] = g[m]
        BY <3>1
      <4> QED BY <3>1, <4>1
    <3>2. CASE n # m + 1 /\ n # 0
      <4>1. n \in 0..m /\ n - 1 \in 0..m
        BY <3>2
      <4>2. g[n] = Handle(g[n - 1], data[n])
        BY <2>1, <3>2, <4>1
      <4> QED BY <2>2, <3>2, <4>1, <4>2
    <3>3. CASE n # m + 1 /\ n = 0
      <4>1. g[0] = x
        BY <2>1
      <4>2. 0 \in 0..m
        OBVIOUS
      <4> QED BY <2>2, <3>3, <4>1, <4>2
    <3> QED BY <3>1, <3>2, <3>3
  <2>4. h = Steps(h, m + 1)
    <3>1. h = [n \in 0..(m + 1) |-> h[n]]
      OBVIOUS
    <3> HIDE DEF h
    <3> QED BY <2>3, <3>1
  <2> HIDE DEF h
  <2>5. \E f : f = Steps(f, m + 1)
    BY <2>4
  <2> QED BY <1>2, <2>5
<1>3. N \in T
  <2> HIDE DEF T
  <2>1. \A n \in 0..N : n \in T
    BY <1>1, <1>2, Reach
  <2> QED BY <2>1
<1> DEFINE after == CHOOSE g : g = Steps(g, N)
<1>4. after = Steps(after, N)
  BY <1>3
<1>5. forEach(x, data) = after[N]
  BY DEF forEach
<1> HIDE DEF after
<1>6. after[0] = x
  BY <1>4
<1>7. ASSUME NEW n \in 1..N PROVE after[n] = Handle(after[n - 1], data[n])
  BY <1>4
<1> QED BY <1>5, <1>6, <1>7

-----------------------------------------------------------------------------
(* One update.                                                             *)

PageState == [configured : BOOLEAN, sec : Marks, usec : Marks,
              point : Point \union {NoPoint}]

\* Of the device's updates, ticks are told apart by their marks.
LEMMA UpdateIs == Device!Update = [source : {"sec", "usec", "xa0"}, tick : Marks]
BY DEF Device!Update, Device!Sources, Marks

\* What process_data does with each of the three kinds of update.
LEMMA ProcessData ==
  ASSUME NEW v \in PageState, NEW u \in Device!Update
  PROVE  /\ process_data(v, u) \in PageState
         /\ process_data(v, u).configured = v.configured
         /\ u.source = "sec" => /\ process_data(v, u).sec = u.tick
                                /\ process_data(v, u).usec = v.usec
                                /\ process_data(v, u).point = v.point
         /\ u.source = "usec" => /\ process_data(v, u).sec = v.sec
                                 /\ process_data(v, u).usec = u.tick
                                 /\ process_data(v, u).point = v.point
         /\ u.source = "xa0" =>
              /\ process_data(v, u).sec = v.sec
              /\ process_data(v, u).usec = v.usec
              /\ process_data(v, u).point = [sec |-> v.sec, usec |-> v.usec, value |-> u.tick]
<1> DEFINE w == process_data(v, u)
<1>1. u.source \in {"sec", "usec", "xa0"} /\ u.tick \in Marks
  BY UpdateIs
<1>2. CASE u.source = "sec"
  <2>1. w = [v EXCEPT !.sec = u.tick]
    BY <1>2 DEF process_data
  <2>2. w \in PageState
    BY <1>1, <2>1 DEF PageState
  <2> QED BY <1>1, <1>2, <2>1, <2>2 DEF PageState
<1>3. CASE u.source = "usec"
  <2>1. w = [v EXCEPT !.usec = u.tick]
    BY <1>3 DEF process_data
  <2>2. w \in PageState
    BY <1>1, <2>1 DEF PageState
  <2> QED BY <1>1, <1>3, <2>1, <2>2 DEF PageState
<1>4. CASE u.source = "xa0"
  <2>1. w = [v EXCEPT !.point = [sec |-> v.sec, usec |-> v.usec, value |-> u.tick]]
    BY <1>4 DEF process_data
  <2>2. [sec |-> v.sec, usec |-> v.usec, value |-> u.tick] \in Point
    BY <1>1 DEF PageState, Point
  <2>3. w \in PageState
    BY <1>1, <2>1, <2>2 DEF PageState
  <2> QED BY <1>1, <1>4, <2>1, <2>3 DEF PageState
<1> QED BY <1>1, <1>2, <1>3, <1>4

\* A batch keeps the types, at each of its updates.
LEMMA ForEachTypes ==
  ASSUME NEW v \in PageState, NEW d \in Seq(Marks), NEW data \in Seq(Device!Update)
  PROVE  \E after :
           /\ after[0].page = v /\ after[0].drawn = d
           /\ \A n \in 1..Len(data) : after[n] = Handle(after[n - 1], data[n])
           /\ \A n \in 0..Len(data) : after[n].page \in PageState /\ after[n].drawn \in Seq(Marks)
           /\ forEach([page |-> v, drawn |-> d], data) = after[Len(data)]
<1> DEFINE x == [page |-> v, drawn |-> d]
           N == Len(data)
<1>1. N \in Nat /\ \A n \in 1..N : data[n] \in Device!Update
  OBVIOUS
<1>2. x.page = v /\ x.drawn = d
  OBVIOUS
<1> HIDE DEF x
<1>3. PICK after : /\ after[0] = x
                   /\ \A n \in 1..N : after[n] = Handle(after[n - 1], data[n])
                   /\ forEach(x, data) = after[N]
  BY <1>1, ForEachSteps
<1> DEFINE T == {n \in 0..N : after[n].page \in PageState /\ after[n].drawn \in Seq(Marks)}
<1>4. 0 \in T
  BY <1>1, <1>2, <1>3
<1>5. ASSUME NEW n \in 0..N, n \in T, n < N PROVE n + 1 \in T
  <2>1. n + 1 \in 1..N /\ n + 1 \in 0..N /\ (n + 1) - 1 = n
    BY <1>1, <1>5
  <2>2. after[n + 1] = Handle(after[n], data[n + 1]) /\ data[n + 1] \in Device!Update
    BY <1>1, <1>3, <2>1
  <2>3. /\ after[n + 1].page = process_data(after[n].page, data[n + 1])
        /\ \/ after[n + 1].drawn = after[n].drawn
           \/ after[n + 1].drawn = Append(after[n].drawn, data[n + 1].tick)
    BY <2>2 DEF Handle
  <2>4. after[n].page \in PageState /\ after[n].drawn \in Seq(Marks)
    BY <1>5
  <2>5. data[n + 1].tick \in Marks
    BY <2>2, UpdateIs
  <2>6. after[n + 1].page \in PageState
    BY <2>2, <2>3, <2>4, ProcessData
  <2>7. after[n + 1].drawn \in Seq(Marks)
    <3>1. \A e \in Seq(Marks), t \in Marks : Append(e, t) \in Seq(Marks)
      OBVIOUS
    <3> QED BY <2>3, <2>4, <2>5, <3>1, Zenon
  <2> QED BY <2>1, <2>6, <2>7
<1> HIDE DEF T
<1>6. \A n \in 0..N : n \in T
  BY <1>1, <1>4, <1>5, Reach
<1>7. \A n \in 0..N : after[n].page \in PageState /\ after[n].drawn \in Seq(Marks)
  BY <1>6 DEF T
<1> QED BY <1>2, <1>3, <1>7 DEF x

-----------------------------------------------------------------------------
(* Ticks and reads.                                                        *)

\* The three updates of a tick.
Offered(m) == [i \in 1..3 |-> [source |-> <<"sec", "usec", "xa0">>[i], tick |-> m]]

\* What a queue holds after a tick.
Filled(s, m) ==
  LET all == s \o Offered(m)
      room == IF Len(all) < Capacity THEN Len(all) ELSE Capacity
  IN  SubSeq(all, 1, room)

\* They are updates of the device, in the order sec, usec, xa0.
LEMMA OfferedUpdates ==
  ASSUME NEW m \in Marks
  PROVE  /\ Offered(m) \in Seq(Device!Update) /\ Len(Offered(m)) = 3
         /\ Offered(m)[1] = [source |-> "sec", tick |-> m]
         /\ Offered(m)[2] = [source |-> "usec", tick |-> m]
         /\ Offered(m)[3] = [source |-> "xa0", tick |-> m]
<1>1. /\ Offered(m)[1] = [source |-> "sec", tick |-> m]
      /\ Offered(m)[2] = [source |-> "usec", tick |-> m]
      /\ Offered(m)[3] = [source |-> "xa0", tick |-> m]
  BY DEF Offered
<1>2. \A i \in 1..3 : i = 1 \/ i = 2 \/ i = 3
  OBVIOUS
<1>3. \A i \in 1..3 : Offered(m)[i] \in Device!Update
  BY <1>1, <1>2, UpdateIs
<1>4. Offered(m) \in [1..3 -> Device!Update]
  <2>1. Offered(m) = [i \in 1..3 |-> Offered(m)[i]]
    BY DEF Offered
  <2> QED BY <1>3, <2>1
<1>5. Offered(m) \in Seq(Device!Update) /\ Len(Offered(m)) = 3
  <2>1. ASSUME NEW n \in Nat, NEW S, NEW f \in [1..n -> S]
        PROVE  f \in Seq(S) /\ Len(f) = n
    OBVIOUS
  <2>2. 3 \in Nat
    OBVIOUS
  <2> QED BY <1>4, <2>1, <2>2, Zenon
<1> QED BY <1>1, <1>5

\* An update in the queue after a tick was there before, at the same place, or
\* is one of the three offered, in their order, behind all that were there.
LEMMA FilledUpdates ==
  ASSUME NEW s \in Seq(Device!Update), NEW m \in Marks, Len(s) <= Capacity
  PROVE  /\ Filled(s, m) \in Seq(Device!Update)
         /\ Len(Filled(s, m)) <= Capacity /\ Len(Filled(s, m)) <= Len(s) + 3
         /\ \A i \in 1..Len(Filled(s, m)) :
              IF i <= Len(s) THEN Filled(s, m)[i] = s[i]
              ELSE i - Len(s) \in 1..3 /\ Filled(s, m)[i] = Offered(m)[i - Len(s)]
<1> DEFINE all == s \o Offered(m)
           n == Len(s)
           room == IF Len(all) < Capacity THEN Len(all) ELSE Capacity
<1>1. Offered(m) \in Seq(Device!Update) /\ Len(Offered(m)) = 3
  BY OfferedUpdates
<1>2. n \in Nat /\ Capacity \in Nat
  BY OscilloscopeAssumption
<1>3. all \in Seq(Device!Update) /\ Len(all) = n + 3
  <2>1. all \in Seq(Device!Update) /\ Len(all) = Len(s) + Len(Offered(m))
    BY <1>1, ConcatProperties
  <2> QED BY <1>1, <2>1
<1>4. \A i \in 1..(n + 3) : all[i] = IF i <= n THEN s[i] ELSE Offered(m)[i - n]
  <2>1. \A i \in 1..(Len(s) + Len(Offered(m))) :
          all[i] = IF i <= Len(s) THEN s[i] ELSE Offered(m)[i - Len(s)]
    BY <1>1, ConcatProperties
  <2> QED BY <1>1, <2>1
<1> HIDE DEF all
<1>5. room \in Nat /\ room <= n + 3 /\ room <= Capacity
  BY <1>2, <1>3
<1>6. Filled(s, m) = SubSeq(all, 1, room)
  BY DEF Filled, all
<1> HIDE DEF room
<1>7. \A i \in 1..room : all[i] \in Device!Update
  BY <1>2, <1>3, <1>5
<1>8. /\ Filled(s, m) \in Seq(Device!Update) /\ Len(Filled(s, m)) = room
      /\ \A i \in 1..room : Filled(s, m)[i] = all[i]
  BY <1>2, <1>5, <1>6, <1>7
<1>9. ASSUME NEW i \in 1..room
      PROVE  IF i <= n THEN Filled(s, m)[i] = s[i]
             ELSE i - n \in 1..3 /\ Filled(s, m)[i] = Offered(m)[i - n]
  BY <1>2, <1>4, <1>5, <1>8
<1> QED BY <1>2, <1>5, <1>8, <1>9

\* Every page with a listener is sent the whole queue, and nothing else.
LEMMA DataSends ==
  ASSUME TypeOK, Data
  PROVE  /\ queue' = <<>> /\ queue # <<>>
         /\ \A p \in Pages :
              \/ wire'[p] = wire[p]
              \/ wire'[p] = Append(wire[p], [kind |-> "update", data |-> queue])
         /\ wire' = [p \in Pages |-> wire'[p]]
         /\ UNCHANGED <<mark, server, dead, connected, pageVars, listeners>>
<1>1. queue \in Seq(Device!Update) /\ wire \in [Pages -> Seq(Message)]
  BY DEF TypeOK
<1> DEFINE n == Len(queue)
           msg == [kind |-> "update", data |-> SubSeq(queue, 1, n)]
<1>2. /\ queue # <<>>
      /\ queue' = SubSeq(queue, n + 1, n)
      /\ wire' = [p \in Pages |-> IF p \notin listeners THEN wire[p]
                                  ELSE wire[p] \o [i \in 1..1 |-> msg]]
      /\ UNCHANGED <<mark, server, dead, connected, pageVars, listeners>>
  BY DEF Data, Emit, Device!Remove
<1>3. SubSeq(queue, 1, n) = queue /\ SubSeq(queue, n + 1, n) = <<>>
  BY <1>1
<1>4. msg = [kind |-> "update", data |-> queue]
  BY <1>3
<1>5. \A w \in Seq(Message) : w \o [i \in 1..1 |-> msg] = Append(w, msg)
  OBVIOUS
<1> HIDE DEF msg
<1>6. \A p \in Pages : wire'[p] = wire[p] \/ wire'[p] = Append(wire[p], msg)
  BY <1>1, <1>2, <1>5
<1>7. wire' = [p \in Pages |-> wire'[p]]
  BY <1>2
<1> QED BY <1>2, <1>3, <1>4, <1>6, <1>7

-----------------------------------------------------------------------------
(* The types.                                                              *)

\* What a page does with the message it receives.
LEMMA ReceiveHandles ==
  ASSUME TypeOK, NEW p \in Pages, Receive(p)
  PROVE  LET message == Head(wire[p])
             done == forEach([page |-> page[p], drawn |-> drawn[p]], message.data)
         IN  /\ wire[p] # <<>> /\ wire' = [wire EXCEPT ![p] = Tail(wire[p])]
             /\ UNCHANGED <<queue, mark, serverVars, connected>>
             /\ \/ /\ page' = [page EXCEPT ![p].configured = TRUE]
                   /\ UNCHANGED drawn
                \/ /\ message.kind = "update" /\ message.data \in Seq(Device!Update)
                   /\ page' = [page EXCEPT ![p] = done.page]
                   /\ drawn' = [drawn EXCEPT ![p] = done.drawn]
<1>1. wire \in [Pages -> Seq(Message)]
  BY DEF TypeOK
<1>2. wire[p] # <<>> /\ wire[p] \in Seq(Message)
  BY <1>1 DEF Receive
<1>3. Head(wire[p]) \in Message
  BY <1>2
<1>4. Head(wire[p]).kind = "update" => Head(wire[p]).data \in Seq(Device!Update)
  BY <1>3 DEF Message
<1>5. wire' = [wire EXCEPT ![p] = Tail(wire[p])]
  BY DEF Receive
<1> QED BY <1>2, <1>4, <1>5 DEF Receive

\* Every variable keeps its type: the queue stays within its size, listeners
\* are of open sockets, and process_data never reads what it did not set.
THEOREM TypeCorrect == Spec => []TypeOK
<1>1. Init => TypeOK
  <2> SUFFICES ASSUME Init PROVE TypeOK
    OBVIOUS
  <2>1. FreshPage \in PageState
    BY DEF FreshPage, PageState, Marks
  <2>2. page \in [Pages -> PageState] /\ drawn \in [Pages -> Seq(Marks)]
    BY <2>1 DEF Init
  <2>3. queue \in Seq(Device!Update) /\ Len(queue) <= Capacity /\ wire \in [Pages -> Seq(Message)]
    BY OscilloscopeAssumption DEF Init
  <2>4. mark \in Marks /\ dead \in 0..MaxDead
    BY OscilloscopeAssumption DEF Init, Marks
  <2> QED BY <2>2, <2>3, <2>4 DEF Init, TypeOK, PageState
<1>2. TypeOK /\ [Next]_vars => TypeOK'
  <2> SUFFICES ASSUME TypeOK, [Next]_vars PROVE TypeOK'
    OBVIOUS
  <2>0. /\ queue \in Seq(Device!Update) /\ Len(queue) <= Capacity
        /\ mark \in Marks
        /\ server \in {"down", "reading", "end"}
        /\ listeners \subseteq connected /\ connected \subseteq Pages /\ dead \in 0..MaxDead
        /\ wire \in [Pages -> Seq(Message)]
        /\ page \in [Pages -> PageState]
        /\ drawn \in [Pages -> Seq(Marks)]
    BY DEF TypeOK, PageState
  <2>1. CASE Tick
    <3>1. PICK m \in {0} \union ({mark + 1} \cap Marks) :
            /\ queue' = Filled(queue, m)
            /\ mark' = IF m = 0 THEN mark ELSE m
            /\ UNCHANGED <<serverVars, netVars, pageVars>>
      BY <2>1 DEF Tick, Filled, Offered
    <3>2. m \in Marks
      BY DEF Marks
    <3>3. queue' \in Seq(Device!Update) /\ Len(queue') <= Capacity
      BY <2>0, <3>1, <3>2, FilledUpdates
    <3>4. mark' \in Marks
      BY <2>0, <3>1, <3>2
    <3> QED BY <3>1, <3>3, <3>4 DEF TypeOK, serverVars, netVars, pageVars
  <2>2. CASE Serve
    BY <2>2 DEF Serve, TypeOK, netVars, pageVars
  <2>3. CASE Die
    <3>1. wire' \in [Pages -> Seq(Message)]
      BY <2>3 DEF Die
    <3>2. dead' \in 0..MaxDead
      BY <2>3, OscilloscopeAssumption DEF Die
    <3> QED BY <2>3, <3>1, <3>2 DEF Die, TypeOK, pageVars
  <2>4. CASE Data
    <3>1. /\ queue' = <<>> /\ wire' = [p \in Pages |-> wire'[p]]
          /\ \A p \in Pages :
               \/ wire'[p] = wire[p]
               \/ wire'[p] = Append(wire[p], [kind |-> "update", data |-> queue])
          /\ UNCHANGED <<mark, server, dead, connected, pageVars, listeners>>
      BY <2>4, DataSends
    <3>2. [kind |-> "update", data |-> queue] \in Message
      BY <2>0 DEF Message
    <3>3. \A p \in Pages : wire'[p] \in Seq(Message)
      <4>1. \A w \in Seq(Message), message \in Message : Append(w, message) \in Seq(Message)
        OBVIOUS
      <4>2. \A p \in Pages : wire[p] \in Seq(Message)
        BY <2>0
      <4> QED BY <3>1, <3>2, <4>1, <4>2, Zenon
    <3>4. wire' \in [Pages -> Seq(Message)]
      BY <3>1, <3>3
    <3>5. queue' \in Seq(Device!Update) /\ Len(queue') <= Capacity
      BY <3>1, OscilloscopeAssumption
    <3> QED BY <3>1, <3>4, <3>5 DEF TypeOK, pageVars
  <2>5. CASE End
    BY <2>5 DEF End, TypeOK, netVars, pageVars
  <2>6. ASSUME NEW p \in Pages, Connection(p) PROVE TypeOK'
    <3>1. [kind |-> "configuration"] \in Message
      BY DEF Message
    <3>2. wire' \in [Pages -> Seq(Message)]
      BY <2>0, <2>6, <3>1 DEF Connection
    <3>3. listeners' \subseteq connected' /\ connected' \subseteq Pages
      BY <2>0, <2>6 DEF Connection
    <3> QED BY <2>6, <3>2, <3>3 DEF Connection, TypeOK, pageVars
  <2>7. ASSUME NEW p \in Pages, Disconnect(p) PROVE TypeOK'
    <3>1. wire' \in [Pages -> Seq(Message)]
      BY <2>0, <2>7 DEF Disconnect
    <3>2. listeners' \subseteq connected' /\ connected' \subseteq Pages
      BY <2>0, <2>7 DEF Disconnect
    <3>3. dead' \in 0..MaxDead
      BY <2>0, <2>7, OscilloscopeAssumption DEF Disconnect
    <3> QED BY <2>7, <3>1, <3>2, <3>3 DEF Disconnect, TypeOK, pageVars
  <2>8. ASSUME NEW p \in Pages, Receive(p) PROVE TypeOK'
    <3> DEFINE message == Head(wire[p])
               done == forEach([page |-> page[p], drawn |-> drawn[p]], message.data)
    <3>1. /\ wire[p] # <<>> /\ wire' = [wire EXCEPT ![p] = Tail(wire[p])]
          /\ UNCHANGED <<queue, mark, serverVars, connected>>
          /\ \/ /\ page' = [page EXCEPT ![p].configured = TRUE]
                /\ UNCHANGED drawn
             \/ /\ message.kind = "update" /\ message.data \in Seq(Device!Update)
                /\ page' = [page EXCEPT ![p] = done.page]
                /\ drawn' = [drawn EXCEPT ![p] = done.drawn]
      BY <2>8, ReceiveHandles
    <3>2. page[p] \in PageState /\ drawn[p] \in Seq(Marks) /\ wire[p] \in Seq(Message)
      BY <2>0
    <3>3. wire' \in [Pages -> Seq(Message)]
      <4>1. Tail(wire[p]) \in Seq(Message)
        BY <3>1, <3>2
      <4> QED BY <2>0, <3>1, <4>1
    <3>4. page' \in [Pages -> PageState] /\ drawn' \in [Pages -> Seq(Marks)]
      <4>1. CASE page' = [page EXCEPT ![p].configured = TRUE] /\ UNCHANGED drawn
        <5>1. [page[p] EXCEPT !.configured = TRUE] \in PageState
          BY <3>2 DEF PageState
        <5>2. page' = [page EXCEPT ![p] = [page[p] EXCEPT !.configured = TRUE]]
          BY <4>1
        <5> QED BY <2>0, <4>1, <5>1, <5>2
      <4>2. CASE /\ message.data \in Seq(Device!Update)
                 /\ page' = [page EXCEPT ![p] = done.page]
                 /\ drawn' = [drawn EXCEPT ![p] = done.drawn]
        <5> HIDE DEF message
        <5>1. PICK after :
                /\ \A n \in 0..Len(message.data) :
                     after[n].page \in PageState /\ after[n].drawn \in Seq(Marks)
                /\ done = after[Len(message.data)]
          BY <3>2, <4>2, ForEachTypes
        <5>2. Len(message.data) \in 0..Len(message.data)
          BY <4>2
        <5>3. done.page \in PageState /\ done.drawn \in Seq(Marks)
          BY <5>1, <5>2
        <5> QED BY <2>0, <4>2, <5>3
      <4> QED BY <3>1, <4>1, <4>2
    <3> QED BY <3>1, <3>3, <3>4 DEF TypeOK, PageState, serverVars
  <2>9. ASSUME NEW p \in Pages, Load(p) PROVE TypeOK'
    <3>1. FreshPage \in PageState
      BY DEF FreshPage, PageState, Marks
    <3>2. page' \in [Pages -> PageState]
      BY <2>0, <2>9, <3>1 DEF Load
    <3> QED BY <2>9, <3>2 DEF Load, TypeOK, PageState, serverVars, netVars
  <2>10. CASE UNCHANGED vars
    BY <2>10 DEF TypeOK, vars, serverVars, netVars, pageVars
  <2> QED BY <2>1, <2>2, <2>3, <2>4, <2>5, <2>6, <2>7, <2>8, <2>9, <2>10 DEF Next
<1> QED BY <1>1, <1>2, PTL DEF Spec

-----------------------------------------------------------------------------
(* A point has the stamp of its own tick.                                  *)

\* Before a reading come the second and the microsecond of its own tick.
StampedBatch(s) == \A i \in 1..Len(s) : s[i].source = "xa0" =>
  /\ i >= 3
  /\ s[i - 2] = [source |-> "sec", tick |-> s[i].tick]
  /\ s[i - 1] = [source |-> "usec", tick |-> s[i].tick]

\* So it is in the device and, since a read takes the whole queue, in every
\* batch on its way to a page.
StampInv ==
  /\ StampedBatch(queue)
  /\ \A p \in Pages : \A i \in 1..Len(wire[p]) :
       wire[p][i].kind = "update" => StampedBatch(wire[p][i].data)

PointStamped(v) == v.point # NoPoint =>
  v.point.sec = v.point.value /\ v.point.usec = v.point.value

\* A tick that finds no room for all of its updates loses the last of them.
LEMMA FilledStamped ==
  ASSUME NEW s \in Seq(Device!Update), NEW m \in Marks, Len(s) <= Capacity, StampedBatch(s)
  PROVE  StampedBatch(Filled(s, m))
<1> DEFINE f == Filled(s, m)
           n == Len(s)
<1>1. /\ Len(f) \in Nat /\ n \in Nat
      /\ \A i \in 1..Len(f) : IF i <= n THEN f[i] = s[i]
                              ELSE i - n \in 1..3 /\ f[i] = Offered(m)[i - n]
  BY FilledUpdates
<1> HIDE DEF f
<1> SUFFICES ASSUME NEW i \in 1..Len(f), f[i].source = "xa0"
             PROVE  /\ i >= 3
                    /\ f[i - 2] = [source |-> "sec", tick |-> f[i].tick]
                    /\ f[i - 1] = [source |-> "usec", tick |-> f[i].tick]
  BY DEF StampedBatch, f
<1>2. CASE i <= n
  <2>1. i \in 1..n /\ f[i] = s[i]
    BY <1>1, <1>2
  <2>2. /\ i >= 3
        /\ s[i - 2] = [source |-> "sec", tick |-> s[i].tick]
        /\ s[i - 1] = [source |-> "usec", tick |-> s[i].tick]
    BY <2>1 DEF StampedBatch
  <2>3. /\ i - 1 \in 1..Len(f) /\ i - 1 <= n
        /\ i - 2 \in 1..Len(f) /\ i - 2 <= n
    BY <1>1, <2>1, <2>2
  <2>4. f[i - 1] = s[i - 1] /\ f[i - 2] = s[i - 2]
    BY <1>1, <2>3
  <2> QED BY <2>1, <2>2, <2>4
<1>3. CASE ~(i <= n)
  <2>1. i - n \in 1..3 /\ f[i] = Offered(m)[i - n]
    BY <1>1, <1>3
  <2>2. /\ Offered(m)[1] = [source |-> "sec", tick |-> m]
        /\ Offered(m)[2] = [source |-> "usec", tick |-> m]
        /\ Offered(m)[3] = [source |-> "xa0", tick |-> m]
    BY OfferedUpdates
  <2>3. i - n = 3
    BY <2>1, <2>2
  <2>4. f[i].tick = m
    BY <2>1, <2>2, <2>3
  <2>5. /\ i - 1 \in 1..Len(f) /\ ~(i - 1 <= n) /\ (i - 1) - n = 2
        /\ i - 2 \in 1..Len(f) /\ ~(i - 2 <= n) /\ (i - 2) - n = 1 /\ i >= 3
    <3>1. i = n + 3 /\ n \in Nat /\ Len(f) \in Nat /\ i <= Len(f)
      BY <1>1, <2>3
    <3> QED BY <3>1
  <2>6. f[i - 1] = Offered(m)[2] /\ f[i - 2] = Offered(m)[1]
    BY <1>1, <2>5
  <2> QED BY <2>2, <2>4, <2>5, <2>6
<1> QED BY <1>2, <1>3

\* A page that is sent such a batch stamps every point with its own tick.
LEMMA ForEachStamps ==
  ASSUME NEW v \in PageState, NEW d \in Seq(Marks), NEW data \in Seq(Device!Update),
         StampedBatch(data), PointStamped(v)
  PROVE  PointStamped(forEach([page |-> v, drawn |-> d], data).page)
<1> DEFINE N == Len(data)
<1>1. PICK after :
        /\ after[0].page = v /\ after[0].drawn = d
        /\ \A n \in 1..Len(data) : after[n] = Handle(after[n - 1], data[n])
        /\ \A n \in 0..Len(data) : after[n].page \in PageState /\ after[n].drawn \in Seq(Marks)
        /\ forEach([page |-> v, drawn |-> d], data) = after[Len(data)]
  BY ForEachTypes
<1>2. N \in Nat /\ \A n \in 1..N : data[n] \in Device!Update
  OBVIOUS
<1>3. ASSUME NEW n \in 1..N
      PROVE  /\ after[n].page = process_data(after[n - 1].page, data[n])
             /\ after[n - 1].page \in PageState
  <2>1. n - 1 \in 0..N
    BY <1>2
  <2>2. after[n] = Handle(after[n - 1], data[n]) /\ after[n - 1].page \in PageState
    BY <1>1, <2>1
  <2>3. \A x, u : Handle(x, u).page = process_data(x.page, u)
    BY DEF Handle
  <2> QED BY <2>2, <2>3
<1> DEFINE T == {n \in 0..N : PointStamped(after[n].page)}
<1>4. 0 \in T
  BY <1>1, <1>2
<1>5. ASSUME NEW n \in 0..N, n \in T, n < N PROVE n + 1 \in T
  <2> DEFINE k == n + 1
  <2>1. k \in 1..N /\ k \in 0..N /\ k - 1 = n
    BY <1>2, <1>5
  <2>2. /\ after[k].page = process_data(after[n].page, data[k])
        /\ after[n].page \in PageState /\ data[k] \in Device!Update
    BY <1>2, <1>3, <2>1
  <2>3. CASE data[k].source # "xa0"
    <3>1. data[k].source = "sec" \/ data[k].source = "usec"
      BY <2>2, <2>3, UpdateIs
    <3>2. after[k].page.point = after[n].page.point
      <4>1. process_data(after[n].page, data[k]).point = after[n].page.point
        BY <2>2, <3>1, ProcessData
      <4> QED BY <2>2, <4>1
    <3>3. PointStamped(after[k].page)
      BY <1>5, <3>2 DEF PointStamped
    <3> QED BY <2>1, <3>3
  <2>4. CASE data[k].source = "xa0"
    <3>1. /\ k >= 3
          /\ data[k - 2] = [source |-> "sec", tick |-> data[k].tick]
          /\ data[k - 1] = [source |-> "usec", tick |-> data[k].tick]
      BY <2>1, <2>4 DEF StampedBatch
    <3>2. k - 1 \in 1..N /\ k - 2 \in 1..N /\ (k - 1) - 1 = k - 2
      BY <1>2, <2>1, <3>1
    <3>3. after[k - 2].page.sec = data[k].tick
      <4>1. /\ after[k - 2].page = process_data(after[(k - 2) - 1].page, data[k - 2])
            /\ after[(k - 2) - 1].page \in PageState /\ data[k - 2] \in Device!Update
            /\ data[k - 2].source = "sec" /\ data[k - 2].tick = data[k].tick
        BY <1>2, <1>3, <3>1, <3>2
      <4>2. process_data(after[(k - 2) - 1].page, data[k - 2]).sec = data[k - 2].tick
        BY <4>1, ProcessData
      <4> QED BY <4>1, <4>2
    <3>4. after[k - 1].page.sec = data[k].tick /\ after[k - 1].page.usec = data[k].tick
      <4>1. /\ after[k - 1].page = process_data(after[k - 2].page, data[k - 1])
            /\ after[k - 2].page \in PageState /\ data[k - 1] \in Device!Update
            /\ data[k - 1].source = "usec" /\ data[k - 1].tick = data[k].tick
        BY <1>2, <1>3, <3>1, <3>2
      <4>2. /\ process_data(after[k - 2].page, data[k - 1]).sec = after[k - 2].page.sec
            /\ process_data(after[k - 2].page, data[k - 1]).usec = data[k - 1].tick
        BY <4>1, ProcessData
      <4> QED BY <3>3, <4>1, <4>2
    <3>5. after[k].page.point =
            [sec |-> after[n].page.sec, usec |-> after[n].page.usec, value |-> data[k].tick]
      BY <2>2, <2>4, ProcessData
    <3>6. after[k].page.point =
            [sec |-> data[k].tick, usec |-> data[k].tick, value |-> data[k].tick]
      BY <2>1, <3>4, <3>5
    <3>7. PointStamped(after[k].page)
      BY <3>6 DEF PointStamped
    <3> QED BY <2>1, <3>7
  <2> QED BY <2>3, <2>4
<1> HIDE DEF T
<1>6. \A n \in 0..N : n \in T
  BY <1>2, <1>4, <1>5, Reach
<1>7. N \in T
  BY <1>2, <1>6
<1> QED BY <1>1, <1>7 DEF T

\* A point has the second and the microsecond of its own tick, whichever
\* updates were lost and whenever the page was connected or loaded
\* (client.html:18).
THEOREM StampsCorrect == Spec => []StampedOnPage
<1>1. Init => StampInv /\ StampedOnPage
  BY DEF Init, StampInv, StampedBatch, StampedOnPage, FreshPage
<1>2. TypeOK /\ StampInv /\ StampedOnPage /\ [Next]_vars => StampInv' /\ StampedOnPage'
  <2> SUFFICES ASSUME TypeOK, StampInv, StampedOnPage, [Next]_vars
               PROVE  StampInv' /\ StampedOnPage'
    OBVIOUS
  <2>0. /\ queue \in Seq(Device!Update) /\ Len(queue) <= Capacity
        /\ wire \in [Pages -> Seq(Message)]
        /\ page \in [Pages -> PageState]
        /\ drawn \in [Pages -> Seq(Marks)]
        /\ \A p \in Pages : Len(wire[p]) \in Nat
    BY DEF TypeOK, PageState
  <2> DEFINE Sent(w) == \A i \in 1..Len(w) : w[i].kind = "update" => StampedBatch(w[i].data)
  <2>a. /\ StampedBatch(queue) /\ \A p \in Pages : Sent(wire[p])
        /\ \A p \in Pages : PointStamped(page[p])
    BY DEF StampInv, StampedOnPage, PointStamped
  <2>b. SUFFICES /\ StampedBatch(queue') /\ \A p \in Pages : Sent(wire'[p])
                 /\ \A p \in Pages : PointStamped(page'[p])
    BY DEF StampInv, StampedOnPage, PointStamped, StampedBatch
  <2>1. CASE Tick
    <3>1. PICK m \in {0} \union ({mark + 1} \cap Marks) :
            queue' = Filled(queue, m) /\ UNCHANGED <<netVars, pageVars>>
      BY <2>1 DEF Tick, Filled, Offered
    <3>2. m \in Marks
      BY DEF Marks
    <3>3. StampedBatch(queue')
      BY <2>0, <2>a, <3>1, <3>2, FilledStamped
    <3> QED BY <2>a, <3>1, <3>3 DEF netVars, pageVars
  <2>2. CASE Die
    <3>1. \A p \in Pages : Sent(wire'[p])
      BY <2>2 DEF Die
    <3> QED BY <2>2, <2>a, <3>1 DEF Die, pageVars
  <2>3. CASE Data
    <3>1. /\ queue' = <<>> /\ UNCHANGED pageVars
          /\ \A p \in Pages :
               \/ wire'[p] = wire[p]
               \/ wire'[p] = Append(wire[p], [kind |-> "update", data |-> queue])
      BY <2>3, DataSends
    <3>2. ASSUME NEW p \in Pages, wire'[p] = Append(wire[p], [kind |-> "update", data |-> queue])
          PROVE  Sent(wire'[p])
      <4> DEFINE n == Len(wire[p])
                 msg == [kind |-> "update", data |-> queue]
      <4>1. wire[p] \in Seq(Message) /\ n \in Nat
        BY <2>0
      <4>2. msg.data = queue
        OBVIOUS
      <4> HIDE DEF msg
      <4>3. /\ Len(wire'[p]) = n + 1 /\ wire'[p][n + 1] = msg
            /\ \A i \in 1..n : wire'[p][i] = wire[p][i]
        BY <3>2, <4>1 DEF msg
      <4>4. \A i \in 1..(n + 1) : i \in 1..n \/ i = n + 1
        BY <4>1
      <4>5. Sent(wire[p])
        BY <2>a
      <4> HIDE DEF n
      <4> QED BY <2>a, <4>2, <4>3, <4>4, <4>5 DEF n
    <3>3. \A p \in Pages : Sent(wire'[p])
      <4> HIDE DEF Sent
      <4> QED BY <2>a, <3>1, <3>2
    <3>4. StampedBatch(queue')
      BY <3>1 DEF StampedBatch
    <3> QED BY <2>a, <3>1, <3>3, <3>4 DEF pageVars
  <2>4. ASSUME NEW q \in Pages, Connection(q) PROVE \A p \in Pages : Sent(wire'[p])
    <3>1. wire' = [wire EXCEPT ![q] = <<[kind |-> "configuration"]>>]
      BY <2>4 DEF Connection
    <3>2. Sent(<<[kind |-> "configuration"]>>)
      OBVIOUS
    <3> HIDE DEF Sent
    <3> QED BY <2>0, <2>a, <3>1, <3>2
  <2>5. ASSUME NEW q \in Pages, Disconnect(q) PROVE \A p \in Pages : Sent(wire'[p])
    <3>1. wire' = [wire EXCEPT ![q] = <<>>]
      BY <2>5 DEF Disconnect
    <3>2. Sent(<<>>)
      OBVIOUS
    <3> HIDE DEF Sent
    <3> QED BY <2>0, <2>a, <3>1, <3>2
  <2>6. ASSUME NEW q \in Pages, Connection(q) \/ Disconnect(q)
        PROVE  UNCHANGED <<queue, pageVars>>
    BY <2>6 DEF Connection, Disconnect
  <2>7. ASSUME NEW q \in Pages, Receive(q)
        PROVE  /\ StampedBatch(queue') /\ \A p \in Pages : Sent(wire'[p])
               /\ \A p \in Pages : PointStamped(page'[p])
    <3> DEFINE message == Head(wire[q])
               done == forEach([page |-> page[q], drawn |-> drawn[q]], message.data)
    <3>1. /\ wire[q] # <<>> /\ wire' = [wire EXCEPT ![q] = Tail(wire[q])]
          /\ UNCHANGED <<queue, mark, serverVars, connected>>
          /\ \/ /\ page' = [page EXCEPT ![q].configured = TRUE]
                /\ UNCHANGED drawn
             \/ /\ message.kind = "update" /\ message.data \in Seq(Device!Update)
                /\ page' = [page EXCEPT ![q] = done.page]
                /\ drawn' = [drawn EXCEPT ![q] = done.drawn]
      BY <2>7, ReceiveHandles
    <3>2. wire[q] \in Seq(Message) /\ page[q] \in PageState /\ drawn[q] \in Seq(Marks)
      BY <2>0
    <3>3. \A p \in Pages : Sent(wire'[p])
      <4>1. Len(Tail(wire[q])) = Len(wire[q]) - 1 /\ Len(wire[q]) \in Nat
            /\ \A i \in 1..(Len(wire[q]) - 1) : Tail(wire[q])[i] = wire[q][i + 1]
        BY <3>1, <3>2
      <4>2. \A i \in 1..(Len(wire[q]) - 1) : i + 1 \in 1..Len(wire[q])
        BY <4>1
      <4>3. Sent(Tail(wire[q]))
        BY <2>a, <4>1, <4>2
      <4> HIDE DEF Sent
      <4> QED BY <2>0, <2>a, <3>1, <4>3
    <3>4. CASE page' = [page EXCEPT ![q].configured = TRUE]
      <4>1. \A p \in Pages : page'[p].point = page[p].point
        BY <2>0, <3>4 DEF PageState
      <4> QED BY <2>a, <3>1, <3>3, <4>1 DEF PointStamped
    <3>5. CASE /\ message.kind = "update" /\ message.data \in Seq(Device!Update)
               /\ page' = [page EXCEPT ![q] = done.page]
      <4>1. 1 \in 1..Len(wire[q]) /\ message = wire[q][1]
        BY <3>1, <3>2
      <4>2. StampedBatch(message.data)
        BY <2>a, <3>5, <4>1
      <4> HIDE DEF message
      <4>3. PointStamped(done.page)
        BY <2>a, <3>2, <3>5, <4>2, ForEachStamps
      <4>4. \A p \in Pages : page'[p] = IF p = q THEN done.page ELSE page[p]
        BY <2>0, <3>5
      <4> HIDE DEF done
      <4>5. \A p \in Pages : PointStamped(page'[p])
        BY <2>a, <4>3, <4>4
      <4> QED BY <2>a, <3>1, <3>3, <4>5
    <3> QED BY <3>1, <3>4, <3>5
  <2>8. ASSUME NEW q \in Pages, Load(q) PROVE \A p \in Pages : PointStamped(page'[p])
    <3>1. \A p \in Pages : page'[p] = IF p = q THEN FreshPage ELSE page[p]
      BY <2>0, <2>8 DEF Load
    <3>2. PointStamped(FreshPage)
      BY DEF FreshPage, PointStamped
    <3> QED BY <2>a, <3>1, <3>2
  <2>9. ASSUME NEW q \in Pages, Load(q) PROVE UNCHANGED <<queue, wire>>
    BY <2>9 DEF Load, netVars
  <2>10. CASE Serve \/ End \/ UNCHANGED vars
    <3>1. UNCHANGED <<queue, wire, page>>
      BY <2>10 DEF Serve, End, vars, netVars, pageVars
    <3> QED BY <2>a, <3>1
  <2> HIDE DEF Sent
  <2>11. ASSUME NEW q \in Pages, Connection(q) \/ Disconnect(q)
         PROVE  /\ StampedBatch(queue') /\ \A p \in Pages : Sent(wire'[p])
                /\ \A p \in Pages : PointStamped(page'[p])
    BY <2>a, <2>4, <2>5, <2>6, <2>11 DEF pageVars
  <2>12. ASSUME NEW q \in Pages, Load(q)
         PROVE  /\ StampedBatch(queue') /\ \A p \in Pages : Sent(wire'[p])
                /\ \A p \in Pages : PointStamped(page'[p])
    BY <2>a, <2>8, <2>9, <2>12
  <2> QED BY <2>1, <2>2, <2>3, <2>7, <2>10, <2>11, <2>12 DEF Next
<1> QED BY <1>1, <1>2, TypeCorrect, PTL DEF Spec

-----------------------------------------------------------------------------
(* Readings arrive at most once and in order.                              *)

Marked(u) == u.source = "xa0" /\ u.tick # 0

Increasing(d) == \A i, j \in 1..Len(d) : i < j => d[i] < d[j]

\* The marked readings of s are in order; those of r come before those of s;
\* what has been drawn comes before them; none is of a later tick than m.
Rising(s) == \A i, j \in 1..Len(s) :
  i < j /\ Marked(s[i]) /\ Marked(s[j]) => s[i].tick < s[j].tick
Before(r, s) == \A i \in 1..Len(r), j \in 1..Len(s) :
  Marked(r[i]) /\ Marked(s[j]) => r[i].tick < s[j].tick
Past(d, s) == \A i \in 1..Len(d), j \in 1..Len(s) : Marked(s[j]) => d[i] < s[j].tick
UpTo(s, m) == \A i \in 1..Len(s) : Marked(s[i]) => s[i].tick <= m

Updates(w) == {i \in 1..Len(w) : w[i].kind = "update"}

\* From the points a page has drawn, over the batches on their way to it, to
\* the queue of the device and the tick given last.
InOrder(d, w, q, m) ==
  /\ Increasing(d) /\ \A i \in 1..Len(d) : d[i] # 0 /\ d[i] <= m
  /\ Past(d, q) /\ \A i \in Updates(w) : Past(d, w[i].data)
  /\ \A i \in Updates(w) : Rising(w[i].data) /\ Before(w[i].data, q) /\ UpTo(w[i].data, m)
  /\ \A i, j \in Updates(w) : i < j => Before(w[i].data, w[j].data)
  /\ Rising(q) /\ UpTo(q, m)

OrderInv == \A p \in Pages : InOrder(drawn[p], wire[p], queue, mark)

\* The ticks of a batch are numbers.
LEMMA TickIsNat ==
  ASSUME NEW s \in Seq(Device!Update)
  PROVE  Len(s) \in Nat /\ \A i \in 1..Len(s) : s[i].tick \in Nat /\ s[i].tick \in Marks
<1>1. Len(s) \in Nat /\ \A i \in 1..Len(s) : s[i] \in Device!Update
  OBVIOUS
<1> QED BY <1>1, UpdateIs DEF Marks

\* A new tick comes after all others.
LEMMA TickInOrder ==
  ASSUME NEW d \in Seq(Marks), NEW w \in Seq(Message), NEW q \in Seq(Device!Update),
         Len(q) <= Capacity, NEW m \in Marks, InOrder(d, w, q, m),
         NEW n \in {0} \union ({m + 1} \cap Marks)
  PROVE  InOrder(d, w, Filled(q, n), IF n = 0 THEN m ELSE n)
<1> DEFINE f == Filled(q, n)
           top == IF n = 0 THEN m ELSE n
<1>1. n \in Marks /\ m \in Nat /\ n \in Nat /\ (n = 0 \/ n = m + 1)
  BY DEF Marks
<1>2. top \in Nat /\ m <= top /\ (n # 0 => top = m + 1 /\ top = n)
  BY <1>1
<1>3. /\ f \in Seq(Device!Update)
      /\ \A i \in 1..Len(f) : IF i <= Len(q) THEN f[i] = q[i]
                              ELSE i - Len(q) \in 1..3 /\ f[i] = Offered(n)[i - Len(q)]
  BY <1>1, FilledUpdates
<1>4. /\ Len(q) \in Nat /\ \A i \in 1..Len(q) : q[i].tick \in Nat
      /\ Len(f) \in Nat
  BY <1>3, TickIsNat
<1> HIDE DEF f
<1>5. ASSUME NEW i \in 1..Len(f), Marked(f[i])
      PROVE  \/ i \in 1..Len(q) /\ f[i] = q[i]
             \/ /\ ~(i <= Len(q)) /\ i = Len(q) + 3
                /\ f[i].tick = m + 1 /\ n # 0 /\ top = m + 1
  <2>1. CASE i <= Len(q)
    BY <1>3, <1>4, <2>1
  <2>2. CASE ~(i <= Len(q))
    <3>1. i - Len(q) \in 1..3 /\ f[i] = Offered(n)[i - Len(q)]
      BY <1>3, <2>2
    <3>2. /\ Offered(n)[1] = [source |-> "sec", tick |-> n]
          /\ Offered(n)[2] = [source |-> "usec", tick |-> n]
          /\ Offered(n)[3] = [source |-> "xa0", tick |-> n]
      BY <1>1, OfferedUpdates
    <3>3. i - Len(q) = 3
      BY <1>5, <3>1, <3>2 DEF Marked
    <3>4. f[i].tick = n /\ n # 0
      BY <1>5, <3>1, <3>2, <3>3 DEF Marked
    <3>5. i = Len(q) + 3
      BY <1>4, <3>3
    <3> QED BY <1>1, <1>2, <2>2, <3>4, <3>5
  <2> QED BY <2>1, <2>2
<1>6. /\ Increasing(d) /\ \A i \in 1..Len(d) : d[i] # 0 /\ d[i] <= m
      /\ Past(d, q) /\ \A i \in Updates(w) : Past(d, w[i].data)
      /\ \A i \in Updates(w) : Rising(w[i].data) /\ Before(w[i].data, q) /\ UpTo(w[i].data, m)
      /\ \A i, j \in Updates(w) : i < j => Before(w[i].data, w[j].data)
      /\ Rising(q) /\ UpTo(q, m)
  BY DEF InOrder
<1>7. \A i \in 1..Len(d) : d[i] \in Nat
  BY DEF Marks
<1>8. \A i \in Updates(w) : w[i].data \in Seq(Device!Update)
  <2>1. \A i \in Updates(w) : w[i] \in Message /\ w[i].kind = "update"
    BY DEF Updates
  <2> QED BY <2>1 DEF Message
<1> HIDE DEF top
<1>9. \A i \in 1..Len(d) : d[i] # 0 /\ d[i] <= top
  BY <1>1, <1>2, <1>6, <1>7
<1>10. Past(d, f)
  <2> SUFFICES ASSUME NEW i \in 1..Len(d), NEW j \in 1..Len(f), Marked(f[j])
               PROVE  d[i] < f[j].tick
    BY DEF Past
  <2>1. CASE j \in 1..Len(q) /\ f[j] = q[j]
    BY <1>6, <2>1 DEF Past
  <2>2. CASE f[j].tick = m + 1
    BY <1>1, <1>6, <1>7, <2>2
  <2> QED BY <1>5, <2>1, <2>2
<1>11. ASSUME NEW i \in Updates(w) PROVE Before(w[i].data, f) /\ UpTo(w[i].data, top)
  <2> DEFINE s == w[i].data
  <2>1. Len(s) \in Nat /\ \A k \in 1..Len(s) : s[k].tick \in Nat
    BY <1>8, TickIsNat
  <2>2. Before(s, q) /\ UpTo(s, m)
    BY <1>6
  <2> HIDE DEF s
  <2>3. UpTo(s, top)
    BY <1>1, <1>2, <2>1, <2>2 DEF UpTo
  <2>4. ASSUME NEW k \in 1..Len(s), NEW j \in 1..Len(f), Marked(s[k]), Marked(f[j])
        PROVE  s[k].tick < f[j].tick
    <3>1. CASE j \in 1..Len(q) /\ f[j] = q[j]
      BY <2>2, <2>4, <3>1 DEF Before
    <3>2. CASE f[j].tick = m + 1
      <4>1. s[k].tick <= m
        BY <2>2, <2>4 DEF UpTo
      <4> QED BY <1>1, <2>1, <3>2, <4>1
    <3> QED BY <1>5, <2>4, <3>1, <3>2
  <2>5. Before(s, f)
    BY <2>4 DEF Before
  <2> QED BY <2>3, <2>5 DEF s
<1>12. Rising(f)
  <2> SUFFICES ASSUME NEW i \in 1..Len(f), NEW j \in 1..Len(f), i < j,
                      Marked(f[i]), Marked(f[j])
               PROVE  f[i].tick < f[j].tick
    BY DEF Rising
  <2>1. CASE j \in 1..Len(q) /\ f[j] = q[j]
    <3>1. i \in 1..Len(q)
      BY <1>4, <2>1
    <3>2. f[i] = q[i]
      BY <1>3, <3>1
    <3> QED BY <1>6, <2>1, <3>1, <3>2 DEF Rising
  <2>2. CASE ~(j <= Len(q)) /\ j = Len(q) + 3 /\ f[j].tick = m + 1
    <3>1. i # Len(q) + 3
      BY <1>4, <2>2
    <3>2. i \in 1..Len(q) /\ f[i] = q[i]
      BY <1>5, <3>1
    <3>3. f[i].tick <= m /\ f[i].tick \in Nat
      BY <1>4, <1>6, <3>2 DEF UpTo
    <3> QED BY <1>1, <2>2, <3>3
  <2> QED BY <1>5, <2>1, <2>2
<1>13. UpTo(f, top)
  <2> SUFFICES ASSUME NEW i \in 1..Len(f), Marked(f[i]) PROVE f[i].tick <= top
    BY DEF UpTo
  <2>1. CASE i \in 1..Len(q) /\ f[i] = q[i]
    <3>1. f[i].tick <= m /\ f[i].tick \in Nat
      BY <1>4, <1>6, <2>1 DEF UpTo
    <3> QED BY <1>1, <1>2, <3>1
  <2>2. CASE f[i].tick = m + 1 /\ top = m + 1
    BY <1>1, <2>2
  <2> QED BY <1>5, <2>1, <2>2
<1>14. InOrder(d, w, f, top)
  BY <1>6, <1>9, <1>10, <1>11, <1>12, <1>13 DEF InOrder
<1> QED BY <1>14 DEF f, top

\* A page without messages on the way, or with the configuration alone.
LEMMA NoneInOrder ==
  ASSUME NEW d, NEW w, NEW q, NEW m, InOrder(d, w, q, m),
         NEW u, \A i \in 1..Len(u) : u[i].kind # "update"
  PROVE  InOrder(d, u, q, m)
<1>1. Updates(u) = {}
  BY DEF Updates
<1> QED BY <1>1 DEF InOrder

\* The whole queue is taken and sent, or taken and not sent.
LEMMA TakeInOrder ==
  ASSUME NEW d, NEW w \in Seq(Message), NEW q, NEW m, InOrder(d, w, q, m)
  PROVE  /\ InOrder(d, w, <<>>, m)
         /\ InOrder(d, Append(w, [kind |-> "update", data |-> q]), <<>>, m)
<1> DEFINE msg == [kind |-> "update", data |-> q]
           n == Len(w)
           v == Append(w, msg)
<1>1. /\ Increasing(d) /\ \A i \in 1..Len(d) : d[i] # 0 /\ d[i] <= m
      /\ Past(d, q) /\ \A i \in Updates(w) : Past(d, w[i].data)
      /\ \A i \in Updates(w) : Rising(w[i].data) /\ Before(w[i].data, q) /\ UpTo(w[i].data, m)
      /\ \A i, j \in Updates(w) : i < j => Before(w[i].data, w[j].data)
      /\ Rising(q) /\ UpTo(q, m)
  BY DEF InOrder
<1>2. /\ Past(d, <<>>) /\ Rising(<<>>) /\ UpTo(<<>>, m) /\ \A s : Before(s, <<>>)
  BY DEF Past, Rising, UpTo, Before
<1>3. InOrder(d, w, <<>>, m)
  BY <1>1, <1>2 DEF InOrder
<1>4. msg.data = q
  OBVIOUS
<1>5. n \in Nat
  OBVIOUS
<1> HIDE DEF msg
<1>6. Len(v) = n + 1 /\ v[n + 1] = msg /\ \A i \in 1..n : v[i] = w[i]
  BY <1>5
<1> HIDE DEF n, v
<1>7. ASSUME NEW i \in Updates(v)
      PROVE  \/ i \in Updates(w) /\ v[i] = w[i] /\ i <= n
             \/ i = n + 1 /\ v[i].data = q
  <2>1. i \in 1..n \/ i = n + 1
    BY <1>5, <1>6 DEF Updates
  <2>2. CASE i \in 1..n
    BY <1>5, <1>6, <2>2 DEF Updates, n
  <2> QED BY <1>4, <1>6, <2>1, <2>2
<1>8. \A i \in Updates(v) : /\ Past(d, v[i].data)
                            /\ Rising(v[i].data) /\ UpTo(v[i].data, m)
  BY <1>1, <1>7
<1>9. ASSUME NEW i \in Updates(v), NEW j \in Updates(v), i < j
      PROVE  Before(v[i].data, v[j].data)
  <2>1. i \in Int /\ j \in Int
    BY DEF Updates
  <2>2. i \in Updates(w) /\ v[i] = w[i]
    <3>1. i # n + 1
      BY <1>5, <1>6, <1>9, <2>1 DEF Updates
    <3> QED BY <1>7, <3>1
  <2> QED BY <1>1, <1>7, <1>9, <2>2
<1>10. InOrder(d, v, <<>>, m)
  BY <1>1, <1>2, <1>8, <1>9 DEF InOrder
<1> QED BY <1>3, <1>10 DEF v, msg

\* What a batch adds to the points drawn are its marked readings.
LEMMA ForEachOrder ==
  ASSUME NEW v \in PageState, NEW d \in Seq(Marks), NEW data \in Seq(Device!Update),
         Increasing(d), Rising(data), Past(d, data)
  PROVE  LET done == forEach([page |-> v, drawn |-> d], data)
         IN  /\ Increasing(done.drawn)
             /\ \A i \in 1..Len(done.drawn) :
                  \/ \E j \in 1..Len(d) : done.drawn[i] = d[j]
                  \/ \E j \in 1..Len(data) : Marked(data[j]) /\ done.drawn[i] = data[j].tick
<1> DEFINE N == Len(data)
           Known(e, n) == \A i \in 1..Len(e) :
             \/ \E j \in 1..Len(d) : e[i] = d[j]
             \/ \E j \in 1..n : Marked(data[j]) /\ e[i] = data[j].tick
<1>1. PICK after :
        /\ after[0].page = v /\ after[0].drawn = d
        /\ \A n \in 1..Len(data) : after[n] = Handle(after[n - 1], data[n])
        /\ \A n \in 0..Len(data) : after[n].page \in PageState /\ after[n].drawn \in Seq(Marks)
        /\ forEach([page |-> v, drawn |-> d], data) = after[Len(data)]
  BY ForEachTypes
<1>2. N \in Nat /\ \A n \in 1..N : data[n].tick \in Marks
  BY TickIsNat
<1> DEFINE T == {n \in 0..N : Increasing(after[n].drawn) /\ Known(after[n].drawn, n)}
<1>3. 0 \in T
  <2>1. Known(d, 0)
    OBVIOUS
  <2> HIDE DEF Known
  <2> QED BY <1>1, <1>2, <2>1
<1>4. ASSUME NEW n \in 0..N, n \in T, n < N PROVE n + 1 \in T
  <2> DEFINE k == n + 1
             e == after[n].drawn
             f == after[k].drawn
             L == Len(e)
  <2>1. k \in 1..N /\ k \in 0..N /\ k - 1 = n
    BY <1>2, <1>4
  <2>2. f = IF Marked(data[k]) THEN Append(e, data[k].tick) ELSE e
    <3>1. after[k] = Handle(after[n], data[k])
      BY <1>1, <2>1
    <3>2. \A x, u : Handle(x, u).drawn = IF Marked(u) THEN Append(x.drawn, u.tick) ELSE x.drawn
      BY DEF Handle, Marked
    <3> QED BY <3>1, <3>2
  <2>3. e \in Seq(Marks) /\ Increasing(e) /\ Known(e, n)
    <3> HIDE DEF Known
    <3> QED BY <1>1, <1>4
  <2>4. Known(e, k)
    <3>1. \A j \in 1..n : j \in 1..k
      BY <2>1
    <3> HIDE DEF e, k
    <3> QED BY <2>3, <3>1
  <2>5. CASE ~Marked(data[k])
    <3> HIDE DEF Known
    <3>1. f = e
      BY <2>2, <2>5
    <3>2. Increasing(f) /\ Known(f, k)
      BY <2>3, <2>4, <3>1
    <3> QED BY <2>1, <3>2
  <2>6. CASE Marked(data[k])
    <3>1. L \in Nat /\ Len(f) = L + 1 /\ f[L + 1] = data[k].tick /\ \A i \in 1..L : f[i] = e[i]
      <4>1. f = Append(e, data[k].tick)
        BY <2>2, <2>6
      <4> HIDE DEF e, f
      <4> QED BY <2>3, <4>1
    <3>2. ASSUME NEW i \in 1..L PROVE e[i] < data[k].tick
      <4>1. CASE \E j \in 1..Len(d) : e[i] = d[j]
        <5>1. PICK j \in 1..Len(d) : e[i] = d[j]
          BY <4>1
        <5>2. d[j] < data[k].tick
          BY <2>1, <2>6 DEF Past
        <5> QED BY <5>1, <5>2
      <4>2. CASE \E j \in 1..n : Marked(data[j]) /\ e[i] = data[j].tick
        <5>1. PICK j \in 1..n : Marked(data[j]) /\ e[i] = data[j].tick
          BY <4>2
        <5>2. j \in 1..N /\ j < k
          BY <1>2, <2>1
        <5>3. data[j].tick < data[k].tick
          BY <2>1, <2>6, <5>1, <5>2 DEF Rising
        <5> QED BY <5>1, <5>3
      <4> QED BY <2>3, <4>1, <4>2
    <3> HIDE DEF e, f, k, L
    <3>3. \A i \in 1..(L + 1) : i \in 1..L \/ i = L + 1
      BY <3>1
    <3>4. Increasing(f)
      <4> SUFFICES ASSUME NEW i \in 1..(L + 1), NEW j \in 1..(L + 1), i < j PROVE f[i] < f[j]
        BY <3>1 DEF Increasing
      <4>1. i \in 1..L
        BY <3>1
      <4>2. CASE j \in 1..L
        <5>1. e[i] < e[j]
          BY <2>3, <4>1, <4>2 DEF Increasing, L
        <5> QED BY <3>1, <4>1, <4>2, <5>1
      <4>3. CASE j = L + 1
        BY <3>1, <3>2, <4>1, <4>3
      <4> QED BY <3>3, <4>2, <4>3
    <3>5. Known(f, k)
      <4> SUFFICES ASSUME NEW i \in 1..(L + 1)
                   PROVE  \/ \E j \in 1..Len(d) : f[i] = d[j]
                          \/ \E j \in 1..k : Marked(data[j]) /\ f[i] = data[j].tick
        BY <3>1
      <4>1. CASE i \in 1..L
        <5>1. f[i] = e[i]
          BY <3>1, <4>1
        <5> QED BY <2>4, <4>1, <5>1 DEF L
      <4>2. CASE i = L + 1
        <5>1. k \in 1..k
          BY <2>1
        <5>2. Marked(data[k]) /\ f[i] = data[k].tick
          BY <2>6, <3>1, <4>2
        <5> QED BY <5>1, <5>2
      <4> QED BY <3>3, <4>1, <4>2
    <3> HIDE DEF Known
    <3>6. k \in T
      BY <2>1, <3>4, <3>5 DEF f
    <3> QED BY <3>6 DEF k
  <2> QED BY <2>5, <2>6
<1> HIDE DEF T
<1>5. \A n \in 0..N : n \in T
  BY <1>2, <1>3, <1>4, Reach
<1>6. N \in T
  BY <1>2, <1>5
<1>7. Increasing(after[N].drawn) /\ Known(after[N].drawn, N)
  <2> HIDE DEF Known
  <2> QED BY <1>6 DEF T
<1> QED BY <1>1, <1>7

\* A message is taken off; what a batch draws comes before all that is left.
LEMMA TailInOrder ==
  ASSUME NEW d, NEW w \in Seq(Message), w # <<>>, NEW q, NEW m, InOrder(d, w, q, m)
  PROVE  /\ InOrder(d, Tail(w), q, m)
         /\ \A i \in Updates(Tail(w)) : i + 1 \in Updates(w) /\ Tail(w)[i] = w[i + 1]
<1> DEFINE t == Tail(w)
<1>1. /\ Len(w) \in Nat /\ Len(t) = Len(w) - 1
      /\ \A i \in 1..Len(t) : t[i] = w[i + 1]
  BY HeadTailProperties
<1> HIDE DEF t
<1>2. ASSUME NEW i \in Updates(t) PROVE i + 1 \in Updates(w) /\ t[i] = w[i + 1]
  <2>1. i \in 1..Len(t) /\ t[i].kind = "update"
    BY DEF Updates
  <2>2. i + 1 \in 1..Len(w) /\ t[i] = w[i + 1]
    BY <1>1, <2>1
  <2> QED BY <2>1, <2>2 DEF Updates
<1>3. \A i, j \in Updates(t) : i < j => i + 1 < j + 1
  BY DEF Updates
<1>4. InOrder(d, t, q, m)
  BY <1>2, <1>3 DEF InOrder
<1> QED BY <1>2, <1>4 DEF t

\* The readings of the batch taken off are drawn, in order with all the others.
LEMMA DrawInOrder ==
  ASSUME NEW d \in Seq(Marks), NEW w \in Seq(Message), w # <<>>,
         NEW q \in Seq(Device!Update), NEW m \in Marks, InOrder(d, w, q, m),
         Head(w).kind = "update", NEW v \in PageState
  PROVE  InOrder(forEach([page |-> v, drawn |-> d], Head(w).data).drawn, Tail(w), q, m)
<1> DEFINE data == Head(w).data
           t == Tail(w)
           e == forEach([page |-> v, drawn |-> d], data).drawn
<1>1. Head(w) = w[1] /\ 1 \in Updates(w) /\ w[1] \in Message
  BY DEF Updates
<1>2. data \in Seq(Device!Update)
  BY <1>1 DEF Message
<1>3. data = w[1].data
  BY <1>1
<1> HIDE DEF data
<1>4. /\ Increasing(d) /\ \A i \in 1..Len(d) : d[i] # 0 /\ d[i] <= m
      /\ Past(d, q) /\ Past(d, data)
      /\ Rising(data) /\ Before(data, q) /\ UpTo(data, m)
  BY <1>1, <1>3 DEF InOrder
<1>5. /\ InOrder(d, t, q, m)
      /\ \A i \in Updates(t) : i + 1 \in Updates(w) /\ t[i] = w[i + 1]
  BY TailInOrder
<1> HIDE DEF t
<1>6. ASSUME NEW i \in Updates(t) PROVE Past(d, t[i].data) /\ Before(data, t[i].data)
  <2>1. i + 1 \in Updates(w) /\ t[i] = w[i + 1] /\ 1 < i + 1
    BY <1>5 DEF Updates
  <2>2. Before(w[1].data, w[i + 1].data)
    BY <1>1, <2>1 DEF InOrder
  <2>3. Past(d, t[i].data)
    BY <1>5 DEF InOrder
  <2> QED BY <1>3, <2>1, <2>2, <2>3
<1>7. /\ Increasing(e)
      /\ \A i \in 1..Len(e) :
           \/ \E j \in 1..Len(d) : e[i] = d[j]
           \/ \E j \in 1..Len(data) : Marked(data[j]) /\ e[i] = data[j].tick
  BY <1>2, <1>4, ForEachOrder
<1> HIDE DEF e
<1>8. \A i \in 1..Len(e) : e[i] # 0 /\ e[i] <= m
  BY <1>4, <1>7 DEF UpTo, Marked
<1>9. ASSUME NEW s, Past(d, s), Before(data, s) PROVE Past(e, s)
  <2> SUFFICES ASSUME NEW i \in 1..Len(e), NEW j \in 1..Len(s), Marked(s[j])
               PROVE  e[i] < s[j].tick
    BY DEF Past
  <2>1. CASE \E k \in 1..Len(d) : e[i] = d[k]
    BY <1>9, <2>1 DEF Past
  <2>2. CASE \E k \in 1..Len(data) : Marked(data[k]) /\ e[i] = data[k].tick
    BY <1>9, <2>2 DEF Before
  <2> QED BY <1>7, <2>1, <2>2
<1>10. Past(e, q) /\ \A i \in Updates(t) : Past(e, t[i].data)
  BY <1>4, <1>6, <1>9
<1>11. InOrder(e, t, q, m)
  BY <1>5, <1>7, <1>8, <1>10 DEF InOrder
<1> QED BY <1>11 DEF e, t, data

\* Of two marked ticks, a page that draws in order draws none, one, or both.
LEMMA IncreasingMarks ==
  ASSUME NEW d \in Seq(Marks), Increasing(d), \A i \in 1..Len(d) : d[i] # 0
  PROVE  d \in {<<>>, <<1>>, <<2>>, <<1, 2>>}
<1>1. Len(d) \in Nat /\ \A i \in 1..Len(d) : d[i] = 1 \/ d[i] = 2
  BY DEF Marks
<1>2. CASE Len(d) = 0
  <2>1. d = <<>>
    BY <1>2
  <2> QED BY <2>1, Zenon
<1>3. CASE Len(d) = 1
  <2>1. d = <<d[1]>>
    BY <1>3
  <2>2. d[1] = 1 \/ d[1] = 2
    BY <1>1, <1>3
  <2>3. d = <<1>> \/ d = <<2>>
    BY <2>1, <2>2
  <2> QED BY <2>3, Zenon
<1>4. CASE Len(d) = 2
  <2>1. d = <<d[1], d[2]>>
    BY <1>4
  <2>2. d[1] < d[2] /\ (d[1] = 1 \/ d[1] = 2) /\ (d[2] = 1 \/ d[2] = 2)
    <3>1. 1 \in 1..Len(d) /\ 2 \in 1..Len(d)
      BY <1>4
    <3> QED BY <1>1, <3>1 DEF Increasing
  <2>3. d[1] = 1 /\ d[2] = 2
    BY <2>2
  <2>4. d = <<1, 2>>
    BY <2>1, <2>3
  <2> QED BY <2>4, Zenon
<1>5. CASE Len(d) > 2
  <2>1. 1 \in 1..Len(d) /\ 2 \in 1..Len(d) /\ 3 \in 1..Len(d)
    BY <1>1, <1>5
  <2>2. d[1] < d[2] /\ d[2] < d[3]
    BY <2>1 DEF Increasing
  <2>3. (d[1] = 1 \/ d[1] = 2) /\ (d[2] = 1 \/ d[2] = 2) /\ (d[3] = 1 \/ d[3] = 2)
    BY <1>1, <2>1
  <2> QED BY <2>2, <2>3
<1>6. Len(d) = 0 \/ Len(d) = 1 \/ Len(d) = 2 \/ Len(d) > 2
  <2>1. \A n \in Nat : n = 0 \/ n = 1 \/ n = 2 \/ n > 2
    OBVIOUS
  <2> QED BY <1>1, <2>1, Zenon
<1> QED BY <1>2, <1>3, <1>4, <1>5, <1>6, Zenon

\* A reading is appended to a page's series at most once, and readings are in
\* the order of their ticks, across lost connections, loads of the page and
\* restarts of the server (what smoothie.js:214 takes for granted).
THEOREM OrderCorrect == Spec => []OnceInOrder
<1>1. Init => OrderInv
  BY DEF Init, OrderInv, InOrder, Increasing, Past, Rising, UpTo, Updates
<1>2. TypeOK /\ OrderInv /\ [Next]_vars => OrderInv'
  <2> SUFFICES ASSUME TypeOK, OrderInv, [Next]_vars, NEW p \in Pages
               PROVE  InOrder(drawn'[p], wire'[p], queue', mark')
    BY DEF OrderInv, InOrder, Increasing, Past, Rising, Before, UpTo, Updates
  <2>0. /\ queue \in Seq(Device!Update) /\ Len(queue) <= Capacity /\ mark \in Marks
        /\ wire \in [Pages -> Seq(Message)] /\ wire[p] \in Seq(Message)
        /\ page \in [Pages -> PageState] /\ page[p] \in PageState
        /\ drawn \in [Pages -> Seq(Marks)] /\ drawn[p] \in Seq(Marks)
        /\ InOrder(drawn[p], wire[p], queue, mark)
    BY DEF TypeOK, PageState, OrderInv
  <2>1. CASE Tick
    <3>1. PICK m \in {0} \union ({mark + 1} \cap Marks) :
            /\ queue' = Filled(queue, m) /\ mark' = IF m = 0 THEN mark ELSE m
            /\ UNCHANGED <<netVars, pageVars>>
      BY <2>1 DEF Tick, Filled, Offered
    <3>2. InOrder(drawn[p], wire[p], Filled(queue, m), IF m = 0 THEN mark ELSE m)
      BY <2>0, TickInOrder
    <3> QED BY <3>1, <3>2 DEF netVars, pageVars
  <2>2. CASE Die
    <3>1. wire'[p] = <<>> /\ UNCHANGED <<queue, mark, pageVars>>
      BY <2>2 DEF Die
    <3>2. InOrder(drawn[p], <<>>, queue, mark)
      BY <2>0, NoneInOrder
    <3> QED BY <3>1, <3>2 DEF pageVars
  <2>3. CASE Data
    <3>1. /\ queue' = <<>> /\ UNCHANGED <<mark, pageVars>>
          /\ \/ wire'[p] = wire[p]
             \/ wire'[p] = Append(wire[p], [kind |-> "update", data |-> queue])
      BY <2>3, DataSends
    <3>2. /\ InOrder(drawn[p], wire[p], <<>>, mark)
          /\ InOrder(drawn[p], Append(wire[p], [kind |-> "update", data |-> queue]), <<>>, mark)
      BY <2>0, TakeInOrder
    <3> QED BY <3>1, <3>2 DEF pageVars
  <2>4. ASSUME NEW r \in Pages, Connection(r)
        PROVE  InOrder(drawn'[p], wire'[p], queue', mark')
    <3>1. /\ wire'[p] = IF p = r THEN <<[kind |-> "configuration"]>> ELSE wire[p]
          /\ UNCHANGED <<queue, mark, drawn>>
      BY <2>0, <2>4 DEF Connection, pageVars
    <3> DEFINE u == <<[kind |-> "configuration"]>>
    <3>2. \A i \in 1..Len(u) : u[i].kind # "update"
      OBVIOUS
    <3> HIDE DEF u
    <3>3. InOrder(drawn[p], u, queue, mark)
      BY <2>0, <3>2, NoneInOrder
    <3> QED BY <2>0, <3>1, <3>3 DEF u
  <2>5. ASSUME NEW r \in Pages, Disconnect(r)
        PROVE  InOrder(drawn'[p], wire'[p], queue', mark')
    <3>1. /\ wire'[p] = IF p = r THEN <<>> ELSE wire[p]
          /\ UNCHANGED <<queue, mark, drawn>>
      BY <2>0, <2>5 DEF Disconnect, pageVars
    <3>2. InOrder(drawn[p], <<>>, queue, mark)
      BY <2>0, NoneInOrder
    <3> QED BY <2>0, <3>1, <3>2
  <2>6. ASSUME NEW r \in Pages, Receive(r)
        PROVE  InOrder(drawn'[p], wire'[p], queue', mark')
    <3> DEFINE message == Head(wire[r])
               done == forEach([page |-> page[r], drawn |-> drawn[r]], message.data)
    <3>1. /\ wire[r] # <<>> /\ wire' = [wire EXCEPT ![r] = Tail(wire[r])]
          /\ UNCHANGED <<queue, mark, serverVars, connected>>
          /\ \/ UNCHANGED drawn
             \/ message.kind = "update" /\ drawn' = [drawn EXCEPT ![r] = done.drawn]
      BY <2>6, ReceiveHandles
    <3>2. CASE p # r
      <4>1. wire'[p] = wire[p] /\ drawn'[p] = drawn[p]
        BY <2>0, <3>1, <3>2
      <4> QED BY <2>0, <3>1, <4>1
    <3>3. CASE p = r
      <4>1. wire'[p] = Tail(wire[p]) /\ UNCHANGED <<queue, mark>>
        BY <2>0, <3>1, <3>3
      <4>2. InOrder(drawn[p], Tail(wire[p]), queue, mark)
        BY <2>0, <3>1, <3>3, TailInOrder
      <4>3. CASE UNCHANGED drawn
        BY <4>1, <4>2, <4>3
      <4>4. CASE message.kind = "update" /\ drawn' = [drawn EXCEPT ![r] = done.drawn]
        <5>1. InOrder(done.drawn, Tail(wire[p]), queue, mark)
          BY <2>0, <3>1, <3>3, <4>4, DrawInOrder
        <5>2. drawn'[p] = done.drawn
          BY <2>0, <3>3, <4>4
        <5> QED BY <4>1, <5>1, <5>2
      <4> QED BY <3>1, <4>3, <4>4
    <3> QED BY <3>2, <3>3
  <2>7. CASE UNCHANGED <<queue, mark, wire, drawn>>
    BY <2>0, <2>7
  <2>8. Serve \/ End \/ UNCHANGED vars \/ (\E r \in Pages : Load(r))
          => UNCHANGED <<queue, mark, wire, drawn>>
    BY DEF Serve, End, Load, vars, netVars, pageVars
  <2> QED BY <2>1, <2>2, <2>3, <2>4, <2>5, <2>6, <2>7, <2>8 DEF Next
<1>3. TypeOK /\ OrderInv => OnceInOrder
  <2> SUFFICES ASSUME TypeOK, OrderInv, NEW p \in Pages
               PROVE  drawn[p] \in {<<>>, <<1>>, <<2>>, <<1, 2>>}
    BY DEF OnceInOrder
  <2>1. /\ drawn[p] \in Seq(Marks) /\ Increasing(drawn[p])
        /\ \A i \in 1..Len(drawn[p]) : drawn[p][i] # 0
    BY DEF TypeOK, OrderInv, InOrder
  <2> QED BY <2>1, IncreasingMarks
<1> QED BY <1>1, <1>2, <1>3, TypeCorrect, PTL DEF Spec
===========================================================================
