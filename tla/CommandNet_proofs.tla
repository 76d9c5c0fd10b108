--------------------------- MODULE CommandNet_proofs --------------------------
(***************************************************************************)
(* Proofs about CommandNet, for every network and any number of commands,    *)
(* which the sink sends at any time.                                         *)
(*                                                                         *)
(* Of every run of the network is proved that numbers run ahead of nothing   *)
(* (BehindSink).  With it a command that the sink sends into a quiet network *)
(* is new to every node, and the flood of it, as long as it is alone, keeps   *)
(* FloodInv, whatever numbers and paths floods that met have left behind.    *)
(***************************************************************************)
EXTENDS CommandNet, TLAPS

\* At all times: no number is above that of the last command, and the sink takes no path.
NoneAhead == \A n \in Nodes : lastCommandId[n] <= sent
BehindSink ==
  /\ \A p \in air : p.id <= sent
  /\ \A n \in Nodes : packetbuf[n].id <= sent /\ data[n] <= sent
  /\ NoneAhead
SinkHasNoPath == bestPath[Sink] = NoNode

\* In a flood that is alone: what is on its way is the command sent last, from a node that
\* has it: in the air, in the buffer of a dispatcher that is to read it, and in one that has
\* read it.
InFlight ==
  /\ \A p \in air : p.id = sent /\ p.to \in Neighbours[p.from] /\ Has(p.from)
  /\ \A n \in Nodes : dispatcher[n] \in {"read", "sender"} =>
       /\ packetbuf[n].id = sent
       /\ packetbuf[n].sender \in Nodes \ {n} /\ Has(packetbuf[n].sender)
  /\ \A n \in Nodes : dispatcher[n] \in {"sender", "sleep", "send"} => data[n] = sent

\* A dispatcher that sleeps, or is to forward, has the command.
ForwardersHave == \A n \in Nodes : dispatcher[n] \in {"sleep", "send"} => Has(n)

\* A node with the command heard it from a node with it.
HaveFromHavers ==
  \A n \in Nodes \ {Sink} :
    sent > 0 /\ lastCommandId[n] = sent => bestPath[n] \in Nodes /\ Has(bestPath[n])

FloodInv == InFlight /\ ForwardersHave /\ HaveFromHavers /\ NoneAhead /\ SinkHasNoPath

NetInv == BehindSink /\ SinkHasNoPath /\ (alone => FloodInv)

-----------------------------------------------------------------------------
\* Type correctness.

LEMMA BroadcastType ==
  ASSUME NEW n \in Nodes, NEW i \in Ids
  PROVE  Broadcast(n, i) \subseteq [from : Nodes, to : Nodes, id : Ids]
BY CommandNetAssumption DEF Broadcast

LEMMA MissedType ==
  ASSUME TypeOK, NEW p \in air PROVE MissedOf(p) \in [Nodes -> SUBSET Nodes]
<1>1. p.from \in Nodes /\ p.to \in Nodes
  BY DEF TypeOK
<1>. QED
  BY <1>1 DEF TypeOK, MissedOf

LEMMA TypeInit == Init => TypeOK
BY CommandNetAssumption DEF Init, TypeOK, Ids, Places, Empty

LEMMA TypeRun == ASSUME TypeOK, NEW n \in Nodes, Run(n) PROVE TypeOK'
<1>1. CASE WaitForMessage(n)
  BY <1>1 DEF TypeOK, WaitForMessage, At, Goes, Places
<1>2. CASE ReadBytes(n)
  BY <1>2 DEF TypeOK, ReadBytes, At, Goes, Places
<1>3. CASE PacketHandler(n)
  <2>1. PathAfter(n) \in Nodes \cup {NoNode}
    BY DEF TypeOK, PathAfter
  <2>2. Empty \in [id : Ids, sender : Nodes \cup {NoNode}] /\ 0 \in Ids
    BY CommandNetAssumption DEF Empty, Ids
  <2>3. CASE Fresh(n)
    <3>1. n # Sink /\ data[n] \in Ids
      BY <2>3 DEF Fresh, IamSink, TypeOK
    <3>2. dispatcher' \in [Nodes -> Places] /\ packetbuf' \in [Nodes -> [id : Ids, sender : Nodes \cup {NoNode}]]
      BY <1>3, <2>2, <2>3 DEF TypeOK, PacketHandler, Goes, Places
    <3>3. lastCommandId' \in [Nodes -> Ids] /\ lastCommandId'[Sink] = 0
      BY <1>3, <2>3, <3>1, CommandNetAssumption DEF TypeOK, PacketHandler
    <3>4. bestPath' \in [Nodes -> Nodes \cup {NoNode}] /\ missed' \in [Nodes -> SUBSET Nodes]
      BY <1>3, <2>1, <2>3 DEF TypeOK, PacketHandler
    <3>. QED
      BY <1>3, <2>3, <3>2, <3>3, <3>4 DEF TypeOK, PacketHandler
  <2>4. CASE ~Fresh(n)
    BY <1>3, <2>1, <2>2, <2>4 DEF TypeOK, PacketHandler, At, Goes, Places
  <2>. QED
    BY <2>3, <2>4
<1>4. CASE SleepOver(n)
  BY <1>4 DEF TypeOK, SleepOver, At, Goes, Places
<1>5. CASE Forward(n)
  <2>1. data[n] \in Ids /\ 0 \in Ids
    BY CommandNetAssumption DEF TypeOK, Ids
  <2>. QED
    BY <1>5, <2>1, BroadcastType DEF TypeOK, Forward, At, Goes, Places
<1>. QED
  BY <1>1, <1>2, <1>3, <1>4, <1>5 DEF Run

LEMMA TypeRadio ==
  ASSUME TypeOK, NEW p \in air, Deliver(p) \/ Lose(p) PROVE TypeOK'
<1>1. p.from \in Nodes /\ p.to \in Nodes /\ p.id \in Ids
  BY DEF TypeOK
<1>2. missed' \in [Nodes -> SUBSET Nodes]
  BY MissedType DEF Deliver, Lose, TypeOK
<1>3. CASE Deliver(p)
  <2>1. Woken(dispatcher[p.to]) \in Places
    BY <1>1 DEF TypeOK, Woken, Places
  <2>2. [id |-> p.id, sender |-> p.from] \in [id : Ids, sender : Nodes \cup {NoNode}]
    BY <1>1
  <2>. QED
    BY <1>1, <1>2, <1>3, <2>1, <2>2 DEF TypeOK, Deliver
<1>4. CASE Lose(p)
  BY <1>2, <1>4 DEF TypeOK, Lose
<1>. QED
  BY <1>3, <1>4

LEMMA TypeNext == TypeOK /\ [Next]_vars => TypeOK'
<1>. SUFFICES ASSUME TypeOK, [Next]_vars PROVE TypeOK'
  OBVIOUS
<1>1. CASE Command
  <2>1. sent + 1 \in Ids
    BY <1>1, CommandNetAssumption DEF TypeOK, Command, Ids
  <2>2. Broadcast(Sink, sent + 1) \subseteq [from : Nodes, to : Nodes, id : Ids]
    BY <2>1, BroadcastType, CommandNetAssumption
  <2>. QED
    BY <1>1, <2>1, <2>2 DEF TypeOK, Command, Quiet
<1>2. CASE Radio
  BY <1>2, TypeRadio DEF Radio
<1>3. CASE \E n \in Nodes : Run(n)
  BY <1>3, TypeRun
<1>4. CASE UNCHANGED vars
  BY <1>4 DEF TypeOK, vars
<1>. QED
  BY <1>1, <1>2, <1>3, <1>4 DEF Next

\* The state keeps the types of the code.
THEOREM TypeCorrect == Spec => []TypeOK
<1>1. Init => TypeOK
  BY TypeInit
<1>. QED
  BY <1>1, TypeNext, PTL DEF Spec

-----------------------------------------------------------------------------
\* What floods.

LEMMA NetInit == Init => NetInv
BY CommandNetAssumption
   DEF Init, NetInv, BehindSink, FloodInv, InFlight, ForwardersHave, NoneAhead, HaveFromHavers,
       SinkHasNoPath, Empty

\* A command is fresh to a node just when the node does not have it.
LEMMA FreshIs ==
  ASSUME TypeOK, InFlight, NEW n \in Nodes, dispatcher[n] = "sender"
  PROVE  Fresh(n) <=> ~Has(n)
BY DEF Fresh, IamSink, Has, InFlight

\* The handler of a fresh command: its node, which had it not, has it from a node that has.
LEMMA HandlerFresh ==
  ASSUME TypeOK, FloodInv, NEW n \in Nodes, PacketHandler(n), Fresh(n)
  PROVE  /\ n # Sink /\ ~Has(n)
         /\ lastCommandId' = [lastCommandId EXCEPT ![n] = sent]
         /\ bestPath' = [bestPath EXCEPT ![n] = packetbuf[n].sender]
         /\ packetbuf[n].sender \in Nodes \ {n} /\ Has(packetbuf[n].sender)
         /\ dispatcher' = [dispatcher EXCEPT ![n] = "sleep"]
         /\ data[n] = sent
         /\ packetbuf' = [packetbuf EXCEPT ![n] = Empty]
         /\ missed' = [missed EXCEPT ![n] = {}]
         /\ UNCHANGED <<data, air, sent>>
<1>1. dispatcher[n] = "sender"
  BY DEF PacketHandler, At
<1>2. n # Sink /\ ~Has(n)
  BY <1>1, FreshIs DEF FloodInv, Has
<1>3. data[n] = sent /\ packetbuf[n].sender \in Nodes \ {n} /\ Has(packetbuf[n].sender)
  BY <1>1 DEF FloodInv, InFlight
<1>. QED
  BY <1>2, <1>3 DEF PacketHandler, PathAfter, Goes

LEMMA HandlerStale ==
  ASSUME TypeOK, FloodInv, NEW n \in Nodes, PacketHandler(n), ~Fresh(n)
  PROVE  /\ Has(n)
         /\ bestPath' = bestPath
         /\ dispatcher' = [dispatcher EXCEPT ![n] = "receive"]
         /\ packetbuf' = [packetbuf EXCEPT ![n] = Empty]
         /\ data' = [data EXCEPT ![n] = 0]
         /\ UNCHANGED <<lastCommandId, air, sent, missed>>
<1>1. dispatcher[n] = "sender"
  BY DEF PacketHandler, At
<1>2. Has(n)
  BY <1>1, FreshIs DEF FloodInv
<1>3. bestPath' = bestPath
  BY DEF PacketHandler, PathAfter, TypeOK
<1>. QED
  BY <1>2, <1>3 DEF PacketHandler, Goes

LEMMA FloodHandler ==
  ASSUME TypeOK, FloodInv, NEW n \in Nodes, PacketHandler(n) PROVE FloodInv'
<1>1. CASE Fresh(n)
  <2>1. \A m \in Nodes : Has(m) => Has(m)'
    BY <1>1, HandlerFresh DEF TypeOK, Has
  <2>2. InFlight'
    <3>1. \A p \in air' : p.id = sent' /\ p.to \in Neighbours[p.from] /\ Has(p.from)'
      BY <1>1, <2>1, HandlerFresh DEF FloodInv, InFlight, TypeOK
    <3>2. \A m \in Nodes : dispatcher'[m] \in {"read", "sender"} =>
            /\ packetbuf'[m].id = sent'
            /\ packetbuf'[m].sender \in Nodes \ {m} /\ Has(packetbuf[m].sender)'
      <4>. SUFFICES ASSUME NEW m \in Nodes, dispatcher'[m] \in {"read", "sender"}
                    PROVE  /\ packetbuf'[m].id = sent'
                           /\ packetbuf'[m].sender \in Nodes \ {m}
                           /\ Has(packetbuf[m].sender)'
        OBVIOUS
      <4>1. m # n /\ dispatcher[m] \in {"read", "sender"} /\ packetbuf'[m] = packetbuf[m]
        BY <1>1, HandlerFresh DEF TypeOK
      <4>2. packetbuf[m].id = sent /\ packetbuf[m].sender \in Nodes \ {m} /\ Has(packetbuf[m].sender)
        BY <4>1 DEF FloodInv, InFlight
      <4>. QED
        BY <1>1, <2>1, <4>1, <4>2, HandlerFresh
    <3>3. \A m \in Nodes : dispatcher'[m] \in {"sender", "sleep", "send"} => data'[m] = sent'
      BY <1>1, HandlerFresh DEF FloodInv, InFlight, TypeOK
    <3>. QED
      BY <3>1, <3>2, <3>3 DEF InFlight
  <2>3. ForwardersHave'
    BY <1>1, HandlerFresh DEF FloodInv, ForwardersHave, TypeOK, Has
  <2>4. NoneAhead'
    BY <1>1, HandlerFresh DEF FloodInv, NoneAhead, TypeOK, Ids
  <2>5. HaveFromHavers'
    <3>. SUFFICES ASSUME NEW m \in Nodes \ {Sink}, sent' > 0, lastCommandId'[m] = sent'
                  PROVE  bestPath'[m] \in Nodes /\ Has(bestPath[m])'
      BY DEF HaveFromHavers
    <3>1. CASE m = n
      BY <1>1, <2>1, <3>1, HandlerFresh DEF TypeOK
    <3>2. CASE m # n
      <4>1. lastCommandId[m] = sent /\ sent > 0 /\ bestPath'[m] = bestPath[m]
        BY <1>1, <3>2, HandlerFresh DEF TypeOK
      <4>2. bestPath[m] \in Nodes /\ Has(bestPath[m])
        BY <4>1 DEF FloodInv, HaveFromHavers
      <4>. QED
        BY <2>1, <4>1, <4>2
    <3>. QED
      BY <3>1, <3>2
  <2>6. SinkHasNoPath'
    BY <1>1, HandlerFresh, CommandNetAssumption DEF FloodInv, SinkHasNoPath, TypeOK
  <2>. QED
    BY <2>2, <2>3, <2>4, <2>5, <2>6 DEF FloodInv
<1>2. CASE ~Fresh(n)
  <2>1. \A m : Has(m)' <=> Has(m)
    BY <1>2, HandlerStale DEF Has
  <2>2. InFlight'
    BY <1>2, <2>1, HandlerStale DEF FloodInv, InFlight, TypeOK
  <2>. QED
    BY <1>2, <2>1, <2>2, HandlerStale
    DEF FloodInv, ForwardersHave, NoneAhead, HaveFromHavers, SinkHasNoPath, TypeOK
<1>. QED
  BY <1>1, <1>2

LEMMA FloodRun ==
  ASSUME TypeOK, FloodInv, NEW n \in Nodes, Run(n) PROVE FloodInv'
<1>1. CASE WaitForMessage(n)
  <2>1. dispatcher' = [dispatcher EXCEPT ![n] = "blocked"]
        /\ UNCHANGED <<lastCommandId, bestPath, packetbuf, data, air, sent>>
    BY <1>1 DEF WaitForMessage, Goes
  <2>. QED
    BY <2>1 DEF FloodInv, InFlight, ForwardersHave, NoneAhead, HaveFromHavers, SinkHasNoPath,
                Has, TypeOK
<1>2. CASE ReadBytes(n)
  <2>1. /\ dispatcher[n] = "read"
        /\ dispatcher' = [dispatcher EXCEPT ![n] = "sender"]
        /\ data' = [data EXCEPT ![n] = packetbuf[n].id]
        /\ UNCHANGED <<lastCommandId, bestPath, packetbuf, air, sent>>
    BY <1>2 DEF ReadBytes, At, Goes
  <2>2. packetbuf[n].id = sent
    BY <2>1 DEF FloodInv, InFlight
  <2>3. InFlight'
    BY <2>1, <2>2 DEF FloodInv, InFlight, Has, TypeOK
  <2>. QED
    BY <2>1, <2>3 DEF FloodInv, ForwardersHave, NoneAhead, HaveFromHavers, SinkHasNoPath,
                      Has, TypeOK
<1>3. CASE PacketHandler(n)
  BY <1>3, FloodHandler
<1>4. CASE SleepOver(n)
  <2>1. /\ dispatcher[n] = "sleep"
        /\ dispatcher' = [dispatcher EXCEPT ![n] = "send"]
        /\ UNCHANGED <<lastCommandId, bestPath, packetbuf, data, air, sent>>
    BY <1>4 DEF SleepOver, At, Goes
  <2>. QED
    BY <2>1 DEF FloodInv, InFlight, ForwardersHave, NoneAhead, HaveFromHavers, SinkHasNoPath,
                Has, TypeOK
<1>5. CASE Forward(n)
  <2>1. /\ dispatcher[n] = "send"
        /\ dispatcher' = [dispatcher EXCEPT ![n] = "receive"]
        /\ air' = air \cup Broadcast(n, data[n])
        /\ data' = [data EXCEPT ![n] = 0]
        /\ UNCHANGED <<lastCommandId, bestPath, packetbuf, sent>>
    BY <1>5 DEF Forward, At, Goes
  <2>2. data[n] = sent /\ Has(n)
    BY <2>1 DEF FloodInv, InFlight, ForwardersHave
  <2>3. \A p \in air' : p.id = sent /\ p.to \in Neighbours[p.from] /\ Has(p.from)
    BY <2>1, <2>2 DEF Broadcast, FloodInv, InFlight
  <2>4. InFlight'
    BY <2>1, <2>3 DEF FloodInv, InFlight, Has, TypeOK
  <2>. QED
    BY <2>1, <2>4 DEF FloodInv, ForwardersHave, NoneAhead, HaveFromHavers, SinkHasNoPath,
                      Has, TypeOK
<1>. QED
  BY <1>1, <1>2, <1>3, <1>4, <1>5 DEF Run

LEMMA FloodRadio ==
  ASSUME TypeOK, FloodInv, NEW p \in air, Deliver(p) \/ Lose(p) PROVE FloodInv'
<1>1. p.from \in Nodes /\ p.to \in Nodes \ {p.from} /\ p.id = sent /\ Has(p.from)
  BY CommandNetAssumption DEF TypeOK, FloodInv, InFlight
<1>2. UNCHANGED <<lastCommandId, bestPath, data, sent>> /\ air' = air \ {p}
  BY DEF Deliver, Lose
<1>3. NoneAhead' /\ HaveFromHavers' /\ SinkHasNoPath'
  BY <1>2 DEF FloodInv, NoneAhead, HaveFromHavers, SinkHasNoPath, Has
<1>4. CASE Deliver(p)
  <2>1. dispatcher' = [dispatcher EXCEPT ![p.to] = Woken(dispatcher[p.to])]
    BY <1>4 DEF Deliver
  <2>2. packetbuf' = [packetbuf EXCEPT ![p.to] =
                       IF ToBeRead(dispatcher'[p.to]) THEN [id |-> p.id, sender |-> p.from]
                       ELSE packetbuf[p.to]]
    BY <1>1, <1>4 DEF Deliver, TypeOK
  <2>3. \A n \in Nodes : /\ dispatcher'[n] \in {"sleep", "send"} => dispatcher[n] \in {"sleep", "send"}
                         /\ dispatcher'[n] = "sender" => dispatcher[n] = "sender"
    BY <1>1, <2>1 DEF TypeOK, Woken, Places
  <2>4. ForwardersHave'
    BY <1>2, <2>3 DEF FloodInv, ForwardersHave, Has
  <2>5. \A n \in Nodes : dispatcher'[n] \in {"sender", "sleep", "send"} => data'[n] = sent'
    BY <1>2, <2>3 DEF FloodInv, InFlight
  <2>6. \A n \in Nodes : dispatcher'[n] \in {"read", "sender"} =>
          /\ packetbuf'[n].id = sent'
          /\ packetbuf'[n].sender \in Nodes \ {n} /\ Has(packetbuf[n].sender)'
    <3>. SUFFICES ASSUME NEW n \in Nodes, dispatcher'[n] \in {"read", "sender"}
                  PROVE  /\ packetbuf'[n].id = sent'
                         /\ packetbuf'[n].sender \in Nodes \ {n} /\ Has(packetbuf[n].sender)'
      OBVIOUS
    <3>1. CASE n = p.to
      <4>1. packetbuf'[n] = [id |-> p.id, sender |-> p.from]
        BY <2>2, <3>1 DEF ToBeRead, TypeOK
      <4>. QED
        BY <1>1, <1>2, <3>1, <4>1 DEF Has
    <3>2. CASE n # p.to
      <4>1. dispatcher'[n] = dispatcher[n] /\ packetbuf'[n] = packetbuf[n]
        BY <2>1, <2>2, <3>2 DEF TypeOK
      <4>2. packetbuf[n].id = sent /\ packetbuf[n].sender \in Nodes \ {n} /\ Has(packetbuf[n].sender)
        BY <4>1 DEF FloodInv, InFlight
      <4>. QED
        BY <1>2, <4>1, <4>2 DEF Has
    <3>. QED
      BY <3>1, <3>2
  <2>7. InFlight'
    BY <1>2, <2>5, <2>6 DEF FloodInv, InFlight, Has
  <2>. QED
    BY <1>3, <2>4, <2>7 DEF FloodInv
<1>5. CASE Lose(p)
  <2>1. UNCHANGED <<dispatcher, packetbuf>>
    BY <1>5 DEF Lose
  <2>. QED
    BY <1>2, <1>3, <2>1 DEF FloodInv, InFlight, ForwardersHave, Has
<1>. QED
  BY <1>4, <1>5

\* A command that the sink sends into a quiet network: nothing else is on its way, and
\* no node has the number.
LEMMA FloodCommand ==
  ASSUME TypeOK, BehindSink, SinkHasNoPath, Command, Quiet PROVE FloodInv'
<1>1. /\ sent' = sent + 1 /\ air' = Broadcast(Sink, sent + 1)
      /\ UNCHANGED <<lastCommandId, bestPath, dispatcher, packetbuf, data>>
      /\ \A n \in Nodes : dispatcher[n] \in {"receive", "blocked"}
  BY DEF Command, Quiet
<1>2. \A n \in Nodes : lastCommandId[n] <= sent /\ lastCommandId[n] \in Nat /\ sent \in Nat
  BY DEF BehindSink, NoneAhead, TypeOK, Ids
<1>3. InFlight'
  BY <1>1 DEF InFlight, Broadcast, Has
<1>4. NoneAhead' /\ HaveFromHavers'
  BY <1>1, <1>2 DEF NoneAhead, HaveFromHavers
<1>5. ForwardersHave' /\ SinkHasNoPath'
  BY <1>1 DEF ForwardersHave, SinkHasNoPath
<1>. QED
  BY <1>3, <1>4, <1>5 DEF FloodInv

\* Numbers come from the sink and are only copied.
LEMMA BehindRun ==
  ASSUME TypeOK, BehindSink, SinkHasNoPath, NEW n \in Nodes, Run(n)
  PROVE  BehindSink' /\ SinkHasNoPath'
<1>1. 0 <= sent
  BY CommandNetAssumption DEF TypeOK, Ids
<1>2. CASE WaitForMessage(n) \/ SleepOver(n)
  BY <1>2 DEF WaitForMessage, SleepOver, BehindSink, NoneAhead, SinkHasNoPath
<1>3. CASE ReadBytes(n)
  <2>1. /\ data' = [data EXCEPT ![n] = packetbuf[n].id]
        /\ UNCHANGED <<lastCommandId, bestPath, packetbuf, air, sent>>
    BY <1>3 DEF ReadBytes
  <2>. QED
    BY <2>1 DEF BehindSink, NoneAhead, SinkHasNoPath, TypeOK
<1>4. CASE PacketHandler(n)
  <2>1. /\ packetbuf' = [packetbuf EXCEPT ![n] = Empty]
        /\ bestPath' = [bestPath EXCEPT ![n] = PathAfter(n)]
        /\ UNCHANGED <<air, sent>>
    BY <1>4 DEF PacketHandler
  <2>2. SinkHasNoPath'
    BY <2>1, CommandNetAssumption DEF SinkHasNoPath, PathAfter, Fresh, IamSink, TypeOK
  <2>3. \A m \in Nodes : packetbuf'[m].id <= sent'
    BY <1>1, <2>1 DEF BehindSink, NoneAhead, TypeOK, Empty
  <2>4. \A m \in Nodes : data'[m] <= sent' /\ lastCommandId'[m] <= sent'
    <3>1. CASE Fresh(n)
      BY <1>4, <2>1, <3>1 DEF PacketHandler, BehindSink, NoneAhead, TypeOK
    <3>2. CASE ~Fresh(n)
      BY <1>1, <1>4, <2>1, <3>2 DEF PacketHandler, BehindSink, NoneAhead, TypeOK
    <3>. QED
      BY <3>1, <3>2
  <2>. QED
    BY <2>1, <2>2, <2>3, <2>4 DEF BehindSink, NoneAhead
<1>5. CASE Forward(n)
  <2>1. /\ air' = air \cup Broadcast(n, data[n]) /\ data' = [data EXCEPT ![n] = 0]
        /\ UNCHANGED <<lastCommandId, bestPath, packetbuf, sent>>
    BY <1>5 DEF Forward
  <2>2. \A p \in air' : p.id <= sent'
    BY <2>1 DEF Broadcast, BehindSink, NoneAhead
  <2>. QED
    BY <1>1, <2>1, <2>2 DEF BehindSink, NoneAhead, SinkHasNoPath, TypeOK
<1>. QED
  BY <1>2, <1>3, <1>4, <1>5 DEF Run

LEMMA BehindRadio ==
  ASSUME TypeOK, BehindSink, NEW p \in air, Deliver(p) \/ Lose(p) PROVE BehindSink'
<1>1. p.to \in Nodes /\ p.id <= sent
  BY DEF TypeOK, BehindSink, NoneAhead
<1>2. UNCHANGED <<lastCommandId, data, sent>> /\ air' = air \ {p}
  BY DEF Deliver, Lose
<1>3. \A n \in Nodes : packetbuf'[n].id <= sent
  <2>1. CASE Deliver(p)
    <3>1. \/ packetbuf' = packetbuf
          \/ packetbuf' = [packetbuf EXCEPT ![p.to] = [id |-> p.id, sender |-> p.from]]
      BY <2>1 DEF Deliver
    <3>. QED
      BY <1>1, <3>1 DEF BehindSink, NoneAhead, TypeOK
  <2>2. CASE Lose(p)
    BY <2>2 DEF Lose, BehindSink, NoneAhead
  <2>. QED
    BY <2>1, <2>2
<1>. QED
  BY <1>2, <1>3 DEF BehindSink, NoneAhead

LEMMA BehindCommand ==
  ASSUME TypeOK, BehindSink, Command PROVE BehindSink'
<1>1. sent' = sent + 1 /\ air' = air \cup Broadcast(Sink, sent + 1)
      /\ UNCHANGED <<lastCommandId, packetbuf, data>>
  BY DEF Command
<1>2. sent \in Int /\ \A n \in Nodes : packetbuf[n].id \in Int /\ data[n] \in Int /\ lastCommandId[n] \in Int
  BY CommandNetAssumption DEF TypeOK, Ids
<1>3. \A p \in air : p.id \in Int
  BY CommandNetAssumption DEF TypeOK, Ids
<1>4. \A p \in air' : p.id <= sent'
  BY <1>1, <1>2, <1>3 DEF BehindSink, NoneAhead, Broadcast
<1>. QED
  BY <1>1, <1>2, <1>4 DEF BehindSink, NoneAhead

LEMMA NetNext == TypeOK /\ NetInv /\ [Next]_vars => NetInv'
<1>. SUFFICES ASSUME TypeOK, NetInv, [Next]_vars PROVE NetInv'
  OBVIOUS
<1>. USE DEF NetInv
<1>1. CASE Command
  <2>1. BehindSink' /\ SinkHasNoPath' /\ alone' = Quiet
    BY <1>1, BehindCommand DEF Command, SinkHasNoPath
  <2>2. CASE Quiet
    BY <1>1, <2>1, <2>2, FloodCommand
  <2>3. CASE ~Quiet
    BY <2>1, <2>3
  <2>. QED
    BY <2>2, <2>3
<1>2. ASSUME NEW p \in air, Deliver(p) \/ Lose(p) PROVE NetInv'
  <2>1. BehindSink' /\ UNCHANGED <<alone, bestPath>>
    BY <1>2, BehindRadio DEF Deliver, Lose
  <2>. QED
    BY <1>2, <2>1, FloodRadio DEF SinkHasNoPath
<1>3. ASSUME NEW n \in Nodes, Run(n) PROVE NetInv'
  <2>1. BehindSink' /\ SinkHasNoPath'
    BY <1>3, BehindRun
  <2>2. UNCHANGED alone
    BY <1>3 DEF Run, WaitForMessage, ReadBytes, PacketHandler, SleepOver, Forward
  <2>. QED
    BY <1>3, <2>1, <2>2, FloodRun
<1>4. CASE UNCHANGED vars
  BY <1>4 DEF BehindSink, FloodInv, InFlight, ForwardersHave, NoneAhead, HaveFromHavers,
              SinkHasNoPath, Has, vars
<1>. QED
  BY <1>1, <1>2, <1>3, <1>4 DEF Next, Radio

LEMMA NetCorrect == Spec => [](TypeOK /\ NetInv)
<1>1. Init => TypeOK /\ NetInv
  BY TypeInit, NetInit
<1>2. TypeOK /\ NetInv /\ [Next]_vars => (TypeOK /\ NetInv)'
  BY TypeNext, NetNext
<1>. QED
  BY <1>1, <1>2, PTL DEF Spec

-----------------------------------------------------------------------------
\* The order of commands.

\* In a flood that is alone a node hands a command to its main thread only if it comes after
\* the one it handed over last, whichever that was: no copy of it is obeyed a second time.
THEOREM CommandsOnce == Spec => AcceptedOnce
<1>1. TypeOK /\ NetInv /\ [Next]_vars =>
        [alone => \A n \in Nodes : Accepts(n) => data[n] > lastCommandId[n]]_vars
  <2>. SUFFICES ASSUME TypeOK, FloodInv, Next, NEW n \in Nodes, Accepts(n)
                PROVE  data[n] > lastCommandId[n]
    BY DEF NetInv
  <2>1. dispatcher[n] = "sender" /\ dispatcher'[n] = "sleep" /\ data[n] = sent
    BY DEF Accepts, At, FloodInv, InFlight
  <2>2. ~Command /\ ~Radio
    BY <2>1 DEF Command, Radio, Deliver, Lose, Woken, TypeOK
  <2>3. PICK m \in Nodes : Run(m)
    BY <2>2 DEF Next
  <2>4. m = n
    BY <2>1, <2>3
       DEF Run, WaitForMessage, ReadBytes, PacketHandler, SleepOver, Forward, Goes, TypeOK
  <2>5. PacketHandler(n)
    BY <2>1, <2>3, <2>4
    DEF Run, WaitForMessage, ReadBytes, SleepOver, Forward, At
  <2>6. Fresh(n)
    BY <2>1, <2>5 DEF PacketHandler, Goes, TypeOK
  <2>7. lastCommandId[n] # sent
    BY <2>1, <2>6 DEF Fresh
  <2>. QED
    <3>1. lastCommandId[n] <= sent /\ lastCommandId[n] \in Int /\ sent \in Int
      BY CommandNetAssumption DEF FloodInv, NoneAhead, TypeOK, Ids
    <3>. QED
      BY <2>1, <2>7, <3>1
<1>. QED
  BY <1>1, NetCorrect, PTL DEF Spec, AcceptedOnce

-----------------------------------------------------------------------------
\* Paths.

\* As long as no node takes the command, and none is sent, nothing changes.
LEMMA PathsUnchanged ==
  ASSUME PathsLeadToSink, UNCHANGED <<bestPath, lastCommandId, sent, alone>>
  PROVE  PathsLeadToSink'
BY DEF PathsLeadToSink, LeadsToSink, Paths, Has

\* A path to a node that has the command, taken by a node that had it not, closes no
\* circle: the path goes on through nodes that have the command, and these do not change.
LEMMA PathsExtended ==
  ASSUME TypeOK, FloodInv, alone, PathsLeadToSink, NEW n \in Nodes, PacketHandler(n), Fresh(n)
  PROVE  PathsLeadToSink'
<1>. DEFINE y == packetbuf[n].sender
<1>1. /\ n # Sink /\ ~Has(n)
      /\ y \in Nodes \ {n} /\ Has(y)
      /\ lastCommandId' = [lastCommandId EXCEPT ![n] = sent] /\ sent' = sent
      /\ bestPath' = [bestPath EXCEPT ![n] = y]
  BY HandlerFresh
<1>2. lastCommandId[n] # sent /\ sent > 0
  <2>1. lastCommandId[n] \in Int /\ sent \in Int /\ sent >= 0 /\ lastCommandId[n] >= 0
        /\ lastCommandId[n] <= sent
    BY CommandNetAssumption DEF TypeOK, Ids, FloodInv, NoneAhead
  <2>. QED
    BY <1>1, <2>1 DEF Has
<1>3. bestPath'[n] = y /\ \A m \in Nodes \ {n} : bestPath'[m] = bestPath[m]
  BY <1>1 DEF TypeOK
<1>4. \A m \in Nodes \ {n} : Has(m)' => Has(m)
  BY <1>1 DEF Has, TypeOK
\* A set that the new paths do not leave, with a node in it that had the command.
<1>5. ASSUME NEW s \in SUBSET Nodes, \A e \in Paths' : e[1] \in s => e[2] \in s,
             NEW z \in s, Has(z)
      PROVE  Sink \in s
  <2>. DEFINE h == {m \in s : Has(m)}
  <2>1. z \in h /\ h \in SUBSET Nodes
    BY <1>5
  <2>2. \A e \in Paths : e[1] \in h => e[2] \in h
    <3>. SUFFICES ASSUME NEW m \in h, bestPath[m] # NoNode PROVE bestPath[m] \in h
      BY DEF Paths
    <3>1. m \in Nodes /\ m \in s /\ m # n /\ Has(m)
      BY <1>1
    <3>2. bestPath[m] \in s
      <4>1. <<m, bestPath'[m]>> \in Paths'
        BY <1>3, <3>1 DEF Paths
      <4>. QED
        BY <1>3, <1>5, <3>1, <4>1
    <3>3. m # Sink
      BY DEF FloodInv, SinkHasNoPath
    <3>4. Has(bestPath[m])
      BY <1>2, <3>1, <3>3 DEF Has, FloodInv, HaveFromHavers
    <3>. QED
      BY <3>2, <3>4
  <2>3. LeadsToSink(z)
    BY <1>2, <1>5 DEF PathsLeadToSink
  <2>. QED
    BY <2>1, <2>2, <2>3 DEF LeadsToSink
<1>6. ASSUME NEW m \in Nodes, Has(m)', NEW s \in SUBSET Nodes,
             m \in s, \A e \in Paths' : e[1] \in s => e[2] \in s
      PROVE  Sink \in s
  <2>1. CASE m = n
    <3>1. <<n, y>> \in Paths'
      BY <1>1, <1>3, CommandNetAssumption DEF Paths
    <3>2. y \in s
      BY <1>6, <2>1, <3>1
    <3>. QED
      BY <1>1, <1>5, <1>6, <3>2
  <2>2. CASE m # n
    BY <1>4, <1>5, <1>6, <2>2
  <2>. QED
    BY <2>1, <2>2
<1>. QED
  BY <1>6 DEF PathsLeadToSink, LeadsToSink

\* Only the sink has a command that it has just sent.
LEMMA PathsCommand == ASSUME TypeOK, NetInv, Command PROVE PathsLeadToSink'
<1>1. sent' = sent + 1 /\ lastCommandId' = lastCommandId
  BY DEF Command
<1>2. \A n \in Nodes : lastCommandId[n] # sent + 1
  BY CommandNetAssumption DEF NetInv, BehindSink, NoneAhead, TypeOK, Ids
<1>. QED
  BY <1>1, <1>2 DEF PathsLeadToSink, LeadsToSink, Has

LEMMA PathsInit == Init => PathsLeadToSink
BY DEF Init, PathsLeadToSink

LEMMA PathsNext == TypeOK /\ NetInv /\ PathsLeadToSink /\ [Next]_vars => PathsLeadToSink'
<1>. SUFFICES ASSUME TypeOK, NetInv, PathsLeadToSink, [Next]_vars PROVE PathsLeadToSink'
  OBVIOUS
<1>1. ASSUME NEW n \in Nodes, PacketHandler(n) PROVE PathsLeadToSink'
  <2>1. alone' = alone
    BY <1>1 DEF PacketHandler
  <2>2. CASE ~alone
    BY <2>1, <2>2 DEF PathsLeadToSink
  <2>3. CASE alone /\ Fresh(n)
    BY <1>1, <2>3, PathsExtended DEF NetInv
  <2>4. CASE alone /\ ~Fresh(n)
    BY <1>1, <2>1, <2>4, HandlerStale, PathsUnchanged DEF NetInv
  <2>. QED
    BY <2>2, <2>3, <2>4
<1>2. ASSUME NEW n \in Nodes, Run(n) PROVE PathsLeadToSink'
  BY <1>1, <1>2, PathsUnchanged DEF Run, WaitForMessage, ReadBytes, SleepOver, Forward
<1>3. CASE Radio \/ UNCHANGED vars
  BY <1>3, PathsUnchanged DEF Radio, Deliver, Lose, vars
<1>. QED
  BY <1>2, <1>3, PathsCommand DEF Next

\* In every network, in a flood that is alone, the best paths of the nodes that have the
\* command lead to the sink, whatever is lost, whichever packet the sender is read from, and
\* whatever circles floods that met have left behind.
THEOREM PathsAreRight == Spec => []PathsLeadToSink
<1>1. Init => PathsLeadToSink
  BY PathsInit
<1>. QED
  BY <1>1, PathsNext, NetCorrect, PTL DEF Spec

-----------------------------------------------------------------------------
\* Coverage.

\* The command is on its way from m to n: m is still to forward it, or it is in the air,
\* or n is about to handle it.
Coming(m, n) ==
  \/ dispatcher[m] \in {"sleep", "send"}
  \/ [from |-> m, to |-> n, id |-> sent] \in air
  \/ dispatcher[n] \in {"read", "sender"}

\* In a flood that is alone, whoever is in reach of a node that has the command has it, missed
\* it, or will hear it.
CoverInv ==
  alone => \A n, m \in Nodes :
    ~Has(n) /\ Has(m) /\ n \in Neighbours[m] => m \in missed[n] \/ Coming(m, n)

LEMMA CoverInit == Init => CoverInv
BY DEF Init, CoverInv, Has

LEMMA CoverCommand == ASSUME TypeOK, NetInv, Command PROVE CoverInv'
<1>1. /\ sent' = sent + 1 /\ lastCommandId' = lastCommandId
      /\ air' = air \cup Broadcast(Sink, sent + 1)
  BY DEF Command
<1>2. \A m \in Nodes : lastCommandId[m] # sent + 1
  BY CommandNetAssumption DEF NetInv, BehindSink, NoneAhead, TypeOK, Ids
<1>3. \A n \in Neighbours[Sink] : [from |-> Sink, to |-> n, id |-> sent'] \in air'
  BY <1>1 DEF Broadcast
<1>. QED
  BY <1>1, <1>2, <1>3 DEF CoverInv, Has, Coming

LEMMA CoverRadio ==
  ASSUME TypeOK, alone, CoverInv, NEW p \in air, Deliver(p) \/ Lose(p) PROVE CoverInv'
<1>1. p.from \in Nodes /\ p.to \in Nodes
      /\ p = [from |-> p.from, to |-> p.to, id |-> p.id]
  BY DEF TypeOK
<1>2. UNCHANGED <<lastCommandId, sent>> /\ air' = air \ {p}
  BY DEF Deliver, Lose
<1>3. \A n \in Nodes : missed[n] \subseteq missed'[n]
  <2>1. \/ missed' = missed
        \/ missed' = [missed EXCEPT ![p.to] = missed[p.to] \cup {p.from}]
    BY DEF Deliver, Lose, MissedOf
  <2>. QED
    BY <1>1, <2>1 DEF TypeOK
<1>4. \A n \in Nodes : /\ dispatcher[n] \in {"sleep", "send"} => dispatcher'[n] \in {"sleep", "send"}
                       /\ dispatcher[n] \in {"read", "sender"} => dispatcher'[n] \in {"read", "sender"}
  BY <1>1 DEF Deliver, Lose, Woken, TypeOK, Places
<1>5. ~Has(p.to) => p.from \in missed'[p.to] \/ dispatcher'[p.to] \in {"read", "sender"}
  <2>1. CASE Deliver(p)
    <3>1. CASE Awaited(p)
      BY <1>1, <2>1, <3>1 DEF Deliver, Awaited, Woken, TypeOK
    <3>2. CASE ~Awaited(p)
      BY <1>1, <2>1, <3>2 DEF Deliver, MissedOf, TypeOK
    <3>. QED
      BY <3>1, <3>2
  <2>2. CASE Lose(p)
    BY <1>1, <2>2 DEF Lose, MissedOf, TypeOK
  <2>. QED
    BY <2>1, <2>2
<1>. SUFFICES ASSUME NEW n \in Nodes, NEW m \in Nodes, ~Has(n), Has(m), n \in Neighbours[m]
              PROVE  m \in missed'[n] \/ Coming(m, n)'
  BY <1>2 DEF CoverInv, Has
<1>6. m \in missed[n] \/ Coming(m, n)
  BY DEF CoverInv
<1>7. CASE p = [from |-> m, to |-> n, id |-> sent]
  BY <1>5, <1>7 DEF Coming
<1>8. CASE p # [from |-> m, to |-> n, id |-> sent]
  BY <1>2, <1>3, <1>4, <1>6, <1>8 DEF Coming
<1>. QED
  BY <1>7, <1>8

LEMMA CoverRun ==
  ASSUME TypeOK, FloodInv, alone, CoverInv, NEW k \in Nodes, Run(k) PROVE CoverInv'
<1>1. CASE WaitForMessage(k) \/ ReadBytes(k) \/ SleepOver(k)
  <2>1. UNCHANGED <<lastCommandId, sent, air, missed>>
    BY <1>1 DEF WaitForMessage, ReadBytes, SleepOver
  <2>2. \A n \in Nodes : /\ dispatcher[n] \in {"sleep", "send"} => dispatcher'[n] \in {"sleep", "send"}
                         /\ dispatcher[n] \in {"read", "sender"} => dispatcher'[n] \in {"read", "sender"}
    BY <1>1 DEF WaitForMessage, ReadBytes, SleepOver, At, Goes, TypeOK
  <2>. QED
    BY <2>1, <2>2 DEF CoverInv, Coming, Has
<1>2. CASE PacketHandler(k) /\ Fresh(k)
  <2>1. /\ lastCommandId' = [lastCommandId EXCEPT ![k] = sent]
        /\ dispatcher' = [dispatcher EXCEPT ![k] = "sleep"]
        /\ missed' = [missed EXCEPT ![k] = {}]
        /\ UNCHANGED <<air, sent>>
    BY <1>2, HandlerFresh
  <2>. SUFFICES ASSUME NEW n \in Nodes, NEW m \in Nodes, ~Has(n)', Has(m)', n \in Neighbours[m]
                PROVE  m \in missed'[n] \/ Coming(m, n)'
    BY DEF CoverInv
  <2>2. n # k /\ ~Has(n)
    BY <2>1 DEF Has, TypeOK
  <2>3. CASE m = k
    BY <2>1, <2>3 DEF Coming, TypeOK
  <2>4. CASE m # k
    <3>1. Has(m)
      BY <2>1, <2>4 DEF Has, TypeOK
    <3>2. m \in missed[n] \/ Coming(m, n)
      BY <2>2, <3>1 DEF CoverInv
    <3>. QED
      BY <2>1, <2>2, <2>4, <3>2 DEF Coming, TypeOK
  <2>. QED
    BY <2>3, <2>4
<1>3. CASE PacketHandler(k) /\ ~Fresh(k)
  <2>1. /\ Has(k)
        /\ dispatcher[k] = "sender"
        /\ dispatcher' = [dispatcher EXCEPT ![k] = "receive"]
        /\ UNCHANGED <<lastCommandId, air, sent, missed>>
    BY <1>3, HandlerStale DEF PacketHandler, At
  <2>. SUFFICES ASSUME NEW n \in Nodes, NEW m \in Nodes, ~Has(n), Has(m), n \in Neighbours[m]
                PROVE  m \in missed'[n] \/ Coming(m, n)'
    BY <2>1 DEF CoverInv, Has
  <2>2. n # k /\ (m \in missed[n] \/ Coming(m, n))
    BY <2>1 DEF CoverInv
  <2>. QED
    BY <2>1, <2>2 DEF Coming, TypeOK
<1>4. CASE Forward(k)
  <2>1. /\ dispatcher[k] = "send" /\ data[k] = sent
        /\ dispatcher' = [dispatcher EXCEPT ![k] = "receive"]
        /\ air' = air \cup Broadcast(k, sent)
        /\ UNCHANGED <<lastCommandId, sent, missed>>
    BY <1>4 DEF Forward, At, Goes, FloodInv, InFlight
  <2>. SUFFICES ASSUME NEW n \in Nodes, NEW m \in Nodes, ~Has(n), Has(m), n \in Neighbours[m]
                PROVE  m \in missed'[n] \/ Coming(m, n)'
    BY <2>1 DEF CoverInv, Has
  <2>2. n # k
    BY <2>1 DEF FloodInv, ForwardersHave
  <2>3. CASE m = k
    <3>1. [from |-> m, to |-> n, id |-> sent] \in air'
      BY <2>1, <2>3 DEF Broadcast
    <3>. QED
      BY <2>1, <3>1 DEF Coming
  <2>4. CASE m # k
    <3>1. m \in missed[n] \/ Coming(m, n)
      BY DEF CoverInv
    <3>. QED
      BY <2>1, <2>2, <2>4, <3>1 DEF Coming, TypeOK
  <2>. QED
    BY <2>3, <2>4
<1>. QED
  BY <1>1, <1>2, <1>3, <1>4 DEF Run

LEMMA CoverNext == TypeOK /\ NetInv /\ CoverInv /\ [Next]_vars => CoverInv'
<1>. SUFFICES ASSUME TypeOK, NetInv, CoverInv, [Next]_vars PROVE CoverInv'
  OBVIOUS
<1>1. CASE UNCHANGED vars
  BY <1>1 DEF CoverInv, Coming, Has, vars
<1>2. CASE Command
  BY <1>2, CoverCommand
<1>3. CASE Radio \/ \E n \in Nodes : Run(n)
  <2>1. alone' = alone
    BY <1>3 DEF Radio, Deliver, Lose, Run, WaitForMessage, ReadBytes, PacketHandler, SleepOver,
                Forward
  <2>2. CASE ~alone
    BY <2>1, <2>2 DEF CoverInv
  <2>3. CASE alone
    BY <1>3, <2>3, CoverRadio, CoverRun DEF Radio, NetInv
  <2>. QED
    BY <2>2, <2>3
<1>. QED
  BY <1>1, <1>2, <1>3 DEF Next

\* In every network a flood that is alone reaches every node but those that missed each copy
\* sent to them.
THEOREM FloodReaches == Spec => []FloodCovers
<1>1. Init => CoverInv
  BY CoverInit
<1>2. CoverInv => FloodCovers
  BY DEF CoverInv, FloodCovers, Coming, Quiet
<1>. QED
  BY <1>1, <1>2, CoverNext, NetCorrect, PTL DEF Spec

-----------------------------------------------------------------------------
\* A flood comes to its end.

Advances ==
  \/ Shrinks(Lacking, Lacking')
  \/ /\ Lacking' = Lacking
     /\ \/ Shrinks(Forwarding, Forwarding')
        \/ Forwarding' = Forwarding /\ Shrinks(air, air')
        \/ Forwarding' = Forwarding /\ air' = air /\ \E n \in Nodes : Proceeds(n)

LEMMA LackingSame == ASSUME lastCommandId' = lastCommandId, sent' = sent PROVE Lacking' = Lacking
BY DEF Lacking, Has

\* A dispatcher that goes from one place to another, neither of which is on the way to send.
LEMMA DispatcherProceeds ==
  ASSUME TypeOK, NEW n \in Nodes, NEW place \in Places,
         StepsLeft[place] < StepsLeft[dispatcher[n]],
         dispatcher[n] \in {"sleep", "send"} <=> place \in {"sleep", "send"},
         dispatcher' = [dispatcher EXCEPT ![n] = place]
  PROVE  Forwarding' = Forwarding /\ Proceeds(n)
<1>1. dispatcher'[n] = place /\ \A m \in Nodes \ {n} : dispatcher'[m] = dispatcher[m]
  BY DEF TypeOK
<1>. QED
  BY <1>1 DEF Forwarding, Proceeds

LEMMA RunAdvances == ASSUME TypeOK, FloodInv, NEW n \in Nodes, Run(n) PROVE Advances
<1>1. CASE WaitForMessage(n)
  <2>1. /\ dispatcher[n] = "receive" /\ dispatcher' = [dispatcher EXCEPT ![n] = "blocked"]
        /\ Lacking' = Lacking /\ air' = air
    BY <1>1, LackingSame DEF WaitForMessage, At, Goes
  <2>2. "blocked" \in Places /\ StepsLeft["blocked"] < StepsLeft["receive"]
    BY DEF Places, StepsLeft
  <2>3. Forwarding' = Forwarding /\ Proceeds(n)
    BY <2>1, <2>2, DispatcherProceeds
  <2>. QED
    BY <2>1, <2>3 DEF Advances
<1>2. CASE ReadBytes(n)
  <2>1. /\ dispatcher[n] = "read" /\ dispatcher' = [dispatcher EXCEPT ![n] = "sender"]
        /\ Lacking' = Lacking /\ air' = air
    BY <1>2, LackingSame DEF ReadBytes, At, Goes
  <2>2. "sender" \in Places /\ StepsLeft["sender"] < StepsLeft["read"]
    BY DEF Places, StepsLeft
  <2>3. Forwarding' = Forwarding /\ Proceeds(n)
    BY <2>1, <2>2, DispatcherProceeds
  <2>. QED
    BY <2>1, <2>3 DEF Advances
<1>3. CASE PacketHandler(n) /\ Fresh(n)
  <2>1. n \in Lacking
    BY <1>3, HandlerFresh DEF Lacking
  <2>2. lastCommandId' = [lastCommandId EXCEPT ![n] = sent] /\ sent' = sent
    BY <1>3, HandlerFresh
  <2>3. Lacking' = Lacking \ {n}
    BY <2>2 DEF Lacking, Has, TypeOK
  <2>. QED
    BY <2>1, <2>3 DEF Advances, Shrinks
<1>4. CASE PacketHandler(n) /\ ~Fresh(n)
  <2>1. /\ dispatcher[n] = "sender" /\ dispatcher' = [dispatcher EXCEPT ![n] = "receive"]
        /\ Lacking' = Lacking /\ air' = air
    BY <1>4, HandlerStale, LackingSame DEF PacketHandler, At
  <2>2. "receive" \in Places /\ StepsLeft["receive"] < StepsLeft["sender"]
    BY DEF Places, StepsLeft
  <2>3. Forwarding' = Forwarding /\ Proceeds(n)
    BY <2>1, <2>2, DispatcherProceeds
  <2>. QED
    BY <2>1, <2>3 DEF Advances
<1>5. CASE SleepOver(n)
  <2>1. /\ dispatcher[n] = "sleep" /\ dispatcher' = [dispatcher EXCEPT ![n] = "send"]
        /\ Lacking' = Lacking /\ air' = air
    BY <1>5, LackingSame DEF SleepOver, At, Goes
  <2>2. "send" \in Places /\ StepsLeft["send"] < StepsLeft["sleep"]
    BY DEF Places, StepsLeft
  <2>3. Forwarding' = Forwarding /\ Proceeds(n)
    BY <2>1, <2>2, DispatcherProceeds
  <2>. QED
    BY <2>1, <2>3 DEF Advances
<1>6. CASE Forward(n)
  <2>1. /\ dispatcher[n] = "send" /\ dispatcher' = [dispatcher EXCEPT ![n] = "receive"]
        /\ Lacking' = Lacking
    BY <1>6, LackingSame DEF Forward, At, Goes
  <2>2. n \in Forwarding /\ Forwarding' = Forwarding \ {n}
    BY <2>1 DEF Forwarding, TypeOK
  <2>. QED
    BY <2>1, <2>2 DEF Advances, Shrinks
<1>. QED
  BY <1>1, <1>2, <1>3, <1>4, <1>5, <1>6 DEF Run

LEMMA RadioAdvances == ASSUME TypeOK, Radio PROVE Advances
<1>1. PICK p \in air : Deliver(p) \/ Lose(p)
  BY DEF Radio
<1>2. Lacking' = Lacking
  BY <1>1, LackingSame DEF Deliver, Lose
<1>3. Shrinks(air, air')
  BY <1>1 DEF Shrinks, Deliver, Lose
<1>4. Forwarding' = Forwarding
  <2>1. CASE Deliver(p)
    <3>1. p.to \in Nodes /\ dispatcher' = [dispatcher EXCEPT ![p.to] = Woken(dispatcher[p.to])]
      BY <2>1 DEF Deliver, TypeOK
    <3>2. \A n \in Nodes :
            dispatcher'[n] \in {"sleep", "send"} <=> dispatcher[n] \in {"sleep", "send"}
      BY <3>1 DEF TypeOK, Woken
    <3>. QED
      BY <3>2 DEF Forwarding
  <2>2. CASE Lose(p)
    BY <2>2 DEF Lose, Forwarding
  <2>. QED
    BY <1>1, <2>1, <2>2
<1>. QED
  BY <1>2, <1>3, <1>4 DEF Advances

\* A flood that is alone does not go round for ever, in any network: every step but a new
\* command of the sink makes less what is left to do.
THEOREM FloodComesToEnd == Spec => FloodAdvances
<1>1. TypeOK /\ NetInv /\ [Next]_vars => [alone /\ sent' = sent => Advances]_vars
  <2>. SUFFICES ASSUME TypeOK, FloodInv, Next, sent' = sent PROVE Advances
    BY DEF NetInv
  <2>1. ~Command
    BY CommandNetAssumption DEF Command, TypeOK, Ids
  <2>. QED
    BY <2>1, RunAdvances, RadioAdvances DEF Next
<1>2. [alone /\ sent' = sent => Advances]_vars =>
        [alone /\ sent' = sent =>
           \/ Shrinks(Lacking, Lacking')
           \/ /\ Lacking' = Lacking
              /\ \/ Shrinks(Forwarding, Forwarding')
                 \/ Forwarding' = Forwarding /\ Shrinks(air, air')
                 \/ Forwarding' = Forwarding /\ air' = air /\ \E n \in Nodes : Proceeds(n)]_vars
  BY DEF Advances
<1>. QED
  BY <1>1, <1>2, NetCorrect, PTL DEF Spec, FloodAdvances

=============================================================================
