------------------------------- MODULE CommandNet ------------------------------
(***************************************************************************)
(* A command for the tasks of every node floods the network (CommandProtocol, *)
(* Protocol, Dispatcher, Radio and the receive callback of main.c).         *)
(*                                                                         *)
(* Each node has one dispatcher thread and one packet buffer, which every     *)
(* packet that arrives overwrites.  The dispatcher waits, copies the bytes,   *)
(* asks for the sender, and handles the packet; between these steps the      *)
(* radio may deliver another.  A fresh command is handed to the main thread,  *)
(* and half a second later sent on.  Packets are delayed, reordered and lost. *)
(*                                                                         *)
(* The sink sends whenever a line comes in over its UART, and waits for       *)
(* nothing: copies of several commands may meet.  There are no other packets: *)
(* applications send theirs through the same buffer.                        *)
(***************************************************************************)
EXTENDS Integers, FiniteSets

CONSTANTS
  Nodes,
  Sink,             \* the node with id 1
  NoNode,           \* bestPath -1
  Neighbours,       \* the nodes in reach of each
  MaxCommand        \* bound: commands the sink sends

ASSUME CommandNetAssumption ==
  /\ Sink \in Nodes /\ NoNode \notin Nodes
  /\ Neighbours \in [Nodes -> SUBSET Nodes]
  /\ \A n \in Nodes : n \notin Neighbours[n]
  /\ MaxCommand \in Nat

VARIABLES
  lastCommandId,
  bestPath,
  dispatcher,       \* where run() is, below
  packetbuf,        \* Contiki's packetbuf of each node, while the dispatcher is to read it
  data,             \* d in run(), then msg: the id of the command, while it is needed
  air,              \* packets on their way: [from, to, id]
  sent,             \* the last command of the sink
  alone,            \* for the properties: no flood was under way when the sink sent it
  missed            \* for the properties: the senders whose copy each node missed

vars == <<lastCommandId, bestPath, dispatcher, packetbuf, data, air, sent, alone, missed>>

\* "receive": before _waitForMessage.  "blocked": BLOCKED_FOR_IO.  "read": woken, before
\* _readBytes.  "sender": before getSenderId.  "sleep": in sleep(500).  "send": after it.
Places == {"receive", "blocked", "read", "sender", "sleep", "send"}

\* A buffer without a packet.
Empty == [id |-> 0, sender |-> NoNode]

Init ==
  /\ lastCommandId = [n \in Nodes |-> 0]
  /\ bestPath = [n \in Nodes |-> NoNode]
  /\ dispatcher = [n \in Nodes |-> "receive"]
  /\ packetbuf = [n \in Nodes |-> Empty]
  /\ data = [n \in Nodes |-> 0]
  /\ air = {} /\ sent = 0 /\ alone = TRUE
  /\ missed = [n \in Nodes |-> {}]

-----------------------------------------------------------------------------
\* The radio.

\* A broadcast is sent once, without acknowledgement.  Of equal packets on their way to one
\* node all but one are lost.
Unicast(n, id) ==                \* faulty: unicast without the test of bestPath
  {[from |-> n, to |-> bestPath[n], id |-> id]}
Broadcast(n, id) == {[from |-> n, to |-> m, id |-> id] : m \in Neighbours[n]}

\* The receive callback makes the dispatcher RUNNING, whatever it was: it ends the wait
\* for a message, and a sleep too.
ForwardDropped(place) ==          \* faulty: the end of the sleep is the end of the handler
  IF place = "blocked" THEN "read" ELSE IF place = "sleep" THEN "receive" ELSE place
Woken(place) ==
  IF place = "blocked" THEN "read" ELSE IF place = "sleep" THEN "send" ELSE place

\* A packet that nobody waits for is not kept.
ToBeRead(place) == place \in {"read", "sender"}
Awaited(p) == dispatcher[p.to] \in {"blocked", "read"}
Has(n) == n = Sink \/ lastCommandId[n] = sent
MissedOf(p) ==
  IF ~alone \/ Has(p.to) THEN missed ELSE [missed EXCEPT ![p.to] = missed[p.to] \cup {p.from}]

Deliver(p) ==
  /\ air' = air \ {p}
  /\ dispatcher' = [dispatcher EXCEPT ![p.to] = Woken(dispatcher[p.to])]
  /\ packetbuf' = IF ToBeRead(dispatcher'[p.to])
                  THEN [packetbuf EXCEPT ![p.to] = [id |-> p.id, sender |-> p.from]]
                  ELSE packetbuf
  /\ missed' = IF Awaited(p) THEN missed ELSE MissedOf(p)
  /\ UNCHANGED <<lastCommandId, bestPath, data, sent, alone>>

\* A packet that is disturbed on the channel, or that nobody listens for.
Lose(p) ==
  /\ air' = air \ {p}
  /\ missed' = MissedOf(p)
  /\ UNCHANGED <<lastCommandId, bestPath, dispatcher, packetbuf, data, sent, alone>>

Radio == \E p \in air : Deliver(p) \/ Lose(p)

-----------------------------------------------------------------------------
\* The dispatcher thread.

At(n, place) == dispatcher[n] = place
Goes(n, place) == dispatcher' = [dispatcher EXCEPT ![n] = place]

WaitForMessage(n) ==
  /\ At(n, "receive") /\ Goes(n, "blocked")
  /\ UNCHANGED <<lastCommandId, bestPath, packetbuf, data, air, sent, alone, missed>>

ReadBytes(n) ==
  /\ At(n, "read") /\ Goes(n, "sender")
  /\ data' = [data EXCEPT ![n] = packetbuf[n].id]
  /\ UNCHANGED <<lastCommandId, bestPath, packetbuf, air, sent, alone, missed>>

\* CommandProtocol.packetHandler.
IamSink(n) == n = Sink
AnyFresh(n) == ~IamSink(n)           \* faulty: a command is fresh each time
Fresh(n) == ~IamSink(n) /\ data[n] # lastCommandId[n]

\* The sender is asked of the packet buffer, not of the packet that was copied.
PathOfLast(n) ==                     \* faulty: not only the first packet tells the path
  IF IamSink(n) THEN bestPath[n] ELSE packetbuf[n].sender
PathAfter(n) == IF Fresh(n) THEN packetbuf[n].sender ELSE bestPath[n]

\* Nobody reads the buffer again before the next packet overwrites it, so the model empties
\* it here; the code clears it nowhere on this way.
PacketHandler(n) ==
  /\ At(n, "sender")
  /\ packetbuf' = [packetbuf EXCEPT ![n] = Empty]
  /\ bestPath' = [bestPath EXCEPT ![n] = PathAfter(n)]
  /\ IF Fresh(n)
     THEN /\ Goes(n, "sleep")
          /\ lastCommandId' = [lastCommandId EXCEPT ![n] = data[n]]
          /\ missed' = [missed EXCEPT ![n] = {}]
          /\ UNCHANGED data
     ELSE /\ Goes(n, "receive")
          /\ data' = [data EXCEPT ![n] = 0]
          /\ UNCHANGED <<lastCommandId, missed>>
  /\ UNCHANGED <<air, sent, alone>>

SleepOver(n) ==
  /\ At(n, "sleep") /\ Goes(n, "send")
  /\ UNCHANGED <<lastCommandId, bestPath, packetbuf, data, air, sent, alone, missed>>

Forward(n) ==
  /\ At(n, "send") /\ Goes(n, "receive")
  /\ air' = air \cup Broadcast(n, data[n])
  /\ data' = [data EXCEPT ![n] = 0]
  /\ UNCHANGED <<lastCommandId, bestPath, packetbuf, sent, alone, missed>>

Run(n) ==
  \/ WaitForMessage(n) \/ ReadBytes(n) \/ PacketHandler(n) \/ SleepOver(n) \/ Forward(n)

-----------------------------------------------------------------------------
\* No flood is under way.
Quiet == air = {} /\ \A n \in Nodes : dispatcher[n] \in {"receive", "blocked"}

\* SerialReceiver.  What it sends passes through the packet buffer of the sink too, whose
\* dispatcher ignores every command, whatever it reads.
Command ==
  /\ sent < MaxCommand
  /\ sent' = sent + 1
  /\ air' = air \cup Broadcast(Sink, sent + 1)
  /\ alone' = Quiet
  /\ missed' = [n \in Nodes |-> {}]
  /\ UNCHANGED <<lastCommandId, bestPath, dispatcher, packetbuf, data>>

Next == Command \/ Radio \/ \E n \in Nodes : Run(n)

Spec == Init /\ [][Next]_vars

\* Packets do not stay in the air, the scheduler runs threads that can run, and sleeps end:
\* some step is taken as long as there is one.  The sink need not send.
FairSpec == Spec /\ WF_vars(Radio \/ \E n \in Nodes : Run(n))

-----------------------------------------------------------------------------
\* Properties.

Ids == 0 .. MaxCommand

\* The state is as the types say, and the sink's protocol has taken no command.
TypeOK ==
  /\ lastCommandId \in [Nodes -> Ids] /\ lastCommandId[Sink] = 0
  /\ bestPath \in [Nodes -> Nodes \cup {NoNode}]
  /\ dispatcher \in [Nodes -> Places]
  /\ packetbuf \in [Nodes -> [id : Ids, sender : Nodes \cup {NoNode}]]
  /\ data \in [Nodes -> Ids]
  /\ air \subseteq [from : Nodes, to : Nodes, id : Ids]
  /\ sent \in Ids /\ alone \in BOOLEAN /\ missed \in [Nodes -> SUBSET Nodes]

\* What follows is about a flood that is alone: the sink sent its command when nothing of
\* an earlier one was under way, and has sent no other since.  What happened before, floods
\* that met included, does not matter.  Nothing in the code sees to it that floods are alone:
\* only the last number is kept, so where two meet a node may take the first command again
\* after the second (FloodsMeet), and two nodes may become each other's best path.

\* In a flood that is alone a node hands only a newer command to its main thread, so none
\* twice, however many copies it hears: a command may start or unload a task.
Accepts(n) == At(n, "sender") /\ dispatcher'[n] = "sleep"
AcceptedOnce ==
  [][alone => \A n \in Nodes : Accepts(n) => data[n] > lastCommandId[n]]_vars

\* In a flood that is alone the best path of every node that has the command leads to the
\* sink, past no node without it: also when the sender that was read is not the sender of the
\* packet that was read, and whatever the paths were before.
Paths == {<<n, bestPath[n]>> : n \in {m \in Nodes : bestPath[m] # NoNode}}
LeadsToSink(n) ==
  \A s \in SUBSET Nodes :
    n \in s /\ (\A e \in Paths : e[1] \in s => e[2] \in s) => Sink \in s
PathsLeadToSink == alone /\ sent > 0 => \A n \in Nodes : Has(n) => LeadsToSink(n)

\* When a flood that was alone is over, a node has the command unless it missed it from every
\* neighbour that has it: a packet is not lost to a sleep that it ends, nor to another
\* packet that overwrites it.
FloodCovers ==
  alone /\ Quiet => \A n, m \in Nodes : ~Has(n) /\ Has(m) /\ n \in Neighbours[m] => m \in missed[n]

\* Every step of a flood that is alone brings it nearer to its end: another node has the
\* command, or one fewer is to send it on, or fewer packets are in the air, or a dispatcher is
\* nearer to its wait.  Until the sink sends again, no step can be taken for ever, however the
\* nodes reach each other.
Lacking == {n \in Nodes : ~Has(n)}
Forwarding == {n \in Nodes : dispatcher[n] \in {"sleep", "send"}}
StepsLeft == [read |-> 3, sender |-> 2, receive |-> 1, blocked |-> 0, sleep |-> 1, send |-> 0]
Shrinks(old, new) == new \subseteq old /\ new # old
Proceeds(n) ==
  /\ StepsLeft[dispatcher'[n]] < StepsLeft[dispatcher[n]]
  /\ \A m \in Nodes \ {n} : dispatcher'[m] = dispatcher[m]
FloodAdvances ==
  [][alone /\ sent' = sent =>
       \/ Shrinks(Lacking, Lacking')
       \/ /\ Lacking' = Lacking
          /\ \/ Shrinks(Forwarding, Forwarding')
             \/ Forwarding' = Forwarding /\ Shrinks(air, air')
             \/ Forwarding' = Forwarding /\ air' = air /\ \E n \in Nodes : Proceeds(n)]_vars

\* A flood that is alone ends, or the sink sends another command into it.
FloodEnds == alone ~> (Quiet \/ ~alone)

==============================================================================
