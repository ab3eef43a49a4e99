------------------------------- MODULE BusConn -------------------------------
(***************************************************************************)
(* The connections of one direction of the link between two processes:     *)
(* threads of the sending process marshal messages into the buffered       *)
(* writer of the current connection under its lock, a reader at the other  *)
(* end unmarshals them, connections break between any two bytes, and the   *)
(* dialer replaces a connection that was retired.  Sources: lockedWriter   *)
(* (client.go), sendToPeer, retirePeer, peerConnLost, dialPeer and         *)
(* clientListener (replica.go), scheduleBatch (schedule_transport.go), and *)
(* for the baselines SendMsg and replicaListener (replica/replica.go).     *)
(*                                                                         *)
(* A thread sends one batch in its life: one message (sendMsg), several    *)
(* under one lock (sendRawBatch, scheduleBatch).  What the batches and     *)
(* their bytes are is left to the constants; BusLink gives their values.   *)
(***************************************************************************)
EXTENDS Integers, Sequences

CONSTANTS
  Plans,              \* what is sent: records with a field redials
  WriteCount(_, _),   \* the calls of Write for a thread's batch, in a plan
  ByteCount(_, _),    \* the bytes of some of a plan's writes
  NextMessage(_, _),  \* what, in a plan, the reader of a connection has before it
  MaxConns,           \* bound: connections dialled in a behaviour
  MaxBreaks           \* bound: connections that break by themselves

ASSUME BoundsAssumption == MaxConns \in Nat \ {0} /\ MaxBreaks \in Nat

Threads == {1, 2}
Inbound == 3              \* the reader of the connection in the other direction
Nobody == 0

VARIABLES
  plan,
  conns,       \* the connections dialled so far, see NewConn
  peer,        \* peerWriters[j]: the current connection, 0 for nil
  redial,      \* the cap-1 channel peerRedial[j] holds a token
  dialer,      \* "dialing" or "waiting"
  pc,          \* what each thread is doing
  lw,          \* the connection whose writer a thread took
  at,          \* writes a thread has made of its batch
  breaks

vars == <<plan, conns, peer, redial, dialer, pc, lw, at, breaks>>

\* lock: the holder of lockedWriter.mu.  buf: writes in the bufio.Writer;
\* sent: writes that were flushed; a write is <<thread, index>>.  alive: it has
\* not failed; cut: how many bytes of sent a failed one lets through.  pos, got,
\* end: the reader's position, what it delivered, and why it stopped.
NewConn == [lock |-> Nobody, buf |-> <<>>, sent |-> <<>>, alive |-> TRUE, cut |-> 0,
            pos |-> 0, got |-> <<>>, end |-> "reading"]

-----------------------------------------------------------------------------
(* The sending process.                                                    *)

\* sendToPeer reads peerWriters[j]; nil drops the message.
TakeWriter(t) ==
  /\ pc[t] = "start"
  /\ lw' = [lw EXCEPT ![t] = peer]
  /\ pc' = [pc EXCEPT ![t] = IF peer = 0 THEN "done" ELSE "lock"]
  /\ UNCHANGED <<plan, conns, peer, redial, dialer, at, breaks>>

\* Mutant of Lock: the writer is used without its lock.
LockNot(t) ==
  /\ pc[t] = "lock"
  /\ pc' = [pc EXCEPT ![t] = "write"]
  /\ UNCHANGED <<plan, conns, peer, redial, dialer, lw, at, breaks>>

\* lw.mu.Lock().
Lock(t) ==
  /\ pc[t] = "lock"
  /\ conns[lw[t]].lock = Nobody
  /\ conns' = [conns EXCEPT ![lw[t]].lock = t]
  /\ pc' = [pc EXCEPT ![t] = "write"]
  /\ UNCHANGED <<plan, peer, redial, dialer, lw, at, breaks>>

\* WriteByte and Marshal fill the bufio.Writer, one Write after the other.
WritePart(t) ==
  /\ pc[t] = "write"
  /\ at[t] < WriteCount(plan, t)
  /\ at' = [at EXCEPT ![t] = @ + 1]
  /\ conns' = [conns EXCEPT ![lw[t]].buf = Append(@, <<t, at[t] + 1>>)]
  /\ UNCHANGED <<plan, peer, redial, dialer, pc, lw, breaks>>

Written(t) == pc[t] = "write" /\ at[t] = WriteCount(plan, t)

\* Mutant of Flush: the message stays in the bufio.Writer.
FlushNot(t) ==
  /\ Written(t)
  /\ conns[lw[t]].alive
  /\ conns' = [conns EXCEPT ![lw[t]].lock = Nobody]
  /\ pc' = [pc EXCEPT ![t] = "done"]
  /\ UNCHANGED <<plan, peer, redial, dialer, lw, at, breaks>>

\* Flush succeeds, the deferred Unlock runs.
Flush(t) ==
  /\ Written(t)
  /\ conns[lw[t]].alive
  /\ conns' = [conns EXCEPT ![lw[t]].sent = @ \o conns[lw[t]].buf,
                            ![lw[t]].buf  = <<>>,
                            ![lw[t]].lock = Nobody]
  /\ pc' = [pc EXCEPT ![t] = "done"]
  /\ UNCHANGED <<plan, peer, redial, dialer, lw, at, breaks>>

\* A write or the Flush reports that the connection failed; the bufio.Writer
\* keeps the error.  Only sendToPeer looks at it.
SendFails(t) ==
  /\ pc[t] = "write"
  /\ ~conns[lw[t]].alive
  /\ conns' = [conns EXCEPT ![lw[t]].lock = Nobody]
  /\ pc' = [pc EXCEPT ![t] = IF plan.redials THEN "retire" ELSE "done"]
  /\ UNCHANGED <<plan, peer, redial, dialer, lw, at, breaks>>

\* Mutant of retirePeer: the dialer is woken also when nothing was cleared.
retirePeerAlways(t, old) ==
  /\ peer' = IF old = 0 \/ peer = old THEN 0 ELSE peer
  /\ pc' = [pc EXCEPT ![t] = "signal"]

\* Mutant of retirePeer: it clears whatever writer there is.
retirePeerAny(t, old) ==
  /\ peer' = 0
  /\ pc' = [pc EXCEPT ![t] = IF peer # 0 THEN "signal" ELSE "done"]

\* retirePeer(j, old) up to its Unlock, by thread t; old = 0 is nil.
retirePeer(t, old) ==
  LET mine    == old = 0 \/ peer = old
      cleared == mine /\ peer # 0
  IN  /\ peer' = IF mine THEN 0 ELSE peer
      /\ pc' = [pc EXCEPT ![t] = IF cleared THEN "signal" ELSE "done"]

Retire(t) ==
  /\ pc[t] = "retire"
  /\ retirePeer(t, lw[t])
  /\ UNCHANGED <<plan, conns, redial, dialer, lw, at, breaks>>

\* peerConnLost: the connection from the peer to this process ended.
ConnLost ==
  /\ plan.redials
  /\ pc[Inbound] = "start"
  /\ retirePeer(Inbound, 0)
  /\ UNCHANGED <<plan, conns, redial, dialer, lw, at, breaks>>

\* retirePeer after its Unlock: the token, unless the channel is full.
SignalRedial(t) ==
  /\ pc[t] = "signal"
  /\ redial' = TRUE
  /\ pc' = [pc EXCEPT ![t] = "done"]
  /\ UNCHANGED <<plan, conns, peer, dialer, lw, at, breaks>>

\* dialPeer: a new connection with a writer of its own.
Dial ==
  /\ dialer = "dialing"
  /\ Len(conns) < MaxConns
  /\ conns' = Append(conns, NewConn)
  /\ peer' = Len(conns) + 1
  /\ dialer' = "waiting"
  /\ UNCHANGED <<plan, redial, pc, lw, at, breaks>>

\* What of a connection's writes may get through: those that were flushed, and
\* those that a thread is flushing.
Flushed(c) ==
  IF \E t \in Threads : lw[t] = c /\ Written(t)
  THEN conns[c].sent \o conns[c].buf ELSE conns[c].sent

\* A connection fails with at least the first `least` bytes through.
Fails(c, least) ==
  \E k \in least .. ByteCount(plan, Flushed(c)) :
    conns' = [conns EXCEPT ![c].alive = FALSE, ![c].cut = k, ![c].sent = Flushed(c)]

\* dialPeer wakes, closes its connection and dials again; what was flushed
\* still arrives.
CloseRetired ==
  /\ dialer = "waiting" /\ redial
  /\ redial' = FALSE
  /\ dialer' = "dialing"
  /\ IF ~conns[Len(conns)].alive THEN UNCHANGED conns
     ELSE Fails(Len(conns), ByteCount(plan, conns[Len(conns)].sent))
  /\ UNCHANGED <<plan, peer, pc, lw, at, breaks>>

\* The network fails, or the peer crashes: bytes the reader has not had may be
\* lost.
Break(c) ==
  /\ breaks < MaxBreaks
  /\ conns[c].alive
  /\ Fails(c, conns[c].pos)
  /\ breaks' = breaks + 1
  /\ UNCHANGED <<plan, peer, redial, dialer, pc, lw, at>>

-----------------------------------------------------------------------------
(* The reader.                                                             *)

\* One turn of the reader's loop: it blocks while bytes it wants may still
\* come; a message it cannot decode ends the connection.
Receive(c) ==
  /\ conns[c].end = "reading"
  /\ \E x \in {NextMessage(plan, conns[c])} :
       /\ x.ran => ~conns[c].alive
       /\ \/ /\ x.st = "ok"
             /\ conns' = [conns EXCEPT ![c].pos = x.at,
                                       ![c].got = Append(@, [code |-> x.code, val |-> x.val])]
          \/ /\ x.st = "short"
             /\ conns' = [conns EXCEPT ![c].end = "eof"]
          \/ /\ x.st \in {"over", "unknown"}
             /\ conns' = [conns EXCEPT ![c].end = x.st,
                                       ![c].alive = FALSE,
                                       ![c].cut = IF conns[c].alive THEN conns[c].pos ELSE @]
  /\ UNCHANGED <<plan, peer, redial, dialer, pc, lw, at, breaks>>

-----------------------------------------------------------------------------
Init ==
  /\ plan \in Plans
  /\ conns = <<>> /\ peer = 0 /\ redial = FALSE /\ dialer = "dialing"
  /\ pc = [t \in Threads \cup {Inbound} |-> "start"]
  /\ lw = [t \in Threads |-> 0]
  /\ at = [t \in Threads |-> 0]
  /\ breaks = 0

Next ==
  \/ \E t \in Threads :
       \/ TakeWriter(t) \/ Lock(t) \/ WritePart(t) \/ Flush(t)
       \/ SendFails(t) \/ Retire(t)
  \/ \E t \in Threads \cup {Inbound} : SignalRedial(t)
  \/ ConnLost \/ Dial \/ CloseRetired
  \/ \E c \in DOMAIN conns : Break(c) \/ Receive(c)

Spec == Init /\ [][Next]_vars

-----------------------------------------------------------------------------
(* Properties.                                                             *)

\* There is no writer exactly while the dialer is on its way to make one:
\* dialling, woken, or about to be woken by the thread that retired the old
\* one.  A retired connection is always replaced, and a token never outlives
\* the connection it is for and closes the next one.
OneToken ==
  LET woken == redial \/ \E t \in Threads \cup {Inbound} : pc[t] = "signal"
  IN  /\ peer = 0 <=> (dialer = "dialing" \/ woken)
      /\ ~(dialer = "dialing" /\ woken)

\* Only the failure of the current connection, or the loss of the connection
\* from the peer, takes the current writer away: a thread whose old connection
\* failed late does not retire the new one.
RetiredRightly ==
  [][peer # 0 /\ peer' = 0 =>
       ~conns[peer].alive \/ pc[Inbound] # pc'[Inbound]]_vars

=============================================================================
