---------------------------- MODULE BusConnProofs ---------------------------
(***************************************************************************)
(* Proofs about the connections of a link, for all batches, all message    *)
(* types and any number of connections and failures.                       *)
(***************************************************************************)
EXTENDS BusConn, SequenceTheorems, TLAPS

-----------------------------------------------------------------------------
(* The invariant.                                                          *)

Steps == {"start", "lock", "write", "retire", "signal", "done"}

Types ==
  /\ \E S : conns \in Seq(S)
  /\ \A c \in DOMAIN conns : {"lock", "buf", "sent", "alive"} \subseteq DOMAIN conns[c]
  /\ peer \in 0 .. Len(conns)
  /\ redial \in BOOLEAN
  /\ dialer \in {"dialing", "waiting"}
  /\ pc \in [Threads \cup {Inbound} -> Steps]
  /\ lw \in [Threads -> 0 .. Len(conns)]
  /\ at \in [Threads -> Nat]

\* A thread that works on a connection took its writer, and one that retires it
\* saw it fail; the reader of the other direction only retires.
Working ==
  /\ \A t \in Threads :
       /\ pc[t] \in {"lock", "write", "retire"} => lw[t] # 0
       /\ pc[t] \in {"start", "lock"} => at[t] = 0
       /\ pc[t] = "retire" => ~conns[lw[t]].alive
  /\ pc[Inbound] \in {"start", "signal", "done"}

\* OneToken, and of the ways in which the dialer is woken there is one at a time.
Token ==
  /\ OneToken
  /\ redial => \A t \in Threads \cup {Inbound} : pc[t] # "signal"
  /\ \A t, u \in Threads \cup {Inbound} : pc[t] = "signal" /\ pc[u] = "signal" => t = u
  /\ dialer = "waiting" => conns # <<>>

\* The writes a thread has made of its batch.
FirstWrites(t, n) == [i \in 1 .. n |-> <<t, i>>]
Started(t) == FirstWrites(t, at[t])

\* Whoever writes holds the lock; a connection that has not failed has in its
\* buffer what the holder has written, and nothing between two holders.
Buffered(c) ==
  conns[c].alive =>
    \/ conns[c].lock = Nobody /\ conns[c].buf = <<>>
    \/ \E t \in Threads : /\ conns[c].lock = t /\ conns[c].buf = Started(t)
                          /\ pc[t] = "write" /\ lw[t] = c

Buffers ==
  /\ \A t \in Threads : pc[t] = "write" => conns[lw[t]].lock = t
  /\ \A c \in DOMAIN conns : Buffered(c)

\* s is one batch after the other, each from its first to its last write.
Whole(s) ==
  \A i \in DOMAIN s :
    /\ s[i][2] # 1 => i # 1 /\ s[i - 1] = <<s[i][1], s[i][2] - 1>>
    /\ s[i][2] # WriteCount(plan, s[i][1]) => i # Len(s) /\ s[i + 1] = <<s[i][1], s[i][2] + 1>>

Once(s) == \A i, j \in DOMAIN s : s[i] = s[j] => i = j

Good(s) == s \in Seq(Threads \X Nat) /\ Whole(s) /\ Once(s)

\* The batch of a write that was flushed is over, or the flush reports that the
\* connection failed.
Over(c, t) ==
  /\ lw[t] = c
  /\ pc[t] \in {"retire", "signal", "done"} \/ (pc[t] = "write" /\ ~conns[c].alive)

Flown(c) ==
  /\ Good(conns[c].sent)
  /\ \A i \in DOMAIN conns[c].sent : Over(c, conns[c].sent[i][1])

Sents == \A c \in DOMAIN conns : Flown(c)

Inv == Types /\ Working /\ Token /\ Buffers /\ Sents

(***************************************************************************)
(* What was flushed on a connection is a sequence of whole batches, each   *)
(* written once and on one connection: the lock keeps threads from writing *)
(* into each other's messages, and a failed connection takes none of its   *)
(* messages to the next one.                                               *)
(***************************************************************************)
SentWhole ==
  \A c \in DOMAIN conns :
    /\ Whole(conns[c].sent) /\ Once(conns[c].sent)
    /\ \A d \in DOMAIN conns \ {c} :
         \A i \in DOMAIN conns[c].sent, j \in DOMAIN conns[d].sent :
           conns[c].sent[i][1] # conns[d].sent[j][1]

-----------------------------------------------------------------------------
(* Steps that change one connection.                                       *)

LEMMA ChangeOne ==
  ASSUME \E S : conns \in Seq(S), NEW c \in DOMAIN conns, NEW e, conns' = [conns EXCEPT ![c] = e]
  PROVE  /\ \E S : conns' \in Seq(S)
         /\ Len(conns') = Len(conns) /\ DOMAIN conns' = DOMAIN conns
         /\ DOMAIN conns = 1 .. Len(conns)
         /\ conns'[c] = e
         /\ \A d \in DOMAIN conns : d # c => conns'[d] = conns[d]
<1>1. PICK S : conns \in Seq(S)
  OBVIOUS
<1>2. Len(conns) \in Nat /\ conns \in [1 .. Len(conns) -> S]
  BY <1>1
<1>3. conns' \in [1 .. Len(conns) -> S \cup {e}]
  BY <1>2
<1>4. conns' \in Seq(S \cup {e})
  BY <1>2, <1>3
<1>5. Len(conns') = Len(conns)
  BY <1>2, <1>3, <1>4
<1>. QED
  BY <1>1, <1>2, <1>4, <1>5

\* Only c has changed, and this is what became of it.
Becomes(c, lock, buf, sent, alive) ==
  /\ \E S : conns' \in Seq(S)
  /\ Len(conns') = Len(conns) /\ DOMAIN conns' = DOMAIN conns
  /\ {"lock", "buf", "sent", "alive"} \subseteq DOMAIN conns'[c]
  /\ conns'[c].lock = lock /\ conns'[c].buf = buf
  /\ conns'[c].sent = sent /\ conns'[c].alive = alive
  /\ \A d \in DOMAIN conns : d # c => conns'[d] = conns[d]

LEMMA BecomesFrom ==
  ASSUME Types, NEW c \in DOMAIN conns, NEW e, conns' = [conns EXCEPT ![c] = e],
         DOMAIN e = DOMAIN conns[c]
  PROVE  Becomes(c, e.lock, e.buf, e.sent, e.alive)
BY ChangeOne DEF Types, Becomes

LEMMA DomainConns == Types => Len(conns) \in Nat /\ DOMAIN conns = 1 .. Len(conns)
BY DEF Types

LEMMA LockBecomes ==
  ASSUME Types, NEW c \in DOMAIN conns, NEW l, conns' = [conns EXCEPT ![c].lock = l]
  PROVE  Becomes(c, l, conns[c].buf, conns[c].sent, conns[c].alive)
<1>. DEFINE e == [conns[c] EXCEPT !.lock = l]
<1>1. conns' = [conns EXCEPT ![c] = e]
  OBVIOUS
<1>2. /\ DOMAIN e = DOMAIN conns[c] /\ e.lock = l
      /\ e.buf = conns[c].buf /\ e.sent = conns[c].sent /\ e.alive = conns[c].alive
  BY DEF Types
<1>3. Becomes(c, e.lock, e.buf, e.sent, e.alive)
  BY <1>1, <1>2, BecomesFrom
<1>. QED
  BY <1>2, <1>3

LEMMA WriteBecomes ==
  ASSUME Types, NEW t \in Threads, lw[t] \in DOMAIN conns, WritePart(t)
  PROVE  Becomes(lw[t], conns[lw[t]].lock, Append(conns[lw[t]].buf, <<t, at[t] + 1>>),
                 conns[lw[t]].sent, conns[lw[t]].alive)
<1>. DEFINE c == lw[t]
            e == [conns[c] EXCEPT !.buf = Append(conns[c].buf, <<t, at[t] + 1>>)]
<1>1. conns' = [conns EXCEPT ![c] = e]
  BY DEF WritePart
<1>2. /\ DOMAIN e = DOMAIN conns[c] /\ e.lock = conns[c].lock
      /\ e.buf = Append(conns[c].buf, <<t, at[t] + 1>>)
      /\ e.sent = conns[c].sent /\ e.alive = conns[c].alive
  BY DEF Types
<1>. HIDE DEF e
<1>3. Becomes(c, e.lock, e.buf, e.sent, e.alive)
  BY <1>1, <1>2, BecomesFrom
<1>. QED
  BY <1>2, <1>3

LEMMA FlushBecomes ==
  ASSUME Types, NEW t \in Threads, lw[t] \in DOMAIN conns, Flush(t)
  PROVE  Becomes(lw[t], Nobody, <<>>, conns[lw[t]].sent \o conns[lw[t]].buf, conns[lw[t]].alive)
<1>. DEFINE c == lw[t]
            e == [conns[c] EXCEPT !.sent = @ \o conns[c].buf, !.buf = <<>>, !.lock = Nobody]
<1>1. conns' = [conns EXCEPT ![c] = e]
  BY DEF Flush
<1>2. /\ DOMAIN e = DOMAIN conns[c] /\ e.lock = Nobody /\ e.buf = <<>>
      /\ e.sent = conns[c].sent \o conns[c].buf /\ e.alive = conns[c].alive
  BY DEF Types
<1>. HIDE DEF e
<1>3. Becomes(c, e.lock, e.buf, e.sent, e.alive)
  BY <1>1, <1>2, BecomesFrom
<1>. QED
  BY <1>2, <1>3

LEMMA FailsBecomes ==
  ASSUME Types, NEW c \in DOMAIN conns, NEW least, Fails(c, least)
  PROVE  Becomes(c, conns[c].lock, conns[c].buf, Flushed(c), FALSE)
<1>1. PICK k : conns' = [conns EXCEPT ![c].alive = FALSE, ![c].cut = k, ![c].sent = Flushed(c)]
  BY DEF Fails
<1>. DEFINE e == [conns[c] EXCEPT !.alive = FALSE, !.cut = k, !.sent = Flushed(c)]
<1>2. conns' = [conns EXCEPT ![c] = e]
  BY <1>1
<1>3. /\ DOMAIN e = DOMAIN conns[c] /\ e.lock = conns[c].lock
      /\ e.buf = conns[c].buf /\ e.sent = Flushed(c) /\ e.alive = FALSE
  BY DEF Types
<1>. HIDE DEF e
<1>4. Becomes(c, e.lock, e.buf, e.sent, e.alive)
  BY <1>2, <1>3, BecomesFrom
<1>. QED
  BY <1>3, <1>4

\* What the reader does leaves the sender's side alone, but it may end the
\* connection.
LEMMA ReceiveBecomes ==
  ASSUME Types, NEW c \in DOMAIN conns, Receive(c)
  PROVE  \/ Becomes(c, conns[c].lock, conns[c].buf, conns[c].sent, conns[c].alive)
         \/ Becomes(c, conns[c].lock, conns[c].buf, conns[c].sent, FALSE)
<1>1. PICK x : \/ conns' = [conns EXCEPT ![c].pos = x.at,
                                         ![c].got = Append(@, [code |-> x.code, val |-> x.val])]
               \/ conns' = [conns EXCEPT ![c].end = "eof"]
               \/ conns' = [conns EXCEPT ![c].end = x.st, ![c].alive = FALSE,
                                         ![c].cut = IF conns[c].alive THEN conns[c].pos ELSE @]
  BY DEF Receive
<1>2. CASE conns' = [conns EXCEPT ![c].pos = x.at,
                                  ![c].got = Append(@, [code |-> x.code, val |-> x.val])]
  <2>. DEFINE e == [conns[c] EXCEPT !.pos = x.at, 
                                    !.got = Append(@, [code |-> x.code, val |-> x.val])]
  <2>1. conns' = [conns EXCEPT ![c] = e]
    BY <1>2
  <2>2. /\ DOMAIN e = DOMAIN conns[c] /\ e.lock = conns[c].lock
        /\ e.buf = conns[c].buf /\ e.sent = conns[c].sent /\ e.alive = conns[c].alive
    BY DEF Types
  <2>. HIDE DEF e
  <2>3. Becomes(c, e.lock, e.buf, e.sent, e.alive)
    BY <2>1, <2>2, BecomesFrom
  <2>. QED
    BY <2>2, <2>3
<1>3. CASE conns' = [conns EXCEPT ![c].end = "eof"]
  <2>. DEFINE e == [conns[c] EXCEPT !.end = "eof"]
  <2>1. conns' = [conns EXCEPT ![c] = e]
    BY <1>3
  <2>2. /\ DOMAIN e = DOMAIN conns[c] /\ e.lock = conns[c].lock
        /\ e.buf = conns[c].buf /\ e.sent = conns[c].sent /\ e.alive = conns[c].alive
    BY DEF Types
  <2>. HIDE DEF e
  <2>3. Becomes(c, e.lock, e.buf, e.sent, e.alive)
    BY <2>1, <2>2, BecomesFrom
  <2>. QED
    BY <2>2, <2>3
<1>4. CASE conns' = [conns EXCEPT ![c].end = x.st, ![c].alive = FALSE,
                                  ![c].cut = IF conns[c].alive THEN conns[c].pos ELSE @]
  <2>. DEFINE e == [conns[c] EXCEPT !.end = x.st, !.alive = FALSE,
                                    !.cut = IF conns[c].alive THEN conns[c].pos ELSE @]
  <2>1. conns' = [conns EXCEPT ![c] = e]
    BY <1>4
  <2>2. /\ DOMAIN e = DOMAIN conns[c] /\ e.lock = conns[c].lock
        /\ e.buf = conns[c].buf /\ e.sent = conns[c].sent /\ e.alive = FALSE
    BY DEF Types
  <2>. HIDE DEF e
  <2>3. Becomes(c, e.lock, e.buf, e.sent, e.alive)
    BY <2>1, <2>2, BecomesFrom
  <2>. QED
    BY <2>2, <2>3
<1>. QED
  BY <1>1, <1>2, <1>3, <1>4
-----------------------------------------------------------------------------
(* Each step preserves the invariant.                                      *)

\* A step that flushes nothing on c keeps what is known of what was flushed.
LEMMA KeepFlown ==
  ASSUME NEW c \in DOMAIN conns, Flown(c), plan' = plan, conns'[c].sent = conns[c].sent,
         \A t \in Threads : Over(c, t) => Over(c, t)'
  PROVE  Flown(c)'
<1>1. \A i \in DOMAIN conns[c].sent : conns[c].sent[i][1] \in Threads
  BY DEF Flown, Good
<1>2. Good(conns[c].sent)'
  BY DEF Flown, Good, Whole, Once
<1>. QED
  BY <1>1, <1>2 DEF Flown

LEMMA FirstWritesSeq ==
  ASSUME NEW t \in Threads, NEW n \in Nat
  PROVE  FirstWrites(t, n) \in Seq(Threads \X Nat) /\ Len(FirstWrites(t, n)) = n
BY DEF FirstWrites

LEMMA NextWrite ==
  ASSUME NEW t \in Threads, NEW n \in Nat
  PROVE  Append(FirstWrites(t, n), <<t, n + 1>>) = FirstWrites(t, n + 1)
<1>. DEFINE a == Append(FirstWrites(t, n), <<t, n + 1>>)
            b == FirstWrites(t, n + 1)
<1>1. <<t, n + 1>> \in Threads \X Nat
  OBVIOUS
<1>2. /\ a \in Seq(Threads \X Nat) /\ Len(a) = n + 1
      /\ a[n + 1] = <<t, n + 1>>
      /\ \A i \in 1 .. n : a[i] = FirstWrites(t, n)[i]
  <2>. DEFINE f == FirstWrites(t, n)
  <2>1. f \in Seq(Threads \X Nat) /\ Len(f) = n
    BY FirstWritesSeq
  <2>. HIDE DEF f
  <2>2. /\ Append(f, <<t, n + 1>>) \in Seq(Threads \X Nat)
        /\ Len(Append(f, <<t, n + 1>>)) = Len(f) + 1
        /\ \A i \in 1 .. Len(f) : Append(f, <<t, n + 1>>)[i] = f[i]
        /\ Append(f, <<t, n + 1>>)[Len(f) + 1] = <<t, n + 1>>
    BY <1>1, <2>1, AppendProperties
  <2>. QED
    BY <2>1, <2>2 DEF f
<1>3. b \in Seq(Threads \X Nat) /\ Len(b) = n + 1
  BY FirstWritesSeq
<1>4. \A i \in 1 .. n + 1 : b[i] = <<t, i>>
  BY DEF FirstWrites
<1>5. \A i \in 1 .. n : FirstWrites(t, n)[i] = <<t, i>>
  BY DEF FirstWrites
<1>. HIDE DEF a, b
<1>6. \A i \in 1 .. n + 1 : a[i] = b[i]
  <2>. TAKE i \in 1 .. n + 1
  <2>1. i \in 1 .. n \/ i = n + 1
    OBVIOUS
  <2>. QED
    BY <1>2, <1>4, <1>5, <2>1
<1>7. a = b
  BY <1>2, <1>3, <1>6, SeqEqual
<1>. QED
  BY <1>7 DEF a, b

LEMMA TakeWriterStep ==
  ASSUME Inv, NEW t \in Threads, TakeWriter(t)
  PROVE  Inv'
<1>. USE DEF Inv
<1>1. Types'
  BY DEF TakeWriter, Types, Steps
<1>2. Working'
  BY DEF TakeWriter, Types, Working, Steps, Threads, Inbound
<1>3. Token'
  BY DEF TakeWriter, Types, Token, OneToken, Threads, Inbound
<1>4. Buffers'
  <2>1. \A u \in Threads : pc'[u] = "write" => u # t /\ pc[u] = "write" /\ lw'[u] = lw[u]
    BY DEF TakeWriter, Types, Threads, Inbound
  <2>2. \A u \in Threads : u # t => pc'[u] = pc[u] /\ lw'[u] = lw[u]
    BY DEF TakeWriter, Types, Threads, Inbound
  <2>. QED
    BY <2>1, <2>2 DEF TakeWriter, Buffers, Buffered, Started
<1>5. Sents'
  <2>1. \A u \in Threads : \A c : Over(c, u) => u # t /\ Over(c, u)'
    BY DEF TakeWriter, Types, Over, Threads, Inbound
  <2>. QED
    BY <2>1, KeepFlown DEF TakeWriter, Sents
<1>. QED
  BY <1>1, <1>2, <1>3, <1>4, <1>5

LEMMA LockStep ==
  ASSUME Inv, NEW t \in Threads, Lock(t)
  PROVE  Inv'
<1>. USE DEF Inv
<1>0. PICK c \in DOMAIN conns : c = lw[t]
  BY DomainConns DEF Lock, Types, Working
<1>a. Becomes(c, t, conns[c].buf, conns[c].sent, conns[c].alive)
  BY <1>0, LockBecomes DEF Lock
<1>1. Types'
  BY <1>0, <1>a DEF Lock, Types, Becomes, Steps
<1>2. Working'
  <2>1. \A u \in Threads : pc[u] = "retire" => lw[u] \in DOMAIN conns
    BY DomainConns DEF Types, Working
  <2>. QED
    BY <1>0, <1>a, <2>1 DEF Lock, Types, Becomes, Working, Steps, Threads, Inbound
<1>3. Token'
  <2>1. conns' # <<>>
    BY <1>0, <1>a, DomainConns DEF Becomes
  <2>. QED
    BY <2>1 DEF Lock, Types, Token, OneToken, Threads, Inbound
<1>4. Buffers'
  <2>1. \A u \in Threads : u # t => pc'[u] = pc[u]
    BY DEF Lock, Types
  <2>2. pc'[t] = "write" /\ at[t] = 0
    BY DEF Lock, Types, Working
  <2>3. conns[c].alive => conns[c].buf = <<>>
    BY <1>0 DEF Buffers, Buffered, Lock, Nobody, Threads
  <2>4. Started(t)' = <<>>
    BY <2>2 DEF Started, FirstWrites, Lock
  <2>5. Buffered(c)'
    BY <1>0, <1>a, <2>2, <2>3, <2>4 DEF Buffered, Becomes, Lock
  <2>6. \A d \in DOMAIN conns : d # c => Buffered(d)'
    BY <1>0, <1>a, <2>1 DEF Buffers, Buffered, Becomes, Lock, Started
  <2>7. \A u \in Threads : pc[u] = "write" => lw[u] # c /\ lw[u] \in DOMAIN conns
    BY <1>0, DomainConns DEF Buffers, Lock, Types, Working, Nobody, Threads
  <2>8. \A u \in Threads : pc'[u] = "write" => conns'[lw'[u]].lock = u
    BY <1>0, <1>a, <2>1, <2>2, <2>7 DEF Buffers, Becomes, Lock
  <2>. QED
    BY <1>0, <1>a, <2>5, <2>6, <2>8 DEF Buffers, Becomes
<1>5. Sents'
  <2>1. \A u \in Threads, d \in DOMAIN conns : Over(d, u) => u # t /\ Over(d, u)'
    BY <1>0, <1>a DEF Lock, Types, Over, Becomes, Threads, Inbound
  <2>. QED
    BY <1>0, <1>a, <2>1, KeepFlown DEF Lock, Sents, Becomes
<1>. QED
  BY <1>1, <1>2, <1>3, <1>4, <1>5

LEMMA WritePartStep ==
  ASSUME Inv, NEW t \in Threads, WritePart(t)
  PROVE  Inv'
<1>. USE DEF Inv
<1>0. PICK c \in DOMAIN conns : c = lw[t]
  BY DomainConns DEF WritePart, Types, Working
<1>a. Becomes(c, conns[c].lock, Append(conns[c].buf, <<t, at[t] + 1>>),
              conns[c].sent, conns[c].alive)
  BY <1>0, WriteBecomes
<1>1. Types'
  BY <1>0, <1>a DEF WritePart, Types, Becomes, Steps
<1>2. Working'
  <2>1. \A u \in Threads : pc[u] = "retire" => lw[u] \in DOMAIN conns
    BY DomainConns DEF Types, Working
  <2>. QED
    BY <1>0, <1>a, <2>1 DEF WritePart, Types, Becomes, Working, Steps, Threads, Inbound
<1>3. Token'
  <2>1. conns' # <<>>
    BY <1>0, <1>a, DomainConns DEF Becomes
  <2>. QED
    BY <2>1 DEF WritePart, Types, Token, OneToken, Threads, Inbound
<1>4. Buffers'
  <2>1. at[t] \in Nat /\ at'[t] = at[t] + 1 /\ \A u \in Threads : u # t => at'[u] = at[u]
    BY DEF WritePart, Types
  <2>2. conns[c].lock = t
    BY <1>0 DEF Buffers, WritePart
  <2>3. conns[c].alive => conns[c].buf = Started(t)
    BY <1>0, <2>2 DEF Buffers, Buffered, Nobody, Threads
  <2>4. Append(Started(t), <<t, at[t] + 1>>) = Started(t)'
    BY <2>1, NextWrite DEF Started
  <2>5. Buffered(c)'
    BY <1>0, <1>a, <2>2, <2>3, <2>4 DEF Buffered, Becomes, WritePart
  <2>6. \A d \in DOMAIN conns : d # c => Buffered(d)'
    BY <1>0, <1>a, <2>1 DEF Buffers, Buffered, Becomes, WritePart, Started
  <2>7. \A u \in Threads : pc[u] = "write" => lw[u] \in DOMAIN conns
    BY DomainConns DEF Types, Working
  <2>8. \A u \in Threads : pc'[u] = "write" => conns'[lw'[u]].lock = u
    BY <1>0, <1>a, <2>7 DEF Buffers, Becomes, WritePart
  <2>. QED
    BY <1>0, <1>a, <2>5, <2>6, <2>8 DEF Buffers, Becomes
<1>5. Sents'
  <2>1. \A u \in Threads, d \in DOMAIN conns : Over(d, u) => Over(d, u)'
    BY <1>0, <1>a DEF WritePart, Over, Becomes
  <2>. QED
    BY <1>0, <1>a, <2>1, KeepFlown DEF WritePart, Sents, Becomes
<1>. QED
  BY <1>1, <1>2, <1>3, <1>4, <1>5

\* s holds nothing of thread t.
Without(s, t) == \A i \in DOMAIN s : s[i][1] # t

\* b comes from s and from t.
From(b, s, t) == \A i \in DOMAIN b : b[i][1] = t \/ \E j \in DOMAIN s : b[i][1] = s[j][1]

\* A whole batch of a thread that has sent nothing goes behind whole batches.
LEMMA AppendBatch ==
  ASSUME NEW s, Good(s), NEW t \in Threads, Without(s, t), NEW n \in Nat,
         n = WriteCount(plan, t), NEW b, b = s \o FirstWrites(t, n)
  PROVE  Good(b) /\ From(b, s, t)
<1>. USE DEF Good
<1>. DEFINE f == FirstWrites(t, n)
<1>0. b = s \o f
  OBVIOUS
<1>1. f \in Seq(Threads \X Nat) /\ Len(f) = n
  BY FirstWritesSeq
<1>2. \A i \in 1 .. n : f[i] = <<t, i>>
  BY DEF FirstWrites
<1>. HIDE DEF f
<1>3. /\ b \in Seq(Threads \X Nat) /\ Len(b) = Len(s) + n
      /\ \A i \in 1 .. Len(s) + n : b[i] = IF i <= Len(s) THEN s[i] ELSE f[i - Len(s)]
  <2>1. /\ s \o f \in Seq(Threads \X Nat) /\ Len(s \o f) = Len(s) + Len(f)
        /\ \A i \in 1 .. Len(s) + Len(f) :
             (s \o f)[i] = IF i <= Len(s) THEN s[i] ELSE f[i - Len(s)]
    BY <1>1, ConcatProperties
  <2>. QED
    BY <1>0, <1>1, <2>1
<1>4. Len(s) \in Nat /\ DOMAIN s = 1 .. Len(s) /\ DOMAIN b = 1 .. Len(s) + n
  BY <1>3
<1>5. \A i \in 1 .. Len(s) : b[i] = s[i]
  BY <1>3, <1>4
<1>6. \A i \in 1 .. n : b[Len(s) + i] = <<t, i>>
  <2>. TAKE i \in 1 .. n
  <2>1. Len(s) + i \in 1 .. Len(s) + n /\ ~(Len(s) + i <= Len(s)) /\ Len(s) + i - Len(s) = i
    BY <1>4
  <2>2. b[Len(s) + i] = f[Len(s) + i - Len(s)]
    <3>1. PICK k \in 1 .. Len(s) + n : k = Len(s) + i
      BY <2>1
    <3>2. ~(k <= Len(s))
      BY <2>1, <3>1
    <3>3. b[k] = f[k - Len(s)]
      BY <1>3, <3>2
    <3>. QED
      BY <3>1, <3>3
  <2>. QED
    BY <1>2, <2>1, <2>2
<1>7. \A i \in DOMAIN b : i \in 1 .. Len(s) \/ \E k \in 1 .. n : i = Len(s) + k
  <2>. SUFFICES ASSUME NEW i \in DOMAIN b, i \notin 1 .. Len(s)
                PROVE  \E k \in 1 .. n : i = Len(s) + k
    OBVIOUS
  <2>1. i - Len(s) \in 1 .. n /\ i = Len(s) + (i - Len(s))
    BY <1>4
  <2>. QED
    BY <2>1
<1>8. Whole(b)
  <2>. SUFFICES ASSUME NEW i \in DOMAIN b
                PROVE  /\ b[i][2] # 1 => i # 1 /\ b[i - 1] = <<b[i][1], b[i][2] - 1>>
                       /\ b[i][2] # WriteCount(plan, b[i][1])
                            => i # Len(b) /\ b[i + 1] = <<b[i][1], b[i][2] + 1>>
    BY DEF Whole
  <2>1. CASE i \in 1 .. Len(s)
    <3>1. b[i] = s[i] /\ i \in DOMAIN s
      BY <1>4, <1>5, <2>1
    <3>2. s[i][2] # 1 => i # 1 /\ s[i - 1] = <<s[i][1], s[i][2] - 1>>
      BY <3>1 DEF Whole
    <3>3. s[i][2] # WriteCount(plan, s[i][1])
            => i # Len(s) /\ s[i + 1] = <<s[i][1], s[i][2] + 1>>
      BY <3>1 DEF Whole
    <3>4. i # 1 => b[i - 1] = s[i - 1]
      BY <1>4, <1>5, <2>1
    <3>5. i # Len(s) => b[i + 1] = s[i + 1] /\ i # Len(b)
      <4>1. i # Len(s) => i + 1 \in 1 .. Len(s) /\ i # Len(s) + n
        BY <1>4, <2>1
      <4>. QED
        BY <1>3, <1>5, <4>1
    <3>. QED
      BY <3>1, <3>2, <3>3, <3>4, <3>5
  <2>2. ASSUME NEW k \in 1 .. n, i = Len(s) + k
        PROVE  /\ b[i][2] # 1 => i # 1 /\ b[i - 1] = <<b[i][1], b[i][2] - 1>>
               /\ b[i][2] # WriteCount(plan, b[i][1])
                    => i # Len(b) /\ b[i + 1] = <<b[i][1], b[i][2] + 1>>
    <3>1. b[i] = <<t, k>> /\ b[i][1] = t /\ b[i][2] = k
      <4>1. b[Len(s) + k] = <<t, k>>
        BY <1>6
      <4>. QED
        BY <2>2, <4>1
    <3>2. k # 1 => i # 1 /\ k - 1 \in 1 .. n /\ i - 1 = Len(s) + (k - 1)
      BY <1>4, <2>2
    <3>3. k # 1 => b[i - 1] = <<t, k - 1>>
      BY <1>6, <3>2
    <3>4. k # n => i # Len(b) /\ k + 1 \in 1 .. n /\ i + 1 = Len(s) + (k + 1)
      BY <1>3, <1>4, <2>2
    <3>5. k # n => b[i + 1] = <<t, k + 1>>
      BY <1>6, <3>4
    <3>. QED
      BY <3>1, <3>2, <3>3, <3>4, <3>5
  <2>. QED
    BY <1>7, <2>1, <2>2
<1>9. \A i \in DOMAIN b : b[i][1] = t \/ \E j \in DOMAIN s : b[i][1] = s[j][1]
  BY <1>4, <1>5, <1>6, <1>7
<1>10. Once(b)
  <2>. SUFFICES ASSUME NEW i \in DOMAIN b, NEW j \in DOMAIN b, b[i] = b[j] PROVE i = j
    BY DEF Once
  <2>1. CASE i \in 1 .. Len(s) /\ j \in 1 .. Len(s)
    BY <1>4, <1>5, <2>1 DEF Once
  <2>2. ASSUME NEW k \in 1 .. n, NEW l \in 1 .. n, i = Len(s) + k, j = Len(s) + l PROVE i = j
    <3>1. b[Len(s) + k] = <<t, k>> /\ b[Len(s) + l] = <<t, l>>
      BY <1>6
    <3>2. <<t, k>> = <<t, l>>
      BY <2>2, <3>1
    <3>. QED
      BY <2>2, <3>2
  <2>3. ASSUME NEW x \in 1 .. Len(s), NEW k \in 1 .. n PROVE b[x] # b[Len(s) + k]
    <3>1. b[Len(s) + k] = <<t, k>> /\ b[Len(s) + k][1] = t
      <4>1. b[Len(s) + k] = <<t, k>>
        BY <1>6
      <4>. QED
        BY <4>1
    <3>2. b[x][1] # t
      BY <1>4, <1>5 DEF Without
    <3>. QED
      BY <3>1, <3>2
  <2>. QED
    BY <1>7, <2>1, <2>2, <2>3
<1>. QED
  BY <1>3, <1>8, <1>9, <1>10 DEF From

\* The batch that thread t has written is flushed.
LEMMA AddFlown ==
  ASSUME Inv, NEW t \in Threads, NEW c \in DOMAIN conns, c = lw[t], conns[c].alive, Written(t),
         plan' = plan, conns'[c].sent = conns[c].sent \o conns[c].buf,
         \A u \in Threads : Over(c, u) => Over(c, u)', Over(c, t)'
  PROVE  Flown(c)'
<1>0. conns[c].buf = Started(t) /\ at[t] \in Nat
  BY DEF Inv, Written, Types, Buffers, Buffered, Nobody, Threads
<1>1. PICK s : s = conns[c].sent
  OBVIOUS
<1>2. Good(s) /\ \A i \in DOMAIN s : Over(c, s[i][1])
  BY <1>1 DEF Inv, Sents, Flown
<1>3. Without(s, t)
  BY <1>2 DEF Without, Over, Written
<1>4. PICK b : b = s \o FirstWrites(t, at[t])
  OBVIOUS
<1>5. Good(b) /\ From(b, s, t)
  BY <1>0, <1>2, <1>3, <1>4, AppendBatch DEF Written
<1>6. conns'[c].sent = b
  BY <1>0, <1>1, <1>4 DEF Started
<1>7. \A i \in DOMAIN b : Over(c, b[i][1])'
  <2>1. \A j \in DOMAIN s : s[j][1] \in Threads
    BY <1>2 DEF Good
  <2>. QED
    BY <1>2, <1>5, <2>1 DEF From
<1>8. Good(conns[c].sent)'
  BY <1>5, <1>6 DEF Good, Whole, Once
<1>. QED
  BY <1>6, <1>7, <1>8 DEF Flown

LEMMA FlushStep ==
  ASSUME Inv, NEW t \in Threads, Flush(t)
  PROVE  Inv'
<1>. USE DEF Inv
<1>0. PICK c \in DOMAIN conns : c = lw[t]
  BY DomainConns DEF Flush, Written, Types, Working
<1>a. Becomes(c, Nobody, <<>>, conns[c].sent \o conns[c].buf, conns[c].alive)
  BY <1>0, FlushBecomes
<1>b. /\ pc[t] = "write" /\ at[t] = WriteCount(plan, t) /\ conns[c].alive
      /\ pc' = [pc EXCEPT ![t] = "done"]
      /\ UNCHANGED <<plan, peer, redial, dialer, lw, at, breaks>>
  BY <1>0 DEF Flush, Written
<1>1. Types'
  BY <1>a, <1>b DEF Types, Becomes, Steps
<1>2. Working'
  <2>1. \A u \in Threads : pc[u] = "retire" => lw[u] \in DOMAIN conns
    BY DomainConns DEF Types, Working
  <2>. QED
    BY <1>a, <1>b, <2>1 DEF Types, Becomes, Working, Steps, Threads, Inbound
<1>3. Token'
  <2>1. conns' # <<>>
    BY <1>0, <1>a, DomainConns DEF Becomes
  <2>. QED
    BY <1>b, <2>1 DEF Types, Token, OneToken, Threads, Inbound
<1>4. conns[c].lock = t /\ conns[c].buf = Started(t)
  BY <1>0, <1>b DEF Buffers, Buffered, Nobody, Threads
<1>5. \A u \in Threads : u # t => pc'[u] = pc[u]
  BY <1>b DEF Types
<1>6. Buffers'
  <2>1. Buffered(c)'
    BY <1>a DEF Buffered, Becomes
  <2>2. \A d \in DOMAIN conns : d # c => Buffered(d)'
    BY <1>0, <1>a, <1>b, <1>5 DEF Buffers, Buffered, Becomes, Started
  <2>3. \A u \in Threads : pc'[u] = "write" => u # t /\ lw[u] # c /\ lw[u] \in DOMAIN conns
    BY <1>b, <1>4, <1>5, DomainConns DEF Buffers, Types, Working
  <2>4. \A u \in Threads : pc'[u] = "write" => conns'[lw'[u]].lock = u
    BY <1>a, <1>b, <1>5, <2>3 DEF Buffers, Becomes
  <2>. QED
    BY <1>a, <2>1, <2>2, <2>4 DEF Buffers, Becomes
<1>7. Sents'
  <2>1. \A u \in Threads, d \in DOMAIN conns : Over(d, u) => Over(d, u)'
    BY <1>a, <1>b, <1>5 DEF Types, Over, Becomes
  <2>2. \A d \in DOMAIN conns : d # c => Flown(d)'
    BY <1>a, <1>b, <2>1, KeepFlown DEF Sents, Becomes
  <2>3. Over(c, t)'
    BY <1>0, <1>b DEF Over, Types
  <2>4. Flown(c)'
    BY <1>0, <1>a, <1>b, <2>1, <2>3, AddFlown DEF Becomes, Written
  <2>. QED
    BY <1>a, <2>2, <2>4 DEF Sents, Becomes
<1>. QED
  BY <1>1, <1>2, <1>3, <1>6, <1>7

LEMMA SendFailsStep ==
  ASSUME Inv, NEW t \in Threads, SendFails(t)
  PROVE  Inv'
<1>. USE DEF Inv
<1>0. PICK c \in DOMAIN conns : c = lw[t]
  BY DomainConns DEF SendFails, Types, Working
<1>a. Becomes(c, Nobody, conns[c].buf, conns[c].sent, conns[c].alive)
  BY <1>0, LockBecomes DEF SendFails
<1>b. /\ pc[t] = "write" /\ ~conns[c].alive
      /\ pc' = [pc EXCEPT ![t] = IF plan.redials THEN "retire" ELSE "done"]
      /\ UNCHANGED <<plan, peer, redial, dialer, lw, at, breaks>>
  BY <1>0 DEF SendFails
<1>1. Types'
  BY <1>a, <1>b DEF Types, Becomes, Steps
<1>2. Working'
  <2>1. \A u \in Threads : pc[u] = "retire" => lw[u] \in DOMAIN conns
    BY DomainConns DEF Types, Working
  <2>2. lw[t] # 0
    BY <1>b DEF Working
  <2>. QED
    BY <1>0, <1>a, <1>b, <2>1, <2>2 DEF Types, Becomes, Working, Steps, Threads, Inbound
<1>3. Token'
  <2>1. conns' # <<>>
    BY <1>0, <1>a, DomainConns DEF Becomes
  <2>. QED
    BY <1>b, <2>1 DEF Types, Token, OneToken, Threads, Inbound
<1>4. \A u \in Threads : u # t => pc'[u] = pc[u]
  BY <1>b DEF Types
<1>5. pc'[t] \in {"retire", "done"}
  BY <1>b DEF Types
<1>6. Buffers'
  <2>1. Buffered(c)'
    BY <1>a, <1>b DEF Buffered, Becomes
  <2>2. \A d \in DOMAIN conns : d # c => Buffered(d)'
    BY <1>0, <1>a, <1>b, <1>4 DEF Buffers, Buffered, Becomes, Started
  <2>3. conns[c].lock = t
    BY <1>0, <1>b DEF Buffers
  <2>4. \A u \in Threads : pc'[u] = "write" => u # t /\ lw[u] # c /\ lw[u] \in DOMAIN conns
    BY <1>4, <1>5, <2>3, DomainConns DEF Buffers, Types, Working
  <2>5. \A u \in Threads : pc'[u] = "write" => conns'[lw'[u]].lock = u
    BY <1>a, <1>b, <1>4, <2>4 DEF Buffers, Becomes
  <2>. QED
    BY <1>a, <2>1, <2>2, <2>5 DEF Buffers, Becomes
<1>7. Sents'
  <2>1. \A u \in Threads, d \in DOMAIN conns : Over(d, u) => Over(d, u)'
    BY <1>a, <1>b, <1>4, <1>5 DEF Types, Over, Becomes
  <2>. QED
    BY <1>a, <1>b, <2>1, KeepFlown DEF Sents, Becomes
<1>. QED
  BY <1>1, <1>2, <1>3, <1>6, <1>7

\* Steps that only move a thread past its writing leave the connections alone.
LEMMA KeepConns ==
  ASSUME Inv, NEW t \in Threads \cup {Inbound}, NEW p \in {"signal", "done"},
         t \in Threads => pc[t] \in {"retire", "signal"},
         pc' = [pc EXCEPT ![t] = p], UNCHANGED <<plan, conns, lw, at>>
  PROVE  Working' /\ Buffers' /\ Sents'
<1>. USE DEF Inv
<1>1. \A u \in Threads : u # t => pc'[u] = pc[u]
  BY DEF Types
<1>2. \A u \in Threads : u = t => pc'[u] = p /\ pc[u] \in {"retire", "signal"}
  BY DEF Types
<1>3. Working'
  <2>1. pc'[Inbound] \in {"start", "signal", "done"}
    BY DEF Types, Working
  <2>. QED
    BY <1>1, <1>2, <2>1 DEF Working
<1>4. Buffers'
  <2>1. \A u \in Threads : pc'[u] = "write" <=> pc[u] = "write"
    BY <1>1, <1>2
  <2>. QED
    BY <2>1 DEF Buffers, Buffered, Started
<1>5. Sents'
  <2>1. \A u \in Threads, d \in DOMAIN conns : Over(d, u) => Over(d, u)'
    BY <1>1, <1>2 DEF Over
  <2>. QED
    BY <2>1, KeepFlown DEF Sents
<1>. QED
  BY <1>3, <1>4, <1>5

\* retirePeer, by a thread or by the reader of the other direction.
LEMMA RetirePeerStep ==
  ASSUME Inv, NEW t \in Threads \cup {Inbound}, NEW old, retirePeer(t, old),
         pc[t] = IF t = Inbound THEN "start" ELSE "retire",
         UNCHANGED <<plan, conns, redial, dialer, lw, at>>
  PROVE  Inv'
<1>. USE DEF Inv
<1>1. /\ peer' \in {0, peer}
      /\ pc' = [pc EXCEPT ![t] = IF peer # peer' THEN "signal" ELSE "done"]
  BY DEF retirePeer
<1>2. Types'
  BY <1>1, DomainConns DEF Types, Steps
<1>3. Working' /\ Buffers' /\ Sents'
  <2>1. PICK p \in {"signal", "done"} : pc' = [pc EXCEPT ![t] = p]
    BY <1>1
  <2>2. t \in Threads => pc[t] \in {"retire", "signal"}
    BY DEF Threads, Inbound
  <2>. QED
    BY <2>1, <2>2, KeepConns
<1>4. Token'
  <2>1. CASE peer' = peer
    <3>1. pc' = [pc EXCEPT ![t] = "done"]
      BY <1>1, <2>1
    <3>2. \A u \in Threads \cup {Inbound} : pc'[u] = "signal" <=> pc[u] = "signal"
      BY <3>1 DEF Types
    <3>. QED
      BY <2>1, <3>2 DEF Token, OneToken
  <2>2. CASE peer' # peer
    <3>1. peer # 0 /\ peer' = 0 /\ pc' = [pc EXCEPT ![t] = "signal"]
      BY <1>1, <2>2
    <3>2. dialer # "dialing" /\ ~redial /\ \A u \in Threads \cup {Inbound} : pc[u] # "signal"
      BY <3>1 DEF Token, OneToken
    <3>3. pc'[t] = "signal" /\ \A u \in Threads \cup {Inbound} : pc'[u] = "signal" => u = t
      BY <3>1, <3>2 DEF Types
    <3>. QED
      BY <3>1, <3>2, <3>3 DEF Token, OneToken
  <2>. QED
    BY <2>1, <2>2
<1>. QED
  BY <1>2, <1>3, <1>4

LEMMA SignalStep ==
  ASSUME Inv, NEW t \in Threads \cup {Inbound}, SignalRedial(t)
  PROVE  Inv'
<1>. USE DEF Inv
<1>1. Types'
  BY DEF SignalRedial, Types, Steps
<1>2. Working' /\ Buffers' /\ Sents'
  BY KeepConns DEF SignalRedial
<1>3. \A u \in Threads \cup {Inbound} : pc'[u] # "signal"
  BY DEF SignalRedial, Types, Token
<1>4. peer = 0 /\ dialer # "dialing"
  BY DEF SignalRedial, Token, OneToken
<1>5. Token'
  BY <1>3, <1>4 DEF SignalRedial, Token, OneToken
<1>. QED
  BY <1>1, <1>2, <1>5

LEMMA DialStep ==
  ASSUME Inv, Dial
  PROVE  Inv'
<1>. USE DEF Inv
<1>1. /\ \E S : conns' \in Seq(S)
      /\ Len(conns') = Len(conns) + 1 /\ DOMAIN conns' = 1 .. Len(conns) + 1
      /\ conns'[Len(conns) + 1] = NewConn
      /\ \A c \in DOMAIN conns : conns'[c] = conns[c]
  <2>1. PICK S : conns \in Seq(S)
    BY DEF Types
  <2>2. conns \in Seq(S \cup {NewConn}) /\ NewConn \in S \cup {NewConn}
    BY <2>1, SeqMonotonic
  <2>3. conns' = Append(conns, NewConn)
    BY DEF Dial
  <2>. HIDE DEF NewConn
  <2>4. /\ Append(conns, NewConn) \in Seq(S \cup {NewConn})
        /\ Len(Append(conns, NewConn)) = Len(conns) + 1
        /\ \A i \in 1 .. Len(conns) : Append(conns, NewConn)[i] = conns[i]
        /\ Append(conns, NewConn)[Len(conns) + 1] = NewConn
    BY <2>2, AppendProperties
  <2>5. Len(conns) \in Nat /\ DOMAIN conns = 1 .. Len(conns)
    BY DomainConns
  <2>. QED
    BY <2>3, <2>4, <2>5
<1>2. Len(conns) \in Nat /\ DOMAIN conns = 1 .. Len(conns)
  BY DomainConns
<1>3. \A c \in DOMAIN conns' : c \in DOMAIN conns \/ c = Len(conns) + 1
  BY <1>1, <1>2
<1>4. /\ {"lock", "buf", "sent", "alive"} \subseteq DOMAIN NewConn
      /\ NewConn.lock = Nobody /\ NewConn.buf = <<>> /\ NewConn.sent = <<>>
  BY DEF NewConn
<1>5. Types'
  <2>1. \A c \in DOMAIN conns' : {"lock", "buf", "sent", "alive"} \subseteq DOMAIN conns'[c]
    BY <1>1, <1>3, <1>4 DEF Types
  <2>2. peer' \in 0 .. Len(conns') /\ 0 .. Len(conns) \subseteq 0 .. Len(conns')
    BY <1>1, <1>2 DEF Dial
  <2>. QED
    BY <1>1, <2>1, <2>2 DEF Dial, Types
<1>6. Working'
  <2>1. \A u \in Threads : pc[u] = "retire" => lw[u] \in DOMAIN conns
    BY <1>2 DEF Types, Working
  <2>. QED
    BY <1>1, <2>1 DEF Dial, Working
<1>7. Token'
  <2>1. peer' # 0 /\ conns' # <<>>
    BY <1>1, <1>2 DEF Dial
  <2>. QED
    BY <2>1 DEF Dial, Token, OneToken
<1>8. Buffers'
  <2>1. \A c \in DOMAIN conns : Buffered(c)'
    BY <1>1 DEF Dial, Buffers, Buffered, Started
  <2>2. \A c : c = Len(conns) + 1 => Buffered(c)'
    BY <1>1, <1>4 DEF Buffered
  <2>3. \A u \in Threads : pc[u] = "write" => lw[u] \in DOMAIN conns
    BY <1>2 DEF Types, Working
  <2>4. \A u \in Threads : pc'[u] = "write" => conns'[lw'[u]].lock = u
    BY <1>1, <2>3 DEF Dial, Buffers
  <2>. QED
    BY <1>3, <2>1, <2>2, <2>4 DEF Buffers
<1>9. Sents'
  <2>1. \A u \in Threads, c \in DOMAIN conns : Over(c, u) => Over(c, u)'
    BY <1>1 DEF Dial, Over
  <2>2. \A c \in DOMAIN conns : Flown(c)'
    BY <1>1, <2>1, KeepFlown DEF Dial, Sents
  <2>3. \A c : c = Len(conns) + 1 => Flown(c)'
    <3>. SUFFICES ASSUME NEW c, c = Len(conns) + 1 PROVE Flown(c)'
      OBVIOUS
    <3>1. conns'[c].sent = <<>>
      BY <1>1, <1>4
    <3>2. <<>> \in Seq(Threads \X Nat) /\ DOMAIN <<>> = {}
      OBVIOUS
    <3>. QED
      BY <3>1, <3>2 DEF Flown, Good, Whole, Once
  <2>. QED
    BY <1>3, <2>2, <2>3 DEF Sents
<1>. QED
  BY <1>5, <1>6, <1>7, <1>8, <1>9

\* Connection c fails, or its reader goes on: of the sender's side changes at
\* most that writes get through while they are flushed.
LEMMA ConnStep ==
  ASSUME Inv, NEW c \in DOMAIN conns, NEW s, NEW a, a = FALSE \/ a = conns[c].alive,
         Becomes(c, conns[c].lock, conns[c].buf, s, a),
         s = conns[c].sent \/ (conns[c].alive /\ ~a /\ s = Flushed(c)),
         UNCHANGED <<plan, pc, lw, at>>
  PROVE  Working' /\ Buffers' /\ Sents'
<1>. USE DEF Inv
<1>1. \A u \in Threads : pc[u] \in {"write", "retire"} => lw[u] \in DOMAIN conns
  BY DomainConns DEF Types, Working
<1>2. Working'
  BY <1>1 DEF Becomes, Working
<1>3. Buffers'
  <2>1. Buffered(c)'
    <3>1. conns'[c].alive => conns[c].alive
      BY DEF Becomes
    <3>2. conns'[c].lock = conns[c].lock /\ conns'[c].buf = conns[c].buf
      BY DEF Becomes
    <3>3. \A t \in Threads : Started(t)' = Started(t)
      BY DEF Started
    <3>. QED
      BY <3>1, <3>2, <3>3 DEF Buffers, Buffered
  <2>2. \A d \in DOMAIN conns : d # c => Buffered(d)'
    BY DEF Becomes, Buffers, Buffered, Started
  <2>3. \A u \in Threads : pc'[u] = "write" => conns'[lw'[u]].lock = u
    BY <1>1 DEF Becomes, Buffers
  <2>. QED
    BY <2>1, <2>2, <2>3 DEF Buffers, Becomes
<1>4. Sents'
  <2>1. \A u \in Threads, d \in DOMAIN conns : Over(d, u) => Over(d, u)'
    BY DEF Becomes, Over
  <2>2. \A d \in DOMAIN conns : d # c => Flown(d)'
    BY <2>1, KeepFlown DEF Becomes, Sents
  <2>3. CASE s = conns[c].sent
    BY <2>1, <2>3, KeepFlown DEF Becomes, Sents
  <2>4. CASE conns[c].alive /\ ~a /\ s = Flushed(c) /\ s # conns[c].sent
    <3>1. PICK t \in Threads : lw[t] = c /\ Written(t) /\ s = conns[c].sent \o conns[c].buf
      BY <2>4 DEF Flushed
    <3>2. Over(c, t)'
      BY <2>4, <3>1 DEF Over, Written, Becomes
    <3>. QED
      BY <2>1, <2>2, <2>4, <3>1, <3>2, AddFlown DEF Becomes, Sents
  <2>. QED
    BY <2>3, <2>4
<1>. QED
  BY <1>2, <1>3, <1>4

LEMMA BreakStep ==
  ASSUME Inv, NEW c \in DOMAIN conns, Break(c)
  PROVE  Inv'
<1>. USE DEF Inv
<1>1. Becomes(c, conns[c].lock, conns[c].buf, Flushed(c), FALSE)
  BY FailsBecomes DEF Break
<1>2. Working' /\ Buffers' /\ Sents'
  BY <1>1, ConnStep DEF Break
<1>3. Types'
  BY <1>1 DEF Break, Types, Becomes
<1>4. Token'
  <2>1. conns' # <<>>
    BY <1>1, DomainConns DEF Becomes
  <2>. QED
    BY <2>1 DEF Break, Token, OneToken
<1>. QED
  BY <1>2, <1>3, <1>4

LEMMA ReceiveStep ==
  ASSUME Inv, NEW c \in DOMAIN conns, Receive(c)
  PROVE  Inv'
<1>. USE DEF Inv
<1>1. PICK a : /\ a = FALSE \/ a = conns[c].alive
               /\ Becomes(c, conns[c].lock, conns[c].buf, conns[c].sent, a)
  BY ReceiveBecomes
<1>2. Working' /\ Buffers' /\ Sents'
  BY <1>1, ConnStep DEF Receive
<1>b. UNCHANGED <<plan, peer, redial, dialer, pc, lw, at, breaks>>
  BY DEF Receive
<1>3. Types'
  BY <1>1, <1>b DEF Types, Becomes
<1>4. Token'
  <2>1. conns' # <<>>
    BY <1>1, DomainConns DEF Becomes
  <2>. QED
    BY <2>1 DEF Receive, Token, OneToken
<1>. QED
  BY <1>2, <1>3, <1>4

LEMMA CloseStep ==
  ASSUME Inv, CloseRetired
  PROVE  Inv'
<1>. USE DEF Inv
<1>1. PICK c \in DOMAIN conns : c = Len(conns)
  BY DomainConns DEF CloseRetired, Token, Types
<1>2. \/ UNCHANGED conns
      \/ conns[c].alive /\ Becomes(c, conns[c].lock, conns[c].buf, Flushed(c), FALSE)
  BY <1>1, FailsBecomes DEF CloseRetired
<1>3. /\ Working' /\ Buffers' /\ Sents'
      /\ Len(conns') = Len(conns) /\ (\E S : conns' \in Seq(S)) /\ conns' # <<>>
      /\ \A d \in DOMAIN conns' : {"lock", "buf", "sent", "alive"} \subseteq DOMAIN conns'[d]
  <2>1. CASE UNCHANGED conns
    <3>1. \A u \in Threads, d \in DOMAIN conns : Over(d, u) => Over(d, u)'
      BY <2>1 DEF CloseRetired, Over
    <3>2. Sents'
      BY <2>1, <3>1, KeepFlown DEF CloseRetired, Sents
    <3>3. Working' /\ Buffers'
      BY <2>1 DEF CloseRetired, Working, Buffers, Buffered, Started
    <3>. QED
      BY <1>1, <2>1, <3>2, <3>3 DEF Types
  <2>2. CASE conns[c].alive /\ Becomes(c, conns[c].lock, conns[c].buf, Flushed(c), FALSE)
    <3>1. Working' /\ Buffers' /\ Sents'
      BY <2>2, ConnStep DEF CloseRetired
    <3>2. conns' # <<>>
      BY <1>1, <2>2, DomainConns DEF Becomes
    <3>. QED
      BY <2>2, <3>1, <3>2 DEF Becomes, Types
  <2>. QED
    BY <1>2, <2>1, <2>2
<1>4. Types'
  BY <1>3 DEF CloseRetired, Types
<1>5. Token'
  BY <1>3 DEF CloseRetired, Token, OneToken
<1>. QED
  BY <1>3, <1>4, <1>5

-----------------------------------------------------------------------------
(* The theorems.                                                           *)

LEMMA InitInv == Init => Inv
<1>. SUFFICES ASSUME Init PROVE Inv
  OBVIOUS
<1>1. conns = <<>> /\ conns \in Seq({}) /\ Len(conns) = 0 /\ DOMAIN conns = {}
  BY DEF Init
<1>2. Types
  <2>1. pc \in [Threads \cup {Inbound} -> Steps] /\ lw \in [Threads -> 0 .. Len(conns)]
    BY <1>1 DEF Init, Steps
  <2>2. \E S : conns \in Seq(S)
    BY <1>1
  <2>3. peer \in 0 .. Len(conns) /\ at \in [Threads -> Nat]
    BY <1>1 DEF Init
  <2>4. redial \in BOOLEAN /\ dialer \in {"dialing", "waiting"}
    BY DEF Init
  <2>5. \A c \in DOMAIN conns : {"lock", "buf", "sent", "alive"} \subseteq DOMAIN conns[c]
    BY <1>1
  <2>. QED
    BY <2>1, <2>2, <2>3, <2>4, <2>5 DEF Types
<1>3. Working /\ Token
  BY DEF Init, Working, Token, OneToken, Threads, Inbound
<1>4. Buffers /\ Sents
  BY <1>1 DEF Init, Buffers, Sents, Threads
<1>. QED
  BY <1>2, <1>3, <1>4 DEF Inv

LEMMA NextInv == Inv /\ [Next]_vars => Inv'
<1>. SUFFICES ASSUME Inv, [Next]_vars PROVE Inv'
  OBVIOUS
<1>1. ASSUME NEW t \in Threads, TakeWriter(t) PROVE Inv'
  BY <1>1, TakeWriterStep
<1>2. ASSUME NEW t \in Threads, Lock(t) PROVE Inv'
  BY <1>2, LockStep
<1>3. ASSUME NEW t \in Threads, WritePart(t) PROVE Inv'
  BY <1>3, WritePartStep
<1>4. ASSUME NEW t \in Threads, Flush(t) PROVE Inv'
  BY <1>4, FlushStep
<1>5. ASSUME NEW t \in Threads, SendFails(t) PROVE Inv'
  BY <1>5, SendFailsStep
<1>6. ASSUME NEW t \in Threads, Retire(t) PROVE Inv'
  BY <1>6, RetirePeerStep DEF Retire, Threads, Inbound
<1>7. ASSUME NEW t \in Threads \cup {Inbound}, SignalRedial(t) PROVE Inv'
  BY <1>7, SignalStep
<1>8. CASE ConnLost
  BY <1>8, RetirePeerStep DEF ConnLost
<1>9. CASE Dial
  BY <1>9, DialStep
<1>10. CASE CloseRetired
  BY <1>10, CloseStep
<1>11. ASSUME NEW c \in DOMAIN conns, Break(c) PROVE Inv'
  BY <1>11, BreakStep
<1>12. ASSUME NEW c \in DOMAIN conns, Receive(c) PROVE Inv'
  BY <1>12, ReceiveStep
<1>13. CASE UNCHANGED vars
  <2>1. UNCHANGED <<plan, conns, peer, redial, dialer, pc, lw, at, breaks>>
    BY <1>13 DEF vars
  <2>2. \A u \in Threads, d \in DOMAIN conns : Over(d, u) => Over(d, u)'
    BY <2>1 DEF Over
  <2>3. Sents'
    BY <2>1, <2>2, KeepFlown DEF Inv, Sents
  <2>. QED
    BY <2>1, <2>3 DEF Inv, Types, Working, Token, OneToken, Buffers, Buffered, Started
<1>. QED
  BY <1>1, <1>2, <1>3, <1>4, <1>5, <1>6, <1>7, <1>8, <1>9, <1>10, <1>11, <1>12, <1>13 DEF Next

\* The invariant holds of the connections of every link.
THEOREM Invariance == Spec => []Inv
BY InitInv, NextInv, PTL DEF Spec

\* There is no writer exactly while the dialer is on its way to make one, and
\* no token outlives the connection it is for: retirePeer and dialPeer.
THEOREM OneTokenAlways == Spec => []OneToken
<1>1. Inv => OneToken
  BY DEF Inv, Token
<1>. QED
  BY Invariance, <1>1, PTL

\* The lock of a lockedWriter keeps batches whole, and a batch is on one
\* connection only: sendMsg, sendRawBatch and the redial of a failed peer.
THEOREM BatchesStayWhole == Spec => []SentWhole
<1>1. Inv => SentWhole
  <2>. SUFFICES ASSUME Inv, NEW c \in DOMAIN conns
                PROVE  /\ Whole(conns[c].sent) /\ Once(conns[c].sent)
                       /\ \A d \in DOMAIN conns \ {c} :
                            \A i \in DOMAIN conns[c].sent, j \in DOMAIN conns[d].sent :
                              conns[c].sent[i][1] # conns[d].sent[j][1]
    BY DEF SentWhole
  <2>1. \A d \in DOMAIN conns : Good(conns[d].sent)
    BY DEF Inv, Sents, Flown
  <2>2. \A d \in DOMAIN conns : \A j \in DOMAIN conns[d].sent : lw[conns[d].sent[j][1]] = d
    BY DEF Inv, Sents, Flown, Over
  <2>3. \A d \in DOMAIN conns \ {c} :
          \A i \in DOMAIN conns[c].sent, j \in DOMAIN conns[d].sent :
            conns[c].sent[i][1] # conns[d].sent[j][1]
    BY <2>2
  <2>4. Whole(conns[c].sent) /\ Once(conns[c].sent)
    BY <2>1 DEF Good
  <2>. QED
    BY <2>3, <2>4
<1>. QED
  BY Invariance, <1>1, PTL

\* Only a failure of the current connection, or of the one in the other
\* direction, takes the current writer away: retirePeer's comparison.
THEOREM RetiresRightly == Spec => RetiredRightly
<1>. DEFINE A == peer # 0 /\ peer' = 0 => ~conns[peer].alive \/ pc[Inbound] # pc'[Inbound]
<1>1. Inv /\ [Next]_vars => [A]_vars
  <2>. SUFFICES ASSUME Inv, Next, peer # 0, peer' = 0
                PROVE  ~conns[peer].alive \/ pc[Inbound] # pc'[Inbound]
    OBVIOUS
  <2>1. ASSUME NEW t \in Threads, Retire(t) PROVE ~conns[peer].alive
    BY <2>1 DEF Inv, Working, Retire, retirePeer
  <2>2. CASE ConnLost
    BY <2>2 DEF Inv, Types, ConnLost, retirePeer
  <2>3. CASE Dial
    <3>1. peer' = Len(conns) + 1 /\ Len(conns) \in Nat
      BY <2>3, DomainConns DEF Dial, Inv
    <3>. QED
      BY <3>1
  <2>4. \/ \E t \in Threads : Retire(t)
        \/ ConnLost \/ Dial \/ peer' = peer
    BY DEF Next, TakeWriter, Lock, WritePart, Flush, SendFails, SignalRedial, CloseRetired,
           Break, Receive
  <2>. QED
    BY <2>1, <2>2, <2>3, <2>4
<1>. QED
  BY Invariance, <1>1, PTL DEF Spec, RetiredRightly
=============================================================================
