---------------------------- MODULE ServerProofs ----------------------------
(***************************************************************************)
(* Three theorems about the connections, for any number of clients and     *)
(* workers, any programs of the clients and any data: no client is         *)
(* abandoned, what a query returns is what its command answered, and a     *)
(* client and its worker wait for each other in one case only.  They       *)
(* follow from the invariant of SessionProofs, which the steps of the      *)
(* accept loop, of the pool's threads and of the process preserve as well. *)
(***************************************************************************)
EXTENDS SessionProofs, FiniteSetTheorems

(* The steps of the server.                                                *)

\* A connection is put at the end of a queue.
LEMMA QueuedLast ==
    ASSUME NEW s \in Seq(Clients), NEW c \in Clients, Once(s), ~Contains(s, c)
    PROVE  LET u == Append(s, c)
           IN  /\ u \in Seq(Clients) /\ Once(u)
               /\ \A d \in Clients : Contains(u, d) <=> Contains(s, d) \/ d = c
<1> DEFINE u == Append(s, c)
<1>1. /\ u \in Seq(Clients) /\ Len(u) = Len(s) + 1 /\ u[Len(s) + 1] = c
      /\ \A i \in 1..Len(s) : u[i] = s[i]
      /\ DOMAIN u = 1..Len(u) /\ DOMAIN s = 1..Len(s) /\ Len(s) \in Nat
  OBVIOUS
<1> HIDE DEF u
<1>2. \A i \in 1..Len(u) : i \in 1..Len(s) \/ i = Len(s) + 1
  BY <1>1
<1>3. \A i \in 1..Len(s) : s[i] # c
  BY DEF Contains
<1>4. Once(u)
  BY <1>1, <1>2, <1>3 DEF Once
<1>5. Len(s) + 1 \in 1..Len(u) /\ \A i \in 1..Len(s) : i \in 1..Len(u)
  BY <1>1
<1>6. \A d \in Clients : Contains(u, d) <=> Contains(s, d) \/ d = c
  BY <1>1, <1>2, <1>5, Zenon DEF Contains
<1> QED
  BY <1>1, <1>4, <1>6 DEF u

\* The first connection is taken from a queue.
LEMMA TakenFirst ==
    ASSUME NEW s \in Seq(Clients), s # <<>>, Once(s)
    PROVE  /\ Head(s) \in Clients /\ Contains(s, Head(s))
           /\ Tail(s) \in Seq(Clients) /\ Once(Tail(s))
           /\ \A d \in Clients :
                Contains(Tail(s), d) <=> Contains(s, d) /\ d # Head(s)
<1> DEFINE u == Tail(s)
           h == Head(s)
<1>1. /\ u \in Seq(Clients) /\ Len(u) = Len(s) - 1 /\ h = s[1] /\ h \in Clients
      /\ \A i \in 1..Len(u) : u[i] = s[i + 1]
      /\ DOMAIN u = 1..Len(u) /\ DOMAIN s = 1..Len(s) /\ Len(s) \in Nat
      /\ Len(s) >= 1
  OBVIOUS
<1> HIDE DEF u, h
<1>2. 1 \in 1..Len(s) /\ \A i \in 1..Len(u) : i + 1 \in 1..Len(s) /\ i + 1 # 1
  BY <1>1
<1>3. Once(u)
  BY <1>1, <1>2 DEF Once
<1>4. ASSUME NEW d \in Clients, Contains(u, d) PROVE Contains(s, d) /\ d # h
  <2>1. PICK i \in 1..Len(u) : u[i] = d
    BY <1>4 DEF Contains
  <2>2. i + 1 \in 1..Len(s) /\ i + 1 # 1 /\ s[i + 1] = d
    BY <1>1, <1>2, <2>1
  <2>3. Contains(s, d)
    BY <2>2, Zenon DEF Contains
  <2> QED
    BY <1>1, <1>2, <2>2, <2>3 DEF Once
<1>5. ASSUME NEW d \in Clients, Contains(s, d), d # h PROVE Contains(u, d)
  <2>1. PICK i \in 1..Len(s) : s[i] = d
    BY <1>5, Zenon DEF Contains
  <2>2. i - 1 \in 1..Len(u) /\ (i - 1) + 1 = i
    BY <1>1, <1>5, <2>1
  <2>3. u[i - 1] = d
    BY <1>1, <2>1, <2>2
  <2> QED
    BY <2>2, <2>3, Zenon DEF Contains
<1>6. Contains(s, h)
  BY <1>1, <1>2, Zenon DEF Contains
<1> QED
  BY <1>1, <1>3, <1>4, <1>5, <1>6, Zenon DEF u, h

\* A thread goes on with its connection: its session is all there is to show.
LEMMA ThreadLocal ==
    ASSUME ServerInv, NEW w \in Workers, NEW c \in Clients, wk[w].conn = c,
           NEW t \in Thread, ThreadOK(t), t.conn = c,
           NEW s \in Socket, NEW r \in Client,
           UNCHANGED <<auth, backlog, pool, mixed>>,
           wk' = [wk EXCEPT ![w] = t], sock' = [sock EXCEPT ![c] = s],
           cl' = [cl EXCEPT ![c] = r],
           s.sopen = sock[c].sopen, s.copen = sock[c].copen, r.pc = cl[c].pc,
           ~s.copen => s.out = <<>>, s.copen => ~s.reset, Session(s, r, t)
    PROVE  ServerInv'
<1>1. /\ sock'[c] = s /\ cl'[c] = r /\ wk'[w] = t
      /\ \A d \in Clients : d # c => sock'[d] = sock[d] /\ cl'[d] = cl[d]
      /\ \A v \in Workers : v # w => wk'[v] = wk[v]
      /\ \A v \in Workers : wk'[v].conn = wk[v].conn
  BY DEF ServerInv, Types
<1>2. Types'
  BY DEF ServerInv, Types
<1>3. /\ \A d : (Queued(d) <=> Queued(d)') /\ (HasWorker(d) <=> HasWorker(d)')
      /\ \A d : /\ Contains(backlog', d) <=> Contains(backlog, d)
                /\ Contains(pool', d) <=> Contains(pool, d)
  BY <1>1 DEF Queued, HasWorker
<1>4. Places'
  <2>1. Once(backlog)' /\ Once(pool)'
    BY DEF ServerInv, Places
  <2>2. ASSUME NEW d \in Clients
        PROVE  /\ ~(Contains(backlog, d) /\ Contains(pool, d))
               /\ Queued(d) \/ HasWorker(d) =>
                     sock'[d].sopen /\ cl'[d].pc # "new"
               /\ sock'[d].copen /\ sock'[d].sopen => Queued(d) \/ HasWorker(d)
               /\ sock'[d].copen <=> cl'[d].pc \notin {"new", "done"}
               /\ ~sock'[d].copen => sock'[d].out = <<>>
               /\ sock'[d].copen => ~sock'[d].reset
    <3>1. CASE d = c
      BY <1>1, <3>1 DEF ServerInv, Places
    <3>2. CASE d # c
      BY <1>1, <3>2 DEF ServerInv, Places
    <3> QED
      BY <3>1, <3>2
  <2>3. \A v \in Workers : wk'[v].conn # None =>
            /\ ~Queued(wk'[v].conn)
            /\ \A u \in Workers : wk'[u].conn = wk'[v].conn => u = v
    BY <1>1 DEF ServerInv, Places
  <2> QED
    BY <1>3, <2>1, <2>2, <2>3 DEF Places
<1>5. ASSUME NEW v \in Workers, wk'[v].conn # None
      PROVE  Session(sock'[wk'[v].conn], cl'[wk'[v].conn], wk'[v])
  <2>1. CASE v = w
    BY <1>1, <2>1, Zenon
  <2>2. CASE v # w
    <3>1. wk'[v] = wk[v] /\ wk[v].conn \in Clients
      BY <1>1, <1>5, <2>2 DEF ServerInv, Types, Thread
    <3>2. wk[v].conn # c
      BY <1>5, <2>2, <3>1, ServerAssumption DEF ServerInv, Places
    <3>3. Session(sock[wk[v].conn], cl[wk[v].conn], wk[v])
      BY <1>5, <3>1 DEF ServerInv, SessionsOK
    <3> QED
      BY <1>1, <3>1, <3>2, <3>3
  <2> QED
    BY <2>1, <2>2
<1>6. ASSUME NEW d \in Clients, ~HasWorker(d)
      PROVE  /\ Queued(d) => Session(sock'[d], cl'[d], Unread)
             /\ ~Queued(d) => Session(sock'[d], cl'[d], Dead)
  <2>1. d # c
    BY <1>6 DEF HasWorker
  <2> QED
    BY <1>1, <1>6, <2>1 DEF ServerInv, SessionsOK
<1>7. SessionsOK'
  BY <1>3, <1>5, <1>6 DEF SessionsOK
<1> QED
  BY <1>2, <1>4, <1>7 DEF ServerInv, AnswersTrue

\* A thread leaves its connection, closed at one end at least.
LEMMA ThreadLeaves ==
    ASSUME ServerInv, NEW w \in Workers, NEW c \in Clients, wk[w].conn = c,
           NEW t \in Thread, ThreadOK(t), t.conn = None, NEW s \in Socket,
           UNCHANGED <<auth, backlog, pool, mixed, cl>>,
           wk' = [wk EXCEPT ![w] = t], sock' = [sock EXCEPT ![c] = s],
           s.copen = sock[c].copen, s.out = sock[c].out,
           s.reset = sock[c].reset, ~s.sopen \/ ~s.copen,
           Session(s, cl[c], Dead)
    PROVE  ServerInv'
<1>1. /\ sock'[c] = s /\ wk'[w] = t /\ cl' = cl
      /\ \A d \in Clients : d # c => sock'[d] = sock[d]
      /\ \A v \in Workers : v # w => wk'[v] = wk[v]
  BY DEF ServerInv, Types
<1>2. Types'
  BY DEF ServerInv, Types
<1>3. \A v \in Workers : v # w => wk[v].conn # c
  BY ServerAssumption DEF ServerInv, Places
<1>4. /\ \A d : Queued(d) <=> Queued(d)'
      /\ \A d \in Clients : d # c => (HasWorker(d) <=> HasWorker(d)')
      /\ ~HasWorker(c)'
      /\ \A d : /\ Contains(backlog', d) <=> Contains(backlog, d)
                /\ Contains(pool', d) <=> Contains(pool, d)
  <2>1. \A d : Queued(d) <=> Queued(d)'
    BY DEF Queued
  <2>2. ASSUME NEW d \in Clients, d # c PROVE HasWorker(d) <=> HasWorker(d)'
    BY <1>1, <2>2, ServerAssumption DEF HasWorker
  <2>3. ~HasWorker(c)'
    BY <1>1, <1>3, ServerAssumption DEF HasWorker
  <2> QED
    BY <2>1, <2>2, <2>3
<1>5. ~Queued(c) /\ HasWorker(c)
  BY ServerAssumption DEF ServerInv, Places, HasWorker
<1>6. Places'
  <2>1. Once(backlog)' /\ Once(pool)'
    BY DEF ServerInv, Places
  <2>2. ASSUME NEW d \in Clients
        PROVE  /\ ~(Contains(backlog', d) /\ Contains(pool', d))
               /\ Queued(d)' \/ HasWorker(d)' =>
                     sock'[d].sopen /\ cl'[d].pc # "new"
               /\ sock'[d].copen /\ sock'[d].sopen =>
                     Queued(d)' \/ HasWorker(d)'
               /\ sock'[d].copen <=> cl'[d].pc \notin {"new", "done"}
               /\ ~sock'[d].copen => sock'[d].out = <<>>
               /\ sock'[d].copen => ~sock'[d].reset
    <3>1. CASE d = c
      BY <1>1, <1>4, <1>5, <3>1 DEF ServerInv, Places
    <3>2. CASE d # c
      BY <1>1, <1>4, <3>2 DEF ServerInv, Places
    <3> QED
      BY <3>1, <3>2
  <2>3. \A v \in Workers : wk'[v].conn # None =>
            /\ ~Queued(wk'[v].conn)
            /\ \A u \in Workers : wk'[u].conn = wk'[v].conn => u = v
    BY <1>1 DEF ServerInv, Places
  <2> QED
    BY <1>4, <2>1, <2>2, <2>3 DEF Places
<1>7. ASSUME NEW v \in Workers, wk'[v].conn # None
      PROVE  Session(sock'[wk'[v].conn], cl'[wk'[v].conn], wk'[v])
  <2>1. v # w
    BY <1>1, <1>7
  <2>2. wk'[v] = wk[v] /\ wk[v].conn \in Clients /\ wk[v].conn # c
    BY <1>1, <1>3, <1>7, <2>1 DEF ServerInv, Types, Thread
  <2>3. Session(sock[wk[v].conn], cl[wk[v].conn], wk[v])
    BY <1>7, <2>2 DEF ServerInv, SessionsOK
  <2> QED
    BY <1>1, <2>2, <2>3
<1>8. ASSUME NEW d \in Clients, ~HasWorker(d)'
      PROVE  /\ Queued(d) => Session(sock'[d], cl'[d], Unread)
             /\ ~Queued(d) => Session(sock'[d], cl'[d], Dead)
  <2>1. CASE d = c
    BY <1>1, <1>5, <2>1
  <2>2. CASE d # c
    BY <1>1, <1>4, <1>8, <2>2 DEF ServerInv, SessionsOK
  <2> QED
    BY <2>1, <2>2
<1>9. SessionsOK'
  BY <1>4, <1>7, <1>8 DEF SessionsOK
<1> QED
  BY <1>2, <1>6, <1>9 DEF ServerInv, AnswersTrue

\* A thread with a connection.
LEMMA Serving ==
    ASSUME ServerInv, NEW w \in Workers, wk[w].pc \notin {"pop", "dead"}
    PROVE  LET c == wk[w].conn
           IN  /\ wk[w] \in Thread /\ ThreadOK(wk[w]) /\ c \in Clients
               /\ wk[w].out \in Seq(Lines)
               /\ sock[c] \in Socket /\ cl[c] \in Client
               /\ Session(sock[c], cl[c], wk[w])
               /\ ~sock[c].copen => sock[c].out = <<>>
               /\ sock[c].copen => ~sock[c].reset
               /\ sock' = sock => sock' = [sock EXCEPT ![c] = sock[c]]
               /\ cl' = cl => cl' = [cl EXCEPT ![c] = cl[c]]
<1> DEFINE c == wk[w].conn
<1>1. wk[w] \in Thread /\ ThreadOK(wk[w])
  BY Zenon DEF ServerInv, Types
<1>2. c # None
  BY <1>1 DEF ThreadOK
<1>3. c \in Clients /\ wk[w].out \in Seq(Lines)
  BY <1>1, <1>2 DEF Thread
<1>4. sock[c] \in Socket /\ cl[c] \in Client
  BY <1>3, Zenon DEF ServerInv, Types
<1>5. Session(sock[c], cl[c], wk[w])
  BY <1>2, Zenon DEF ServerInv, SessionsOK
<1>6. /\ ~sock[c].copen => sock[c].out = <<>>
      /\ sock[c].copen => ~sock[c].reset
  BY <1>3, Zenon DEF ServerInv, Places
<1>7. /\ sock' = sock => sock' = [sock EXCEPT ![c] = sock[c]]
      /\ cl' = cl => cl' = [cl EXCEPT ![c] = cl[c]]
  BY <1>3 DEF ServerInv, Types
<1> QED
  BY <1>1, <1>3, <1>4, <1>5, <1>6, <1>7, Zenon

\* The thread reads no more: an error or the end of the connection.
LEMMA GetsInv ==
    ASSUME ServerInv, NEW w \in Workers, GetsFails(w) \/ GetsNil(w)
    PROVE  ServerInv'
<1> DEFINE c == wk[w].conn
<1>1. /\ wk[w].pc \in {"auth", "read", "request"}
      /\ UNCHANGED <<auth, backlog, pool, mixed, sock, cl>>
  BY DEF GetsFails, GetsNil, ServerVars
<1>2. PICK p \in {"die", "close"} : wk' = [wk EXCEPT ![w].pc = p]
  BY Zenon DEF GetsFails, GetsNil, Goto
<1> DEFINE t == [wk[w] EXCEPT !.pc = p]
<1>3. wk[w].pc \notin {"pop", "dead", "write"}
  BY <1>1
<1>4. /\ wk[w] \in Thread /\ ThreadOK(wk[w]) /\ c \in Clients
      /\ sock[c] \in Socket /\ cl[c] \in Client
      /\ Session(sock[c], cl[c], wk[w])
  BY <1>3, Serving, Zenon
<1>5. /\ t \in Thread /\ t.pc = p /\ t.out = wk[w].out /\ t.conn = c
  BY <1>4, Zenon DEF Thread
<1>6. wk' = [wk EXCEPT ![w] = t]
  BY <1>2, Zenon
<1> HIDE DEF t
<1>7. ThreadOK(t) /\ ~Hears(t)
  <2>1. wk[w].out = <<>> /\ c # None
    BY <1>3, <1>4 DEF ThreadOK
  <2> QED
    BY <1>5, <2>1 DEF ThreadOK, Hears
<1>8. Session(sock[c], cl[c], t)
  <2>1. ASSUME NEW s \in Socket, NEW r \in Client, NEW u \in Thread,
               Session(s, r, u), t.out = u.out
        PROVE  Session(s, r, t)
    <3>1. s.out = s.out /\ t \in Thread /\ ~Hears(t)
      BY <1>5, <1>7
    <3> QED
      BY <2>1, <3>1, SessionEnds, Zenon
  <2> QED
    BY <1>4, <1>5, <2>1, Zenon
<1> QED
  BY <1>1, <1>3, <1>5, <1>6, <1>7, <1>8, Serving, ThreadLocal, Zenon

\* The end of a session, of a thread after an error, and of a thread that cannot
\* write.
LEMMA EndInv ==
    ASSUME ServerInv, NEW w \in Workers,
           EndConnection(w) \/ EndThread(w) \/ PutFails(w)
    PROVE  ServerInv'
<1> DEFINE c == wk[w].conn
           s1 == [sock[c] EXCEPT !.sopen = FALSE, !.in = <<>>]
<1>1. /\ wk[w].pc \notin {"pop", "dead"}
      /\ UNCHANGED <<auth, backlog, pool, mixed, cl>>
  BY DEF EndConnection, EndThread, PutFails, ServerVars
<1>2. c \in Clients /\ sock[c] \in Socket /\ (sock[c].copen => ~sock[c].reset)
  BY <1>1, Serving, Zenon
<1>3. PICK t \in {IdleWorker, Dead} : wk' = [wk EXCEPT ![w] = t]
  BY Zenon DEF EndConnection, EndThread, PutFails, Dead
<1>4. t \in Thread /\ ThreadOK(t) /\ t.conn = None
  <2>1. IdleWorker \in Thread /\ ThreadOK(IdleWorker) /\ IdleWorker.conn = None
    <3>1. /\ IdleWorker \in Thread /\ IdleWorker.pc = "pop"
          /\ IdleWorker.conn = None /\ IdleWorker.out = <<>>
      BY FreshThread, Zenon
    <3> QED
      BY <3>1 DEF ThreadOK
  <2> QED
    BY <2>1, NoThread, Zenon
<1>5. /\ s1 \in Socket /\ s1.copen = sock[c].copen /\ s1.out = sock[c].out
      /\ s1.reset = sock[c].reset /\ ~s1.sopen
  <2>1. FALSE \in BOOLEAN /\ <<>> \in Seq(Requests)
    OBVIOUS
  <2> QED
    BY <1>2, <2>1, Zenon DEF Socket
<1>6. PICK s \in {s1, sock[c]} : /\ sock' = [sock EXCEPT ![c] = s]
                                 /\ s = s1 \/ sock[c].reset
  <2>1. CASE EndConnection(w) \/ EndThread(w)
    BY <2>1, Zenon DEF EndConnection, EndThread, CloseStream
  <2>2. CASE PutFails(w)
    BY <1>1, <2>2, Serving, Zenon DEF PutFails
  <2> QED
    BY <2>1, <2>2
<1> HIDE DEF s1
<1>7. /\ s \in Socket /\ s.copen = sock[c].copen /\ s.out = sock[c].out
      /\ s.reset = sock[c].reset /\ (~s.sopen \/ ~s.copen)
  BY <1>2, <1>5, <1>6, Zenon
<1>8. Session(s, cl[c], Dead)
  BY <1>1, <1>7, Serving, NoThread, SessionCut, Zenon
<1> QED
  BY <1>1, <1>2, <1>3, <1>4, <1>6, <1>7, <1>8, ThreadLeaves, Zenon

\* A connection is accepted: from one queue to the other.
LEMMA AcceptInv == ASSUME ServerInv, Accept PROVE ServerInv'
<1> DEFINE c == Head(backlog)
<1>1. /\ backlog # <<>> /\ pool' = Append(pool, c) /\ backlog' = Tail(backlog)
      /\ UNCHANGED <<auth, wk, sock, cl, mixed>>
  BY DEF Accept
<1>2. /\ backlog \in Seq(Clients) /\ pool \in Seq(Clients) /\ Once(backlog)
      /\ Once(pool)
  BY DEF ServerInv, Types, Places
<1>3. /\ c \in Clients /\ Contains(backlog, c) /\ backlog' \in Seq(Clients)
      /\ Once(backlog')
      /\ \A d \in Clients :
            Contains(backlog', d) <=> Contains(backlog, d) /\ d # c
  BY <1>1, <1>2, TakenFirst, Zenon
<1> HIDE DEF c
<1>4. ~Contains(pool, c)
  BY <1>3 DEF ServerInv, Places
<1>5. /\ pool' \in Seq(Clients) /\ Once(pool')
      /\ \A d \in Clients : Contains(pool', d) <=> Contains(pool, d) \/ d = c
  BY <1>1, <1>2, <1>3, <1>4, QueuedLast, Zenon
<1>6. \A d \in Clients : /\ Queued(d)' <=> Queued(d)
                         /\ HasWorker(d)' <=> HasWorker(d)
  BY <1>1, <1>3, <1>5 DEF Queued, HasWorker
<1>7. Types'
  BY <1>1, <1>3, <1>5 DEF ServerInv, Types
<1>8. Places'
  <2>1. ASSUME NEW d \in Clients
        PROVE  /\ ~(Contains(backlog', d) /\ Contains(pool', d))
               /\ Queued(d)' \/ HasWorker(d)' =>
                     sock'[d].sopen /\ cl'[d].pc # "new"
               /\ sock'[d].copen /\ sock'[d].sopen =>
                     Queued(d)' \/ HasWorker(d)'
               /\ sock'[d].copen <=> cl'[d].pc \notin {"new", "done"}
               /\ ~sock'[d].copen => sock'[d].out = <<>>
               /\ sock'[d].copen => ~sock'[d].reset
    BY <1>1, <1>3, <1>5, <1>6 DEF ServerInv, Places
  <2>2. ASSUME NEW v \in Workers, wk'[v].conn # None
        PROVE  /\ ~Queued(wk[v].conn)'
               /\ \A u \in Workers : wk'[u].conn = wk'[v].conn => u = v
    <3> DEFINE d == wk[v].conn
    <3>1. d \in Clients /\ d = wk'[v].conn
      <4>1. wk[v] \in Thread /\ wk' = wk
        BY <1>1 DEF ServerInv, Types
      <4> QED
        BY <2>2, <4>1 DEF Thread
    <3>2. ~Queued(d) /\ \A u \in Workers : wk[u].conn = d => u = v
      BY <2>2, <3>1 DEF ServerInv, Places
    <3>3. ~Contains(backlog', d) /\ ~Contains(pool', d)
      BY <1>3, <1>5, <3>1, <3>2 DEF Queued
    <3> QED
      BY <1>1, <3>1, <3>2, <3>3 DEF Queued
  <2> QED
    BY <1>3, <1>5, <2>1, <2>2 DEF Places
<1>9. SessionsOK'
  BY <1>1, <1>6 DEF ServerInv, SessionsOK
<1> QED
  BY <1>1, <1>7, <1>8, <1>9 DEF ServerInv, AnswersTrue

\* A thread that has read nothing serves like none.
LEMMA SessionServed ==
    ASSUME NEW s \in Socket, NEW r \in Client, NEW t \in Thread,
           NEW u \in Thread, Session(s, r, t), t.out = u.out,
           Hears(t), ~t.keep, Hears(u), ~u.keep
    PROVE  Session(s, r, u)
BY Zenon DEF Session, InAuth, InIdle, InSizes, InValues, Asked

\* A session begins: nothing was read, and nothing written but the lines of
\* the client.
LEMMA SessionBegins ==
    ASSUME NEW s \in Socket, NEW r \in Client, NEW t \in Thread,
           s.out = <<>>, t.out = <<>>, ~t.keep,
           \/ r.pc = "auth" /\ \E l \in Logins : s.in = <<l>>
           \/ r.pc = "idle" /\ (s.in = <<>> \/ s.in = <<"STREAM">>)
    PROVE  Session(s, r, t)
<1>1. s.out \o t.out = <<>>
  OBVIOUS
<1>2. ASSUME r.pc = "auth" PROVE InAuth(s, t, <<>>)
  BY <1>2, Zenon DEF InAuth
<1>3. ASSUME r.pc = "idle" PROVE InIdle(s, t, <<>>)
  BY <1>3, Zenon DEF InIdle
<1> QED
  BY <1>1, <1>2, <1>3, Zenon DEF Session

\* A client connects, and its connection waits to be accepted.
LEMMA ConnectInv ==
    ASSUME ServerInv, NEW c \in Clients, NEW p \in Programs[c],
           Connect(c, p.lib, p.stream, p.login, p.queries)
    PROVE  ServerInv'
<1> DEFINE x == IF p.login = None THEN StreamLine(p.stream) ELSE <<p.login>>
           s == [NoSocket EXCEPT !.sopen = TRUE, !.copen = TRUE, !.in = x]
           k == IF p.login = None THEN "idle" ELSE "auth"
           r == [NewClient EXCEPT !.lib = p.lib, !.stream = p.stream,
                                  !.left = p.queries, !.pc = k]
<1>1. /\ cl[c].pc = "new" /\ UNCHANGED <<auth, pool, wk, mixed>>
      /\ backlog' = Append(backlog, c)
  BY DEF Connect
<1>2. sock' = [sock EXCEPT ![c] = s] /\ cl' = [cl EXCEPT ![c] = r]
  BY Zenon DEF Connect
<1>3. /\ p.lib \in {"c", "ruby"} /\ p.stream \in BOOLEAN
      /\ p.login \in Logins \cup {None} /\ p.queries \in Nat
  <2>1. Programs[c] \subseteq [lib : {"c", "ruby"}, stream : BOOLEAN,
                               login : Logins \cup {None}, queries : Nat]
    BY ServerAssumption
  <2> QED
    BY <2>1
<1>4. /\ x \in Seq(Requests)
      /\ \/ k = "auth" /\ \E l \in Logins : x = <<l>>
         \/ k = "idle" /\ (x = <<>> \/ x = <<"STREAM">>)
  <2>1. CASE p.login = None
    <3>1. x \in {<<>>, <<"STREAM">>} /\ k = "idle"
      BY <2>1 DEF StreamLine
    <3>2. <<>> \in Seq(Requests) /\ <<"STREAM">> \in Seq(Requests)
      BY DEF Requests
    <3> QED
      BY <3>1, <3>2, Zenon
  <2>2. CASE p.login # None
    <3>1. p.login \in Logins /\ x = <<p.login>> /\ k = "auth"
      BY <1>3, <2>2, Zenon
    <3>2. \A l \in Logins : <<l>> \in Seq(Requests)
      BY DEF Requests
    <3> QED
      BY <3>1, <3>2, Zenon
  <2> QED
    BY <2>1, <2>2
<1> HIDE DEF x
<1>5. s \in Socket /\ s.sopen /\ s.copen /\ ~s.reset /\ s.in = x /\ s.out = <<>>
  <2>1. NoSocket \in Socket /\ NoSocket.out = <<>> /\ NoSocket.reset = FALSE
    BY DEF NoSocket, Socket
  <2>2. TRUE \in BOOLEAN
    OBVIOUS
  <2> QED
    BY <1>4, <2>1, <2>2, Zenon DEF Socket
<1>6. r \in Client /\ r.pc = k
  <2>1. NewClient \in Client
    BY DEF NewClient, Client
  <2>2. k \in {"idle", "auth"}
    BY Zenon
  <2> HIDE DEF k
  <2> QED
    BY <1>3, <2>1, <2>2, Zenon DEF Client
<1>7. Session(s, r, Unread)
  BY <1>4, <1>5, <1>6, NoThread, SessionBegins, Zenon
<1>8. k \in {"idle", "auth"}
  BY Zenon
<1> HIDE DEF s, r, k
<1>9. ~Queued(c) /\ ~HasWorker(c)
  BY <1>1 DEF ServerInv, Places
<1>10. /\ backlog' \in Seq(Clients) /\ Once(backlog')
       /\ \A d \in Clients :
            Contains(backlog', d) <=> Contains(backlog, d) \/ d = c
  <2>1. backlog \in Seq(Clients) /\ Once(backlog) /\ ~Contains(backlog, c)
    BY <1>9, Zenon DEF ServerInv, Types, Places, Queued
  <2> QED
    BY <1>1, <2>1, QueuedLast, Zenon
<1>11. /\ sock'[c] = s /\ cl'[c] = r
       /\ \A d \in Clients : d # c => sock'[d] = sock[d] /\ cl'[d] = cl[d]
  BY <1>2 DEF ServerInv, Types
<1>12. /\ Queued(c)'
       /\ \A d \in Clients : /\ d # c => (Queued(d)' <=> Queued(d))
                             /\ HasWorker(d)' <=> HasWorker(d)
  BY <1>1, <1>10 DEF Queued, HasWorker
<1>13. Types'
  BY <1>1, <1>2, <1>5, <1>6, <1>10 DEF ServerInv, Types
<1>14. Places'
  <2>1. ASSUME NEW d \in Clients
        PROVE  /\ ~(Contains(backlog', d) /\ Contains(pool', d))
               /\ Queued(d)' \/ HasWorker(d)' =>
                     sock'[d].sopen /\ cl'[d].pc # "new"
               /\ sock'[d].copen /\ sock'[d].sopen =>
                     Queued(d)' \/ HasWorker(d)'
               /\ sock'[d].copen <=> cl'[d].pc \notin {"new", "done"}
               /\ ~sock'[d].copen => sock'[d].out = <<>>
               /\ sock'[d].copen => ~sock'[d].reset
    <3>1. CASE d = c
      <4>1. ~Contains(pool', d)
        BY <1>1, <1>9, <3>1 DEF Queued
      <4>2. cl'[d].pc \in {"idle", "auth"}
        BY <1>6, <1>8, <1>11, <3>1, Zenon
      <4> QED
        BY <1>5, <1>11, <1>12, <3>1, <4>1, <4>2
    <3>2. CASE d # c
      BY <1>1, <1>10, <1>11, <1>12, <3>2 DEF ServerInv, Places
    <3> QED
      BY <3>1, <3>2
  <2>2. ASSUME NEW v \in Workers, wk'[v].conn # None
        PROVE  /\ ~Queued(wk[v].conn)'
               /\ \A u \in Workers : wk'[u].conn = wk'[v].conn => u = v
    <3> DEFINE d == wk[v].conn
    <3>1. d \in Clients /\ d = wk'[v].conn /\ d # None
      <4>1. wk[v] \in Thread /\ wk' = wk
        BY <1>1 DEF ServerInv, Types
      <4> QED
        BY <2>2, <4>1 DEF Thread
    <3>2. ~Queued(d) /\ \A u \in Workers : wk[u].conn = d => u = v
      BY <3>1 DEF ServerInv, Places
    <3>3. d # c
      BY <1>9, <3>1 DEF HasWorker
    <3>4. ~Contains(backlog', d) /\ ~Contains(pool', d)
      BY <1>1, <1>10, <3>1, <3>2, <3>3 DEF Queued
    <3> QED
      BY <1>1, <3>1, <3>2, <3>4 DEF Queued
  <2>3. Once(pool')
    BY <1>1 DEF ServerInv, Places
  <2> QED
    BY <1>10, <2>1, <2>2, <2>3 DEF Places
<1>15. ASSUME NEW v \in Workers, wk[v].conn # None
       PROVE  Session(sock'[wk[v].conn], cl'[wk[v].conn], wk[v])
  <2>1. wk[v].conn \in Clients
    BY <1>15 DEF ServerInv, Types, Thread
  <2>2. wk[v].conn # c
    BY <1>9 DEF HasWorker
  <2> QED
    BY <1>11, <1>15, <2>1, <2>2 DEF ServerInv, SessionsOK
<1>16. ASSUME NEW d \in Clients, ~HasWorker(d)
       PROVE  /\ Queued(d)' => Session(sock'[d], cl'[d], Unread)
              /\ ~Queued(d)' => Session(sock'[d], cl'[d], Dead)
  <2>1. CASE d = c
    BY <1>7, <1>11, <1>12, <2>1
  <2>2. CASE d # c
    BY <1>11, <1>12, <1>16, <2>2 DEF ServerInv, SessionsOK
  <2> QED
    BY <2>1, <2>2
<1>17. SessionsOK'
  BY <1>1, <1>12, <1>15, <1>16 DEF SessionsOK
<1> QED
  BY <1>1, <1>13, <1>14, <1>17 DEF ServerInv, AnswersTrue

\* A thread takes a connection from the pool.
LEMMA PopInv == ASSUME ServerInv, NEW w \in Workers, Pop(w) PROVE ServerInv'
<1>0. PICK c, p : c = Head(pool) /\ p = IF auth THEN "auth" ELSE "read"
  OBVIOUS
<1> DEFINE t == [IdleWorker EXCEPT !.pc = p, !.conn = c]
<1>1. /\ wk[w].pc = "pop" /\ pool # <<>> /\ wk' = [wk EXCEPT ![w] = t]
      /\ pool' = Tail(pool) /\ UNCHANGED <<auth, backlog, mixed, sock, cl>>
  BY <1>0 DEF Pop, ServerVars
<1>2. /\ c \in Clients /\ Contains(pool, c) /\ pool' \in Seq(Clients)
      /\ Once(pool')
      /\ \A d \in Clients : Contains(pool', d) <=> Contains(pool, d) /\ d # c
  <2>1. pool \in Seq(Clients) /\ Once(pool)
    BY Zenon DEF ServerInv, Types, Places
  <2> QED
    BY <1>0, <1>1, <2>1, TakenFirst, Zenon
<1>3. /\ t \in Thread /\ t.pc \in {"auth", "read"} /\ t.conn = c /\ ~t.keep
      /\ t.out = <<>>
  <2>1. p \in {"auth", "read"}
    BY <1>0
  <2>2. IdleWorker \in Thread /\ ~IdleWorker.keep /\ IdleWorker.out = <<>>
    BY FreshThread, Zenon
  <2>3. /\ t \in Thread /\ t.pc = p /\ t.conn = c /\ t.keep = IdleWorker.keep
        /\ t.out = IdleWorker.out
    BY <1>2, <2>1, <2>2, Zenon DEF Thread
  <2> QED
    BY <2>1, <2>2, <2>3, Zenon
<1> HIDE DEF t
<1>4. ThreadOK(t) /\ Hears(t)
  BY <1>2, <1>3, ServerAssumption DEF ThreadOK, Hears
<1>5. Queued(c) /\ ~Contains(backlog, c) /\ ~HasWorker(c)
  <2>1. Queued(c) /\ ~Contains(backlog, c)
    BY <1>2, Zenon DEF ServerInv, Places, Queued
  <2> QED
    BY <1>2, <2>1, ServerAssumption DEF ServerInv, Places, HasWorker
<1>6. Session(sock[c], cl[c], t)
  <2>1. Session(sock[c], cl[c], Unread)
    BY <1>2, <1>5, Zenon DEF ServerInv, SessionsOK
  <2>2. sock[c] \in Socket /\ cl[c] \in Client
    BY <1>2, Zenon DEF ServerInv, Types
  <2>3. Unread.out = t.out
    BY <1>3, NoThread, Zenon
  <2> QED
    BY <1>3, <1>4, <2>1, <2>2, <2>3, NoThread, SessionServed, Zenon
<1>7. wk[w].conn = None
  BY <1>1 DEF ServerInv, Types, ThreadOK
<1>8. wk'[w] = t /\ \A v \in Workers : v # w => wk'[v] = wk[v]
  BY <1>1 DEF ServerInv, Types
<1>9. /\ ~Queued(c)' /\ HasWorker(c)'
      /\ \A d \in Clients : d # c => /\ Queued(d)' <=> Queued(d)
                                     /\ HasWorker(d)' <=> HasWorker(d)
  <2>1. ~Queued(c)' /\ \A d \in Clients : d # c => (Queued(d)' <=> Queued(d))
    BY <1>1, <1>2, <1>5 DEF Queued
  <2>2. HasWorker(c)'
    BY <1>3, <1>8 DEF HasWorker
  <2>3. ASSUME NEW d \in Clients, d # c PROVE HasWorker(d)' <=> HasWorker(d)
    BY <1>3, <1>7, <1>8, <2>3, ServerAssumption DEF HasWorker
  <2> QED
    BY <2>1, <2>2, <2>3
<1>10. Types'
  BY <1>1, <1>2, <1>3, <1>4 DEF ServerInv, Types
<1>11. Places'
  <2>1. ASSUME NEW d \in Clients
        PROVE  /\ ~(Contains(backlog', d) /\ Contains(pool', d))
               /\ Queued(d)' \/ HasWorker(d)' =>
                     sock'[d].sopen /\ cl'[d].pc # "new"
               /\ sock'[d].copen /\ sock'[d].sopen =>
                     Queued(d)' \/ HasWorker(d)'
               /\ sock'[d].copen <=> cl'[d].pc \notin {"new", "done"}
               /\ ~sock'[d].copen => sock'[d].out = <<>>
               /\ sock'[d].copen => ~sock'[d].reset
    <3>1. CASE d = c
      BY <1>1, <1>2, <1>5, <1>9, <3>1 DEF ServerInv, Places
    <3>2. CASE d # c
      BY <1>1, <1>2, <1>9, <3>2 DEF ServerInv, Places
    <3> QED
      BY <3>1, <3>2
  <2>2. ASSUME NEW v \in Workers, NEW d, d = wk'[v].conn, d # None
        PROVE  /\ ~Contains(backlog', d) /\ ~Contains(pool', d)
               /\ \A u \in Workers : wk'[u].conn = d => u = v
    <3>1. CASE v = w
      <4>1. d = c
        BY <1>3, <1>8, <2>2, <3>1
      <4>2. \A u \in Workers : u # w => wk[u].conn # c
        BY <1>5 DEF HasWorker
      <4> QED
        BY <1>1, <1>2, <1>5, <1>8, <3>1, <4>1, <4>2
    <3>2. CASE v # w
      <4>1. d = wk[v].conn /\ d \in Clients /\ d # c
        <5>1. d = wk[v].conn
          BY <1>8, <2>2, <3>2
        <5>2. d \in Clients
          BY <2>2, <5>1 DEF ServerInv, Types, Thread
        <5> QED
          BY <1>5, <5>1, <5>2 DEF HasWorker
      <4>2. ~Queued(d) /\ \A u \in Workers : wk[u].conn = d => u = v
        BY <2>2, <4>1 DEF ServerInv, Places
      <4> QED
        BY <1>1, <1>2, <1>3, <1>8, <4>1, <4>2 DEF Queued
    <3> QED
      BY <3>1, <3>2
  <2>3. Once(backlog')
    BY <1>1 DEF ServerInv, Places
  <2> QED
    BY <1>2, <2>1, <2>2, <2>3, Zenon DEF Places, Queued
<1>12. ASSUME NEW v \in Workers, wk'[v].conn # None
       PROVE  Session(sock[wk'[v].conn], cl[wk'[v].conn], wk'[v])
  <2>1. CASE v = w
    BY <1>3, <1>6, <1>8, <2>1
  <2>2. CASE v # w
    BY <1>8, <1>12, <2>2 DEF ServerInv, SessionsOK
  <2> QED
    BY <2>1, <2>2
<1>13. SessionsOK'
  <2>1. ASSUME NEW d \in Clients, ~HasWorker(d)'
        PROVE  /\ Queued(d)' => Session(sock[d], cl[d], Unread)
               /\ ~Queued(d)' => Session(sock[d], cl[d], Dead)
    <3>1. d # c
      BY <1>9, <2>1
    <3> QED
      BY <1>9, <2>1, <3>1 DEF ServerInv, SessionsOK
  <2> QED
    BY <1>1, <1>12, <2>1 DEF SessionsOK
<1> QED
  BY <1>1, <1>10, <1>11, <1>13 DEF ServerInv, AnswersTrue

\* A session is about the lines on the socket only.
LEMMA SessionMoved ==
    ASSUME NEW s \in Socket, NEW s2 \in Socket, NEW r \in Client,
           NEW t \in Thread, NEW t2 \in Thread, Session(s, r, t),
           s2.in = s.in, s2.out \o t2.out = s.out \o t.out,
           Hears(t2) => Hears(t), t2.keep = t.keep
    PROVE  Session(s2, r, t2)
BY Zenon DEF Session, InAuth, InIdle, InSizes, InValues, Asked

\* The server closes its end of a socket, or not.
LEMMA ClosedSocket ==
    ASSUME NEW s \in Socket, NEW b \in BOOLEAN
    PROVE  LET u == [s EXCEPT !.sopen = b]
           IN  /\ u \in Socket /\ u.in = s.in /\ u.out = s.out /\ u.sopen = b
               /\ u.copen = s.copen /\ u.reset = s.reset
BY Zenon DEF Socket

\* TERM: what was not accepted is closed.
LEMMA TermInv == ASSUME ServerInv, Term PROVE ServerInv'
<1> DEFINE S(c) == [sock[c] EXCEPT
                        !.sopen = sock[c].sopen /\ ~Contains(backlog, c)]
<1>1. /\ backlog' = <<>> /\ UNCHANGED <<auth, pool, wk, cl, mixed>>
      /\ sock' = [c \in Clients |-> S(c)]
  BY Zenon DEF Term
<1>2. ASSUME NEW c \in Clients
      PROVE  /\ sock'[c] = S(c) /\ sock'[c] \in Socket /\ sock[c] \in Socket
             /\ sock'[c].in = sock[c].in /\ sock'[c].out = sock[c].out
             /\ sock'[c].copen = sock[c].copen /\ sock'[c].reset = sock[c].reset
             /\ sock'[c].sopen <=> sock[c].sopen /\ ~Contains(backlog, c)
  <2>1. sock'[c] = S(c) /\ sock[c] \in Socket
    BY <1>1, Zenon DEF ServerInv, Types
  <2>2. PICK b \in BOOLEAN : b = (sock[c].sopen /\ ~Contains(backlog, c))
    BY Zenon
  <2>3. S(c) = [sock[c] EXCEPT !.sopen = b]
    BY <2>2, Zenon
  <2> HIDE DEF S
  <2> DEFINE u == [sock[c] EXCEPT !.sopen = b]
  <2>5. /\ u \in Socket /\ u.in = sock[c].in /\ u.out = sock[c].out
        /\ u.sopen = b /\ u.copen = sock[c].copen /\ u.reset = sock[c].reset
    BY <2>1, ClosedSocket, Zenon
  <2>6. sock'[c] = u
    BY <2>1, <2>3
  <2> HIDE DEF u
  <2>4. /\ sock'[c] \in Socket /\ sock'[c].sopen = b
        /\ sock'[c].in = sock[c].in /\ sock'[c].out = sock[c].out
        /\ sock'[c].copen = sock[c].copen /\ sock'[c].reset = sock[c].reset
    BY <2>5, <2>6, Zenon
  <2> QED
    BY <2>1, <2>2, <2>4, Zenon
<1> HIDE DEF S
<1>3. \A d : ~Contains(backlog', d)
  BY <1>1 DEF Contains
<1>4. \A c \in Clients : /\ Queued(c)' <=> Queued(c) /\ ~Contains(backlog, c)
                         /\ HasWorker(c)' <=> HasWorker(c)
                         /\ Contains(backlog, c) => Queued(c)
  <2>1. \A c \in Clients : Contains(backlog, c) => ~Contains(pool, c)
    BY Zenon DEF ServerInv, Places
  <2> QED
    BY <1>1, <1>3, <2>1 DEF Queued, HasWorker
<1>5. Types'
  <2>1. <<>> \in Seq(Clients)
    OBVIOUS
  <2>2. sock' \in [Clients -> Socket]
    BY <1>1, <1>2
  <2> QED
    BY <1>1, <2>1, <2>2 DEF ServerInv, Types
<1>6. Places'
  <2>1. ASSUME NEW d \in Clients
        PROVE  /\ ~(Contains(backlog', d) /\ Contains(pool', d))
               /\ Queued(d)' \/ HasWorker(d)' =>
                     sock'[d].sopen /\ cl'[d].pc # "new"
               /\ sock'[d].copen /\ sock'[d].sopen =>
                     Queued(d)' \/ HasWorker(d)'
               /\ sock'[d].copen <=> cl'[d].pc \notin {"new", "done"}
               /\ ~sock'[d].copen => sock'[d].out = <<>>
               /\ sock'[d].copen => ~sock'[d].reset
    <3>1. Queued(d) => ~HasWorker(d)
      BY ServerAssumption DEF ServerInv, Places, HasWorker
    <3>2. /\ Queued(d) \/ HasWorker(d) => sock[d].sopen /\ cl[d].pc # "new"
          /\ sock[d].copen /\ sock[d].sopen => Queued(d) \/ HasWorker(d)
          /\ sock[d].copen <=> cl[d].pc \notin {"new", "done"}
          /\ ~sock[d].copen => sock[d].out = <<>>
          /\ sock[d].copen => ~sock[d].reset
      BY Zenon DEF ServerInv, Places
    <3> QED
      BY <1>1, <1>2, <1>3, <1>4, <3>1, <3>2, Zenon
  <2>2. ASSUME NEW v \in Workers, NEW d, d = wk'[v].conn, d # None
        PROVE  /\ ~Contains(backlog', d) /\ ~Contains(pool', d)
               /\ \A u \in Workers : wk'[u].conn = d => u = v
    <3>1. ~Queued(d) /\ \A u \in Workers : wk[u].conn = d => u = v
      BY <1>1, <2>2 DEF ServerInv, Places
    <3> QED
      BY <1>1, <1>3, <3>1 DEF Queued
  <2>3. Once(backlog') /\ Once(pool')
    BY <1>1 DEF ServerInv, Places, Once
  <2> QED
    BY <2>1, <2>2, <2>3 DEF Places, Queued
<1>7. ASSUME NEW v \in Workers, wk[v].conn # None
      PROVE  Session(sock'[wk[v].conn], cl[wk[v].conn], wk[v])
  <2>1. wk[v] \in Thread /\ wk[v].conn \in Clients
    BY <1>7 DEF ServerInv, Types, Thread
  <2>2. Session(sock[wk[v].conn], cl[wk[v].conn], wk[v])
    BY <1>7, Zenon DEF ServerInv, SessionsOK
  <2>3. cl[wk[v].conn] \in Client
    BY <2>1, Zenon DEF ServerInv, Types
  <2>4. ASSUME NEW s \in Socket, NEW s2 \in Socket, NEW r \in Client,
               NEW t \in Thread, Session(s, r, t), s2.in = s.in, s2.out = s.out
        PROVE  Session(s2, r, t)
    <3>1. s2.out \o t.out = s.out \o t.out /\ t.keep = t.keep
      BY <2>4
    <3> QED
      BY <2>4, <3>1, SessionMoved, Zenon
  <2>5. LET d == wk[v].conn
        IN  /\ sock[d] \in Socket /\ sock'[d] \in Socket
            /\ sock'[d].in = sock[d].in /\ sock'[d].out = sock[d].out
    BY <1>2, <2>1, Zenon
  <2> QED
    BY <2>1, <2>2, <2>3, <2>4, <2>5, Zenon
<1>8. ASSUME NEW d \in Clients, ~HasWorker(d)
      PROVE  /\ Queued(d)' => Session(sock'[d], cl[d], Unread)
             /\ ~Queued(d)' => Session(sock'[d], cl[d], Dead)
  <2>1. cl[d] \in Client
    BY Zenon DEF ServerInv, Types
  <2>2. /\ Queued(d) => Session(sock[d], cl[d], Unread)
        /\ ~Queued(d) => Session(sock[d], cl[d], Dead)
    BY <1>8, Zenon DEF ServerInv, SessionsOK
  <2>3. ASSUME Queued(d)' PROVE Session(sock'[d], cl[d], Unread)
    <3>1. Session(sock[d], cl[d], Unread)
      BY <1>4, <2>2, <2>3, Zenon
    <3>2. Unread.keep = Unread.keep
         /\ sock'[d].out \o Unread.out = sock[d].out \o Unread.out
      BY <1>2, Zenon
    <3> QED
      BY <1>2, <2>1, <3>1, <3>2, NoThread, SessionMoved, Zenon
  <2>4. ASSUME ~Queued(d)' PROVE Session(sock'[d], cl[d], Dead)
    <3>1. PICK t \in {Unread, Dead} : Session(sock[d], cl[d], t)
      BY <2>2, Zenon
    <3>2. t \in Thread /\ Dead.out = t.out
      BY <3>1, NoThread, Zenon
    <3> QED
      BY <1>2, <2>1, <3>1, <3>2, NoThread, SessionEnds, Zenon
  <2> QED
    BY <2>3, <2>4
<1>9. SessionsOK'
  BY <1>1, <1>4, <1>7, <1>8 DEF SessionsOK
<1> QED
  BY <1>1, <1>5, <1>6, <1>9 DEF ServerInv, AnswersTrue

\* The listening socket is closed with all that was not accepted.
Closed == srv # "run" => backlog = <<>>

\* The process ends: every connection is closed, and every thread gone.
LEMMA ExitInv == ASSUME ServerInv, Closed, Exit PROVE ServerInv'
<1> DEFINE S(c) == [sock[c] EXCEPT !.sopen = FALSE]
<1>1. /\ backlog = <<>> /\ pool' = <<>>
      /\ UNCHANGED <<auth, backlog, cl, mixed>>
      /\ sock' = [c \in Clients |-> S(c)]
      /\ wk' = [w \in Workers |-> Dead]
  BY DEF Exit, Closed, Dead
<1>2. ASSUME NEW c \in Clients
      PROVE  /\ sock'[c] = S(c) /\ sock'[c] \in Socket /\ sock[c] \in Socket
             /\ sock'[c].out = sock[c].out
             /\ sock'[c].copen = sock[c].copen /\ sock'[c].reset = sock[c].reset
             /\ ~sock'[c].sopen
  <2>1. sock'[c] = S(c) /\ sock[c] \in Socket
    BY <1>1, Zenon DEF ServerInv, Types
  <2>2. FALSE \in BOOLEAN
    OBVIOUS
  <2> QED
    BY <2>1, <2>2, ClosedSocket, Zenon
<1> HIDE DEF S
<1>3. \A w \in Workers : wk'[w] = Dead /\ wk'[w].conn = None
  BY <1>1, NoThread
<1>4. \A d : ~Contains(backlog', d) /\ ~Contains(pool', d)
  BY <1>1 DEF Contains
<1>5. \A c \in Clients : ~Queued(c)' /\ ~HasWorker(c)'
  BY <1>3, <1>4, ServerAssumption DEF Queued, HasWorker
<1>6. Types'
  <2>1. <<>> \in Seq(Clients)
    OBVIOUS
  <2>2. sock' \in [Clients -> Socket] /\ wk' \in [Workers -> Thread]
    BY <1>1, <1>2, NoThread
  <2>3. \A w \in Workers : ThreadOK(wk'[w])
    BY <1>3, NoThread
  <2> QED
    BY <1>1, <2>1, <2>2, <2>3 DEF ServerInv, Types
<1>7. Places'
  <2>1. ASSUME NEW d \in Clients
        PROVE  /\ sock'[d].copen <=> cl'[d].pc \notin {"new", "done"}
               /\ ~sock'[d].copen => sock'[d].out = <<>>
               /\ sock'[d].copen => ~sock'[d].reset
    <3>1. /\ sock[d].copen <=> cl[d].pc \notin {"new", "done"}
          /\ ~sock[d].copen => sock[d].out = <<>>
          /\ sock[d].copen => ~sock[d].reset
      BY Zenon DEF ServerInv, Places
    <3> QED
      BY <1>1, <1>2, <3>1, Zenon
  <2>2. Once(backlog') /\ Once(pool')
    BY <1>1 DEF Once
  <2> QED
    BY <1>2, <1>3, <1>4, <1>5, <2>1, <2>2 DEF Places
<1>8. ASSUME NEW d \in Clients PROVE Session(sock'[d], cl[d], Dead)
  <2>1. PICK t \in Thread : Session(sock[d], cl[d], t)
    BY SessionOf, Zenon
  <2>2. cl[d] \in Client
    BY Zenon DEF ServerInv, Types
  <2> QED
    BY <1>2, <2>1, <2>2, NoThread, SessionCut, Zenon
<1>9. SessionsOK'
  BY <1>1, <1>3, <1>5, <1>8 DEF SessionsOK
<1> QED
  BY <1>1, <1>6, <1>7, <1>9 DEF ServerInv, AnswersTrue

\* A line is written: it leaves the thread and arrives, or is lost.
LEMMA PutInv == ASSUME ServerInv, NEW w \in Workers, Put(w) PROVE ServerInv'
<1> DEFINE c == wk[w].conn
           t0 == wk[w]
           rest == Tail(t0.out)
           p == IF rest = <<>> THEN t0.then ELSE t0.pc
           h == IF rest = <<>> THEN "pop" ELSE t0.then
           t == [t0 EXCEPT !.out = rest, !.pc = p, !.then = h]
           o == Append(sock[c].out, Head(t0.out))
           s == IF sock[c].copen THEN [sock[c] EXCEPT !.out = o]
                ELSE [sock[c] EXCEPT !.reset = TRUE]
<1>1. /\ t0.pc = "write" /\ UNCHANGED <<auth, backlog, pool, mixed, cl>>
      /\ wk' = [wk EXCEPT ![w] = t] /\ sock' = [sock EXCEPT ![c] = s]
  BY Zenon DEF Put, ServerVars
<1>2. /\ t0 \in Thread /\ ThreadOK(t0) /\ c \in Clients /\ t0.out \in Seq(Lines)
      /\ sock[c] \in Socket /\ cl[c] \in Client /\ Session(sock[c], cl[c], t0)
      /\ ~sock[c].copen => sock[c].out = <<>>
      /\ sock[c].copen => ~sock[c].reset
      /\ cl' = [cl EXCEPT ![c] = cl[c]]
  <2>1. t0.pc \notin {"pop", "dead"}
    BY <1>1
  <2> QED
    BY <1>1, <2>1, Serving, Zenon
<1>3. /\ t0.out # <<>> /\ t0.then \in {"read", "close", "die"} /\ c # None
      /\ sock[c].out \in Seq(Lines)
  <2>1. /\ t0.then \in {"pop", "read", "close", "die"}
        /\ sock[c].out \in Seq(Lines)
    BY <1>2, Zenon DEF Thread, Socket
  <2> QED
    BY <1>1, <1>2, <2>1 DEF ThreadOK
<1>4. /\ o \o rest = sock[c].out \o t0.out /\ o \in Seq(Lines)
      /\ rest \in Seq(Lines)
  BY <1>2, <1>3, PutLines, Zenon
<1>5. /\ p \in {"read", "close", "die", "write"}
      /\ h \in {"pop", "read", "close", "die"}
      /\ rest = <<>> <=> p # "write"
      /\ p = "write" => h = t0.then
      /\ p = "read" => t0.then = "read"
  BY <1>1, <1>3
<1> HIDE DEF rest, p, h, o
<1>6. /\ t \in Thread /\ t.out = rest /\ t.pc = p /\ t.then = h /\ t.conn = c
      /\ t.keep = t0.keep
  BY <1>2, <1>4, <1>5, Zenon DEF Thread
<1> HIDE DEF t
<1>7. ThreadOK(t) /\ (Hears(t) => Hears(t0))
  BY <1>1, <1>3, <1>5, <1>6 DEF ThreadOK, Hears
<1>8. CASE sock[c].copen
  <2>1. /\ s \in Socket /\ s.out = o /\ s.in = sock[c].in
        /\ s.sopen = sock[c].sopen /\ s.copen = sock[c].copen
        /\ s.reset = sock[c].reset
    BY <1>2, <1>4, <1>8, Zenon DEF Socket
  <2> HIDE DEF s
  <2>2. s.out \o t.out = sock[c].out \o t0.out
    BY <1>4, <1>6, <2>1, Zenon
  <2>3. Session(s, cl[c], t)
    BY <1>2, <1>6, <1>7, <2>1, <2>2, SessionMoved, Zenon
  <2>4. /\ ~s.copen => s.out = <<>>
        /\ s.copen => ~s.reset
    BY <1>2, <1>8, <2>1, Zenon
  <2> QED
    BY <1>1, <1>2, <1>6, <1>7, <2>1, <2>3, <2>4, ThreadLocal, Zenon
<1>9. CASE ~sock[c].copen
  <2>1. /\ s \in Socket /\ s.out = sock[c].out
        /\ s.sopen = sock[c].sopen /\ s.copen = sock[c].copen
    BY <1>2, <1>9, Zenon DEF Socket
  <2> HIDE DEF s
  <2>2. cl[c].pc \in {"new", "done"}
    BY <1>2, <1>9, Zenon DEF ServerInv, Places
  <2>3. Session(s, cl[c], t)
    BY <2>2 DEF Session
  <2>4. /\ ~s.copen => s.out = <<>>
        /\ s.copen => ~s.reset
    BY <1>2, <1>9, <2>1, Zenon
  <2> QED
    BY <1>1, <1>2, <1>6, <1>7, <2>1, <2>3, <2>4, ThreadLocal, Zenon
<1> QED
  BY <1>8, <1>9

\* The lines a client sends are told apart.
LEMMA LinesApart ==
    /\ "STREAM" \notin Logins /\ "STREAM" \notin Commands
    /\ "blank" \notin Logins /\ "QUIT" \notin Logins
    /\ \A q \in Commands : q \notin Logins /\ q # "STREAM"
BY DEF Logins, Commands

\* The first of one or two lines.
LEMMA FirstLine ==
    ASSUME NEW x
    PROVE  /\ Head(<<x>>) = x /\ Tail(<<x>>) = <<>>
           /\ \A y : Head(<<x, y>>) = x /\ Tail(<<x, y>>) = <<y>>
<1>1. Head(<<x>>) = x /\ Tail(<<x>>) = <<>>
  OBVIOUS
<1>2. ASSUME NEW y PROVE Head(<<x, y>>) = x /\ Tail(<<x, y>>) = <<y>>
  OBVIOUS
<1> QED
  BY <1>1, <1>2

\* A line is there for a thread that reads: what the client waits for, what the
\* line is and what is left.
LEMMA HeardLine ==
    ASSUME NEW s \in Socket, NEW r \in Client, NEW t \in Thread,
           Session(s, r, t), Hears(t), t.out = <<>>, s.in # <<>>
    PROVE  LET x == Head(s.in)
               rest == Tail(s.in)
           IN  \/ /\ r.pc = "auth" /\ s.out = <<>> /\ ~t.keep
                  /\ x \in Logins /\ rest = <<>>
               \/ /\ r.pc = "idle" /\ s.out = <<>> /\ ~t.keep
                  /\ x = "STREAM" /\ rest = <<>>
               \/ /\ r.pc = "sizes" /\ s.out = <<>> /\ r.did = <<>>
                  /\ r.res = <<>>
                  /\ \/ x \in Commands /\ rest = <<>>
                     \/ /\ x = "STREAM" /\ ~t.keep
                        /\ \E q \in Commands : rest = <<q>>
               \/ r.pc \notin {"auth", "idle", "sizes", "values"}
<1>1. CASE /\ r.pc = "auth" /\ s.out = <<>> /\ ~t.keep
           /\ \E l \in Logins : s.in = <<l>>
  BY <1>1, FirstLine, Zenon
<1>2. CASE r.pc = "idle" /\ s.out = <<>> /\ ~t.keep /\ s.in = <<"STREAM">>
  BY <1>2, FirstLine, Zenon
<1>3. CASE /\ r.pc = "sizes" /\ s.out = <<>> /\ r.did = <<>> /\ r.res = <<>>
           /\ Asked(s, t)
  <2>1. PICK q \in Commands :
            s.in = <<q>> \/ (s.in = <<"STREAM", q>> /\ ~t.keep)
    BY <1>3, Zenon DEF Asked
  <2>2. CASE s.in = <<q>>
    BY <1>3, <2>2, FirstLine, Zenon
  <2>3. CASE s.in = <<"STREAM", q>> /\ ~t.keep
    <3>1. Head(s.in) = "STREAM" /\ Tail(s.in) = <<q>>
      BY <2>3, FirstLine, Zenon
    <3> QED
      BY <1>3, <2>3, <3>1, Zenon
  <2> QED
    BY <2>1, <2>2, <2>3, Zenon
<1>4. CASE r.pc \notin {"auth", "idle", "sizes", "values"}
  BY <1>4, Zenon
<1>5. \/ /\ r.pc = "auth" /\ s.out = <<>> /\ ~t.keep
         /\ \E l \in Logins : s.in = <<l>>
      \/ r.pc = "idle" /\ s.out = <<>> /\ ~t.keep /\ s.in = <<"STREAM">>
      \/ /\ r.pc = "sizes" /\ s.out = <<>> /\ r.did = <<>> /\ r.res = <<>>
         /\ Asked(s, t)
      \/ r.pc \notin {"auth", "idle", "sizes", "values"}
  BY Heard, Zenon
<1> QED
  BY <1>1, <1>2, <1>3, <1>4, <1>5, Zenon

\* A line is read and answered by a frame.
LEMMA Answered ==
    ASSUME NEW s0 \in Socket, NEW s \in Socket, NEW r0 \in Client,
           NEW r \in Client, NEW t0 \in Thread, NEW t \in Thread,
           Session(s0, r0, t0), Hears(t0), t0.out = <<>>, s0.in # <<>>,
           s.out = s0.out, s.in = Tail(s0.in),
           NEW lines \in Seq(Lines), NEW a \in Seq(Results),
           Len(lines) = Len(a),
           \A i \in 1..Len(a) : ReadBy(r.lib, lines[i]) = a[i],
           t.out = Frame(lines), Hears(t) => t0.keep,
           r.pc = r0.pc, r.res = r0.res, r0.pc = "sizes" => r.did = a,
           Head(s0.in) # "STREAM" \/ t0.keep
    PROVE  Session(s, r, t)
<1> DEFINE x == Head(s0.in)
<1>1. \/ r0.pc = "auth" /\ s0.out = <<>> /\ ~t0.keep
      \/ r0.pc = "idle" /\ ~t0.keep /\ x = "STREAM"
      \/ /\ r0.pc = "sizes" /\ s0.out = <<>> /\ r0.res = <<>>
         /\ (x \in Commands /\ Tail(s0.in) = <<>>) \/ (x = "STREAM" /\ ~t0.keep)
      \/ r0.pc \notin {"auth", "idle", "sizes", "values"}
  BY HeardLine, Zenon
<1> HIDE DEF x
<1>2. CASE r0.pc = "auth" /\ s0.out = <<>> /\ ~t0.keep
  BY <1>2, FrameRefuses, Zenon
<1>3. CASE /\ r0.pc = "sizes" /\ s0.out = <<>> /\ r0.res = <<>>
           /\ Tail(s0.in) = <<>>
  BY <1>3, AnswerBegins, Zenon
<1>4. CASE r0.pc \notin {"auth", "idle", "sizes", "values"}
  BY <1>4, Zenon DEF Session
<1> QED
  BY <1>1, <1>2, <1>3, <1>4, Zenon DEF x

\* A thread that reads, and the socket without the line it takes.
LEMMA Listening ==
    ASSUME ServerInv, NEW w \in Workers,
           wk[w].pc \in {"auth", "read", "request"}, HasLine(w)
    PROVE  LET c == wk[w].conn
               s == [sock[c] EXCEPT !.in = Tail(sock[c].in)]
           IN  /\ wk[w] \in Thread /\ ThreadOK(wk[w]) /\ c \in Clients
               /\ c # None /\ wk[w].out = <<>> /\ Hears(wk[w])
               /\ sock[c] \in Socket /\ cl[c] \in Client
               /\ Session(sock[c], cl[c], wk[w]) /\ sock[c].in # <<>>
               /\ TakeLine(w) <=> sock' = [sock EXCEPT ![c] = s]
               /\ cl' = cl => cl' = [cl EXCEPT ![c] = cl[c]]
               /\ s \in Socket /\ s.in = Tail(sock[c].in) /\ s.out = sock[c].out
               /\ s.sopen = sock[c].sopen /\ s.copen = sock[c].copen
               /\ ~s.copen => s.out = <<>>
               /\ s.copen => ~s.reset
<1> DEFINE c == wk[w].conn
           s == [sock[c] EXCEPT !.in = Tail(sock[c].in)]
<1>1. wk[w].pc \notin {"pop", "dead"} /\ wk[w].pc # "write" /\ Hears(wk[w])
  BY DEF Hears
<1>2. /\ wk[w] \in Thread /\ ThreadOK(wk[w]) /\ c \in Clients
      /\ sock[c] \in Socket /\ cl[c] \in Client
      /\ Session(sock[c], cl[c], wk[w])
      /\ ~sock[c].copen => sock[c].out = <<>>
      /\ sock[c].copen => ~sock[c].reset
      /\ cl' = cl => cl' = [cl EXCEPT ![c] = cl[c]]
  BY <1>1, Serving, Zenon
<1>3. c # None /\ wk[w].out = <<>>
  BY <1>1, <1>2 DEF ThreadOK
<1>4. sock[c].in # <<>> /\ sock[c].in \in Seq(Requests)
  BY <1>2 DEF HasLine, Socket
<1>5. Tail(sock[c].in) \in Seq(Requests)
  BY ONLY <1>4
<1>6. /\ s \in Socket /\ s.in = Tail(sock[c].in) /\ s.out = sock[c].out
      /\ s.sopen = sock[c].sopen /\ s.copen = sock[c].copen
      /\ s.reset = sock[c].reset
  BY <1>2, <1>5, SentSocket, Zenon
<1>7. TakeLine(w) <=> sock' = [sock EXCEPT ![c] = s]
  BY Zenon DEF TakeLine
<1> HIDE DEF s
<1>8. /\ ~s.copen => s.out = <<>>
      /\ s.copen => ~s.reset
  BY <1>2, <1>6, Zenon
<1> QED
  BY <1>1, <1>2, <1>3, <1>4, <1>6, <1>7, <1>8, Zenon DEF s

\* A thread begins to write.
LEMMA Writes ==
    ASSUME NEW t0 \in Thread, t0.conn # None, NEW t \in Thread,
           NEW lines \in Seq(Lines), lines # <<>>,
           NEW h \in {"read", "close", "die"},
           t.pc = "write", t.out = lines, t.then = h, t.conn = t0.conn
    PROVE  ThreadOK(t) /\ (Hears(t) <=> h = "read")
<1>1. t.conn # None /\ t.out # <<>> /\ t.then # "pop"
  OBVIOUS
<1> QED
  BY <1>1 DEF ThreadOK, Hears

\* A thread answers what it has read: values, or the text of an exception.
LEMMA AnswersInv ==
    ASSUME ServerInv, NEW w \in Workers,
           wk[w].pc \in {"auth", "read", "request"}, HasLine(w),
           TakeLine(w), UNCHANGED <<auth, backlog, pool, mixed>>,
           NEW lines \in Seq(Lines), NEW a \in Seq(Results),
           Len(lines) = Len(a),
           \A lib : \A i \in 1..Len(a) : ReadBy(lib, lines[i]) = a[i],
           NEW h \in {"read", "close", "die"},
           h = "read" => wk[w].keep,
           Write(w, Frame(lines), h), Did(w, a),
           Request(w) # "STREAM" \/ wk[w].keep
    PROVE  ServerInv'
<1> DEFINE c == wk[w].conn
           t0 == wk[w]
           s == [sock[c] EXCEPT !.in = Tail(sock[c].in)]
           f == Frame(lines)
           t == [t0 EXCEPT !.pc = "write", !.out = f, !.then = h]
           d == IF cl[c].pc = "sizes" THEN a ELSE cl[c].did
           r == [cl[c] EXCEPT !.did = d]
<1>1. /\ t0 \in Thread /\ ThreadOK(t0) /\ c \in Clients /\ c # None
      /\ t0.out = <<>> /\ Hears(t0) /\ sock[c] \in Socket /\ cl[c] \in Client
      /\ Session(sock[c], cl[c], t0) /\ sock[c].in # <<>>
      /\ sock' = [sock EXCEPT ![c] = s]
      /\ s \in Socket /\ s.in = Tail(sock[c].in) /\ s.out = sock[c].out
      /\ s.sopen = sock[c].sopen /\ s.copen = sock[c].copen
      /\ ~s.copen => s.out = <<>>
      /\ s.copen => ~s.reset
  BY Listening, Zenon
<1> HIDE DEF s
<1>2. wk' = [wk EXCEPT ![w] = t]
  BY Zenon DEF Write
<1>3. cl' = [cl EXCEPT ![c] = r]
  BY Zenon DEF Did
<1>4. f \in Seq(Lines) /\ f # <<>>
  BY FrameLines, Zenon
<1> HIDE DEF f
<1>5. /\ t \in Thread /\ ThreadOK(t) /\ t.conn = c /\ t.out = Frame(lines)
      /\ Hears(t) => t0.keep
  <2>2. t0 \in Thread /\ ThreadOK(t0) /\ t0.conn # None
    BY <1>1, Zenon
  <2>1. /\ t \in Thread /\ ThreadOK(t) /\ t.conn = t0.conn /\ t.out = f
        /\ Hears(t) <=> h = "read"
    <3>1. /\ t \in Thread /\ t.pc = "write" /\ t.out = f /\ t.then = h
          /\ t.conn = t0.conn
      BY <1>4, <2>2, Zenon DEF Thread
    <3> HIDE DEF t0, t
    <3> QED
      BY <1>4, <2>2, <3>1, Writes, Zenon
  <2> QED
    BY <2>1, Zenon DEF f
<1> HIDE DEF t
<1>6. d \in Seq(Results) /\ (cl[c].pc = "sizes" => d = a)
  <2>1. cl[c].did \in Seq(Results)
    BY <1>1, Zenon DEF Client
  <2> QED
    BY <2>1, Zenon
<1> HIDE DEF d
<1>7. /\ r \in Client /\ r.pc = cl[c].pc /\ r.lib = cl[c].lib
      /\ r.res = cl[c].res /\ r.did = d
  BY <1>1, <1>6, Zenon DEF Client
<1> HIDE DEF r
<1>8. Session(s, r, t)
  <2>1. Head(sock[c].in) # "STREAM" \/ t0.keep
    BY DEF Request
  <2>2. \A i \in 1..Len(a) : ReadBy(r.lib, lines[i]) = a[i]
    BY Zenon
  <2>3. cl[c].pc = "sizes" => r.did = a
    BY <1>6, <1>7, Zenon
  <2> DEFINE s0 == sock[c]
             r0 == cl[c]
  <2>4. /\ s0 \in Socket /\ r0 \in Client /\ Session(s0, r0, t0)
        /\ s0.in # <<>> /\ s.in = Tail(s0.in) /\ s.out = s0.out
        /\ r.pc = r0.pc /\ r.res = r0.res /\ (r0.pc = "sizes" => r.did = a)
        /\ Head(s0.in) # "STREAM" \/ t0.keep
    BY <1>1, <1>7, <2>1, <2>3, Zenon
  <2>5. /\ t0 \in Thread /\ Hears(t0) /\ t0.out = <<>> /\ t \in Thread
        /\ t.out = Frame(lines) /\ (Hears(t) => t0.keep)
        /\ s \in Socket /\ r \in Client
    BY <1>1, <1>5, <1>7, Zenon
  <2> HIDE DEF s0, r0, t0
  <2> QED
    BY <2>2, <2>4, <2>5, Answered, Zenon
<1> QED
  BY <1>1, <1>2, <1>3, <1>5, <1>7, <1>8, ThreadLocal, Zenon

\* ... the text of an exception,
LEMMA RescueInv ==
    ASSUME ServerInv, NEW w \in Workers,
           wk[w].pc \in {"auth", "read", "request"}, HasLine(w),
           TakeLine(w), UNCHANGED <<auth, backlog, pool, mixed>>, Rescue(w),
           Request(w) # "STREAM" \/ wk[w].keep
    PROVE  ServerInv'
<1>1. Write(w, Frame(<<Unmarked>>), "die") /\ Did(w, <<Message>>)
  BY Zenon DEF Rescue
<1>2. PICK u \in Seq(Lines), m \in Seq(Results) :
        /\ u = <<Unmarked>> /\ m = <<Message>> /\ Len(u) = Len(m)
        /\ \A lib : \A i \in 1..Len(m) : ReadBy(lib, u[i]) = m[i]
  <2>1. Len(<<Message>>) = 1
    OBVIOUS
  <2>2. \A lib : \A i \in 1..Len(<<Message>>) :
            ReadBy(lib, <<Unmarked>>[i]) = <<Message>>[i]
    BY <2>1, RescueLines, Zenon
  <2> QED
    BY <2>2, RescueLines, Zenon
<1>3. Write(w, Frame(u), "die") /\ Did(w, m)
  BY <1>1, <1>2, Zenon
<1>4. "die" \in {"read", "close", "die"} /\ "die" # "read"
  OBVIOUS
<1> QED
  BY <1>2, <1>3, <1>4, AnswersInv, Zenon

\* ... or values.
LEMMA AnswerInv ==
    ASSUME ServerInv, NEW w \in Workers, NEW a \in Answers,
           wk[w].pc \in {"auth", "read", "request"}, HasLine(w),
           TakeLine(w), UNCHANGED <<auth, backlog, pool, mixed>>, Answer(w, a),
           Request(w) # "STREAM" \/ wk[w].keep
    PROVE  ServerInv'
<1> DEFINE u == [i \in DOMAIN a |-> Encode(a[i])]
           h == IF wk[w].keep THEN "read" ELSE "close"
<1>1. Write(w, Frame(u), h) /\ Did(w, a)
  BY Zenon DEF Answer
<1>2. /\ u \in Seq(Lines) /\ Len(u) = Len(a)
      /\ \A lib : \A i \in 1..Len(a) : ReadBy(lib, u[i]) = a[i]
  BY AnswerLines, Zenon
<1>3. a \in Seq(Results)
  BY AnswersSeq, Zenon
<1>4. h \in {"read", "close", "die"} /\ (h = "read" => wk[w].keep)
  OBVIOUS
<1> HIDE DEF u, h
<1> QED
  BY <1>1, <1>2, <1>3, <1>4, AnswersInv, Zenon

\* AUTH is answered by OK.
LEMMA SessionGrant ==
    ASSUME NEW s0 \in Socket, NEW s \in Socket, NEW r \in Client,
           NEW t0 \in Thread, NEW t \in Thread, Session(s0, r, t0),
           Hears(t0), t0.out = <<>>, s0.in # <<>>, Head(s0.in) \in Logins,
           s.in = Tail(s0.in), s.out = s0.out, t.out = <<Granted>>,
           t.keep = t0.keep
    PROVE  Session(s, r, t)
<1>1. \/ r.pc = "auth" /\ s0.out = <<>> /\ ~t0.keep /\ Tail(s0.in) = <<>>
      \/ r.pc \notin {"auth", "idle", "sizes", "values"}
  BY HeardLine, LinesApart, Zenon
<1>2. CASE r.pc = "auth" /\ s0.out = <<>> /\ ~t0.keep /\ Tail(s0.in) = <<>>
  <2>1. s.out \o t.out = <<Granted>>
    BY <1>2
  <2>2. InAuth(s, t, <<Granted>>)
    BY <1>2, Zenon DEF InAuth
  <2> QED
    BY <1>2, <2>1, <2>2, Zenon DEF Session
<1>3. CASE r.pc \notin {"auth", "idle", "sizes", "values"}
  BY <1>3, Zenon DEF Session
<1> QED
  BY <1>1, <1>2, <1>3

\* A line is answered by "Access denied".
LEMMA SessionDeny ==
    ASSUME NEW s0 \in Socket, NEW s \in Socket, NEW r \in Client,
           NEW t0 \in Thread, NEW t \in Thread, Session(s0, r, t0),
           Hears(t0), t0.out = <<>>, s0.in # <<>>,
           s.out = s0.out, t.out = <<Denied>>, ~Hears(t)
    PROVE  Session(s, r, t)
<1>1. \/ /\ r.pc \in {"auth", "idle", "sizes"} /\ s0.out = <<>>
         /\ r.pc = "sizes" => r.did = <<>> /\ r.res = <<>>
      \/ r.pc \notin {"auth", "idle", "sizes", "values"}
  BY HeardLine, Zenon
<1>2. CASE /\ r.pc \in {"auth", "idle", "sizes"} /\ s0.out = <<>>
           /\ r.pc = "sizes" => r.did = <<>> /\ r.res = <<>>
  <2>1. r.pc \notin {"values"}
    BY <1>2
  <2> QED
    BY <1>2, <2>1, DeniedEnds, Zenon
<1>3. CASE r.pc \notin {"auth", "idle", "sizes", "values"}
  BY <1>3, Zenon DEF Session
<1> QED
  BY <1>1, <1>2, <1>3

\* What becomes of a line before AUTH.
LEMMA AuthResult ==
    ASSUME NEW x
    PROVE  LET result == CASE x \in Logins -> ClientAuth(x)
                           [] x = "blank" -> "raised"
                           [] OTHER -> "denied"
           IN  /\ result = "granted" => x \in Logins
               /\ result = "raised" => x # "STREAM"
<1> DEFINE result == CASE x \in Logins -> ClientAuth(x)
                       [] x = "blank" -> "raised"
                       [] OTHER -> "denied"
<1>1. CASE x \in Logins
  BY <1>1, LinesApart, Zenon
<1>2. CASE x = "blank"
  <2>1. x \notin Logins
    BY <1>2, LinesApart
  <2>2. result = "raised"
    BY <1>2, <2>1
  <2> QED
    BY <1>2, <2>2
<1>3. CASE x \notin Logins /\ x # "blank"
  <2>1. result = "denied"
    BY <1>3
  <2> QED
    BY <2>1
<1> QED
  BY <1>1, <1>2, <1>3

\* The first line of a connection when the server asks for AUTH.
LEMMA AuthenticateInv ==
    ASSUME ServerInv, NEW w \in Workers, Authenticate(w) PROVE ServerInv'
<1> DEFINE c == wk[w].conn
           t0 == wk[w]
           s == [sock[c] EXCEPT !.in = Tail(sock[c].in)]
           x == Head(sock[c].in)
<1>1. /\ t0.pc = "auth" /\ HasLine(w) /\ TakeLine(w)
      /\ UNCHANGED <<auth, backlog, pool, mixed>>
  BY DEF Authenticate, ServerVars
<1>2. t0.pc \in {"auth", "read", "request"}
  BY <1>1
<1>3. /\ t0 \in Thread /\ ThreadOK(t0) /\ c \in Clients /\ c # None
      /\ t0.out = <<>> /\ Hears(t0) /\ sock[c] \in Socket /\ cl[c] \in Client
      /\ Session(sock[c], cl[c], t0) /\ sock[c].in # <<>>
      /\ sock' = [sock EXCEPT ![c] = s]
      /\ cl' = cl => cl' = [cl EXCEPT ![c] = cl[c]]
      /\ s \in Socket /\ s.in = Tail(sock[c].in) /\ s.out = sock[c].out
      /\ s.sopen = sock[c].sopen /\ s.copen = sock[c].copen
      /\ ~s.copen => s.out = <<>>
      /\ s.copen => ~s.reset
  BY <1>1, <1>2, Listening, Zenon
<1> HIDE DEF s
<1>4. \/ x \in Logins /\ Write(w, <<Granted>>, "read") /\ UNCHANGED cl
      \/ Write(w, <<Denied>>, "close") /\ UNCHANGED cl
      \/ x # "STREAM" /\ Rescue(w)
  <2> DEFINE result == CASE x \in Logins -> ClientAuth(x)
                         [] x = "blank" -> "raised"
                         [] OTHER -> "denied"
  <2>1. \/ result = "granted" /\ Write(w, <<Granted>>, "read") /\ UNCHANGED cl
        \/ result = "denied" /\ Write(w, <<Denied>>, "close") /\ UNCHANGED cl
        \/ result = "raised" /\ Rescue(w)
    BY DEF Authenticate, Request
  <2>2. /\ result = "granted" => x \in Logins
        /\ result = "raised" => x # "STREAM"
    BY AuthResult, Zenon
  <2> HIDE DEF result
  <2> QED
    BY <2>1, <2>2, Zenon
<1>5. /\ <<Granted>> \in Seq(Lines) /\ <<Granted>> # <<>>
      /\ <<Denied>> \in Seq(Lines) /\ <<Denied>> # <<>>
  BY DEF Lines
<1>6. ASSUME NEW f \in Seq(Lines), f # <<>>, NEW h \in {"read", "close"},
             Write(w, f, h)
      PROVE  \E t \in Thread : /\ wk' = [wk EXCEPT ![w] = t] /\ ThreadOK(t)
                               /\ t.conn = c /\ t.out = f /\ t.keep = t0.keep
                               /\ Hears(t) <=> h = "read"
  <2> DEFINE t == [t0 EXCEPT !.pc = "write", !.out = f, !.then = h]
  <2>1. wk' = [wk EXCEPT ![w] = t]
    BY <1>6, Zenon DEF Write
  <2>2. h \in {"read", "close", "die"}
    BY <1>6
  <2>3. /\ t \in Thread /\ t.pc = "write" /\ t.out = f /\ t.then = h
        /\ t.conn = c /\ t.keep = t0.keep
    BY <1>3, <1>6, <2>2, Zenon DEF Thread
  <2> HIDE DEF t
  <2>4. ThreadOK(t) /\ (Hears(t) <=> h = "read")
    BY <1>3, <1>6, <2>2, <2>3, Writes, Zenon
  <2> QED
    BY <2>1, <2>3, <2>4, Zenon
<1>7. ASSUME NEW t \in Thread, wk' = [wk EXCEPT ![w] = t], ThreadOK(t),
             t.conn = c, UNCHANGED cl, Session(s, cl[c], t)
      PROVE  ServerInv'
  BY <1>1, <1>3, <1>7, ThreadLocal, Zenon
<1>8. CASE x \in Logins /\ Write(w, <<Granted>>, "read") /\ UNCHANGED cl
  <2>1. PICK t \in Thread : /\ wk' = [wk EXCEPT ![w] = t] /\ ThreadOK(t)
                            /\ t.conn = c /\ t.out = <<Granted>>
                            /\ t.keep = t0.keep
    BY <1>5, <1>6, <1>8, Zenon
  <2>2. Session(s, cl[c], t)
    BY <1>3, <1>8, <2>1, SessionGrant, Zenon
  <2> QED
    BY <1>7, <1>8, <2>1, <2>2, Zenon
<1>9. CASE Write(w, <<Denied>>, "close") /\ UNCHANGED cl
  <2>1. PICK t \in Thread : /\ wk' = [wk EXCEPT ![w] = t] /\ ThreadOK(t)
                            /\ t.conn = c /\ t.out = <<Denied>> /\ ~Hears(t)
    BY <1>5, <1>6, <1>9, Zenon
  <2>2. Session(s, cl[c], t)
    BY <1>3, <2>1, SessionDeny, Zenon
  <2> QED
    BY <1>7, <1>9, <2>1, <2>2, Zenon
<1>10. CASE x # "STREAM" /\ Rescue(w)
  <2>1. Request(w) # "STREAM"
    BY <1>10 DEF Request
  <2> QED
    BY <1>1, <1>2, <1>10, <2>1, RescueInv, Zenon
<1> QED
  BY <1>4, <1>8, <1>9, <1>10

\* STREAM was read: the connection is kept and the request is on the next line.
LEMMA SessionStream ==
    ASSUME NEW s0 \in Socket, NEW s \in Socket, NEW r \in Client,
           NEW t0 \in Thread, NEW t \in Thread, Session(s0, r, t0),
           Hears(t0), t0.out = <<>>, s0.in # <<>>, Head(s0.in) = "STREAM",
           s.in = Tail(s0.in), s.out = s0.out, t.out = <<>>
    PROVE  Session(s, r, t)
<1>1. \/ r.pc = "idle" /\ s0.out = <<>> /\ Tail(s0.in) = <<>>
      \/ /\ r.pc = "sizes" /\ s0.out = <<>> /\ r.did = <<>> /\ r.res = <<>>
         /\ \E q \in Commands : Tail(s0.in) = <<q>>
      \/ r.pc \notin {"auth", "idle", "sizes", "values"}
  BY HeardLine, LinesApart, Zenon
<1>2. s0.out = <<>> => s.out \o t.out = <<>>
  OBVIOUS
<1>3. CASE r.pc = "idle" /\ s0.out = <<>> /\ Tail(s0.in) = <<>>
  <2>1. InIdle(s, t, <<>>)
    BY <1>3, Zenon DEF InIdle
  <2> QED
    BY <1>2, <1>3, <2>1, Zenon DEF Session
<1>4. CASE /\ r.pc = "sizes" /\ s0.out = <<>> /\ r.did = <<>> /\ r.res = <<>>
           /\ \E q \in Commands : Tail(s0.in) = <<q>>
  <2>1. Asked(s, t)
    BY <1>4, Zenon DEF Asked
  <2>2. InSizes(s, r, t, <<>>)
    BY <1>4, <2>1, Zenon DEF InSizes
  <2> QED
    BY <1>2, <1>4, <2>2, Zenon DEF Session
<1>5. CASE r.pc \notin {"auth", "idle", "sizes", "values"}
  BY <1>5, Zenon DEF Session
<1> QED
  BY <1>1, <1>3, <1>4, <1>5

\* What a thread makes of a line.
LEMMA ReadCases ==
    ASSUME NEW w \in Workers, Read(w)
    PROVE  \/ /\ Request(w) = "STREAM" /\ wk[w].pc = "read"
              /\ wk' = [wk EXCEPT ![w].keep = TRUE, ![w].pc = "request"]
              /\ UNCHANGED cl
           \/ Goto(w, "close") /\ UNCHANGED cl
           \/ /\ Request(w) # "STREAM" \/ wk[w].pc = "request"
              /\ \/ Rescue(w) \/ Answer(w, <<Message>>)
                 \/ \E a \in Answers : Answer(w, a)
<1> DEFINE x == Request(w)
<1>1. wk[w].pc \in {"read", "request"}
  BY DEF Read
<1>2. CASE x = "STREAM" /\ wk[w].pc = "read"
  <2>1. x # "QUIT" /\ x # "blank" /\ x \notin Logins
    BY <1>2, LinesApart
  <2> QED
    BY <1>2, <2>1, Zenon DEF Read
<1>3. CASE ~(x = "STREAM" /\ wk[w].pc = "read")
  <2>1. \/ Goto(w, "close") /\ UNCHANGED cl
        \/ Rescue(w) \/ Answer(w, <<Message>>) \/ Execute(w)
    <3>1. CASE x = "QUIT"
      BY <1>3, <3>1, LinesApart DEF Read
    <3>2. CASE x = "blank"
      BY <1>3, <3>2, LinesApart DEF Read
    <3>3. CASE x \in Logins
      <4>1. x # "QUIT" /\ x # "blank"
        BY <3>3, LinesApart
      <4> QED
        BY <1>3, <3>3, <4>1 DEF Read
    <3>4. CASE x # "QUIT" /\ x # "blank" /\ x \notin Logins
      BY <1>3, <3>4 DEF Read
    <3> QED
      BY <3>1, <3>2, <3>3, <3>4
  <2>2. ASSUME Execute(w) PROVE Rescue(w) \/ \E a \in Answers : Answer(w, a)
    BY <2>2, Zenon DEF Execute, Answers
  <2>3. x # "STREAM" \/ wk[w].pc = "request"
    BY <1>1, <1>3
  <2> QED
    BY <2>1, <2>2, <2>3, Zenon
<1> QED
  BY <1>2, <1>3, Zenon

\* A request is read.
LEMMA ReadInv == ASSUME ServerInv, NEW w \in Workers, Read(w) PROVE ServerInv'
<1> DEFINE c == wk[w].conn
           t0 == wk[w]
           s == [sock[c] EXCEPT !.in = Tail(sock[c].in)]
<1>1. /\ t0.pc \in {"read", "request"} /\ HasLine(w) /\ TakeLine(w)
      /\ UNCHANGED <<auth, backlog, pool, mixed>>
  BY Zenon DEF Read, ServerVars
<1>2. t0.pc \in {"auth", "read", "request"} /\ t0.pc # "write"
  BY <1>1
<1>3. /\ t0 \in Thread /\ ThreadOK(t0) /\ c \in Clients /\ c # None
      /\ t0.out = <<>> /\ Hears(t0) /\ sock[c] \in Socket /\ cl[c] \in Client
      /\ Session(sock[c], cl[c], t0) /\ sock[c].in # <<>>
      /\ sock' = [sock EXCEPT ![c] = s]
      /\ cl' = cl => cl' = [cl EXCEPT ![c] = cl[c]]
      /\ s \in Socket /\ s.in = Tail(sock[c].in) /\ s.out = sock[c].out
      /\ s.sopen = sock[c].sopen /\ s.copen = sock[c].copen
      /\ ~s.copen => s.out = <<>>
      /\ s.copen => ~s.reset
  BY <1>1, <1>2, Listening, Zenon
<1> HIDE DEF s
<1>4. ASSUME NEW t \in Thread, wk' = [wk EXCEPT ![w] = t], ThreadOK(t),
             t.conn = c, UNCHANGED cl, Session(s, cl[c], t)
      PROVE  ServerInv'
  BY <1>1, <1>3, <1>4, ThreadLocal, Zenon
<1>5. CASE /\ Request(w) = "STREAM" /\ wk[w].pc = "read"
           /\ wk' = [wk EXCEPT ![w].keep = TRUE, ![w].pc = "request"]
           /\ UNCHANGED cl
  <2> DEFINE t == [t0 EXCEPT !.keep = TRUE, !.pc = "request"]
  <2>1. wk' = [wk EXCEPT ![w] = t]
    BY <1>5, Zenon
  <2>2. /\ t \in Thread /\ t.pc = "request" /\ t.out = t0.out /\ t.conn = c
        /\ t.keep = TRUE
    <3>1. TRUE \in BOOLEAN
      OBVIOUS
    <3> QED
      BY <1>3, <3>1, Zenon DEF Thread
  <2> HIDE DEF t
  <2>3. ThreadOK(t)
    BY <1>3, <2>2, Zenon DEF ThreadOK
  <2>4. Head(sock[c].in) = "STREAM" /\ t.out = <<>>
    BY <1>3, <1>5, <2>2 DEF Request
  <2>5. Session(s, cl[c], t)
    BY <1>3, <2>2, <2>4, SessionStream, Zenon
  <2> QED
    BY <1>4, <1>5, <2>1, <2>2, <2>3, <2>5, Zenon
<1>6. CASE Goto(w, "close") /\ UNCHANGED cl
  <2> DEFINE t == [t0 EXCEPT !.pc = "close"]
  <2>1. wk' = [wk EXCEPT ![w] = t]
    BY <1>6, Zenon DEF Goto
  <2>2. t \in Thread /\ t.pc = "close" /\ t.out = t0.out /\ t.conn = c
    BY <1>3, Zenon DEF Thread
  <2> HIDE DEF t
  <2>3. ThreadOK(t) /\ ~Hears(t)
    BY <1>3, <2>2 DEF ThreadOK, Hears
  <2>4. Session(s, cl[c], t)
    BY <1>3, <2>2, <2>3, SessionEnds, Zenon
  <2> QED
    BY <1>4, <1>6, <2>1, <2>2, <2>3, <2>4, Zenon
<1>7. CASE /\ Request(w) # "STREAM" \/ wk[w].pc = "request"
           /\ \/ Rescue(w) \/ Answer(w, <<Message>>)
              \/ \E a \in Answers : Answer(w, a)
  <2>1. Request(w) # "STREAM" \/ t0.keep
    BY <1>3, <1>7, Zenon DEF ThreadOK
  <2>2. CASE Rescue(w)
    BY <1>1, <1>2, <2>1, <2>2, RescueInv, Zenon
  <2>3. CASE \E a \in Answers : Answer(w, a)
    BY <1>1, <1>2, <2>1, <2>3, AnswerInv, Zenon
  <2>4. <<Message>> \in Answers
    <3>1. <<Message>> # Raised
      BY Zenon DEF Raised, Message, Value
    <3> QED
      BY <3>1 DEF Answers, Changed
  <2> QED
    BY <1>7, <2>2, <2>3, <2>4, Zenon
<1> QED
  BY <1>5, <1>6, <1>7, ReadCases, Zenon

-----------------------------------------------------------------------------
(* All steps, and the theorems.                                            *)

\* A step of a client leaves the variables of the server alone.
LEMMA ClientStepInv ==
    ASSUME ServerInv, NEW c \in Clients, ClientStep(c) \/ Killed(c)
    PROVE  ServerInv'
<1>1. CASE AuthReply(c)
  BY <1>1, AuthReplyInv
<1>2. CASE ReadSizes(c)
  BY <1>2, ReadSizesInv
<1>3. CASE ReadValue(c)
  BY <1>3, ReadValueInv
<1>4. CASE ReadCut(c) \/ ReadEnd(c)
  BY <1>4, ReadCutInv
<1>5. ASSUME NEW line \in Commands, Query(c, line) PROVE ServerInv'
  BY <1>5, QueryInv
<1>6. CASE Close(c) \/ Killed(c)
  BY <1>6, GoneInv
<1> QED
  BY <1>1, <1>2, <1>3, <1>4, <1>5, <1>6, Zenon DEF ClientStep, Commands

\* A step of a thread of the pool.
LEMMA WorkerStepInv ==
    ASSUME ServerInv, NEW w \in Workers, WorkerStep(w) PROVE ServerInv'
<1>1. CASE Pop(w)
  BY <1>1, PopInv
<1>2. CASE GetsFails(w) \/ GetsNil(w)
  BY <1>2, GetsInv
<1>3. CASE Authenticate(w)
  BY <1>3, AuthenticateInv
<1>4. CASE Read(w)
  BY <1>4, ReadInv
<1>5. CASE Put(w)
  BY <1>5, PutInv
<1>6. CASE EndConnection(w) \/ EndThread(w) \/ PutFails(w)
  BY <1>6, EndInv
<1> QED
  BY <1>1, <1>2, <1>3, <1>4, <1>5, <1>6, Zenon DEF WorkerStep

\* Nothing happens to the server.
LEMMA StutterInv == ASSUME ServerInv, UNCHANGED vars PROVE ServerInv'
<1>1. /\ auth' = auth /\ backlog' = backlog /\ pool' = pool /\ wk' = wk
      /\ sock' = sock /\ cl' = cl /\ mixed' = mixed
  BY DEF vars
<1> QED
  BY <1>1, Zenon DEF ServerInv, Types, Places, SessionsOK, AnswersTrue, Queued,
                     HasWorker

\* Every step of the server and of its clients.
LEMMA ServerNext ==
    ASSUME ServerInv, Closed, [Next]_vars PROVE ServerInv'
<1>1. ASSUME NEW c \in Clients, NEW p \in Programs[c],
             Connect(c, p.lib, p.stream, p.login, p.queries)
      PROVE  ServerInv'
  BY <1>1, ConnectInv
<1>2. ASSUME NEW c \in Clients, ConnectFails(c) PROVE ServerInv'
  BY <1>2, ConnectFailsInv
<1>3. ASSUME NEW c \in Clients, ClientStep(c) \/ Killed(c) PROVE ServerInv'
  BY <1>3, ClientStepInv
<1>4. ASSUME NEW w \in Workers, WorkerStep(w) PROVE ServerInv'
  BY <1>4, WorkerStepInv
<1>5. CASE Accept
  BY <1>5, AcceptInv
<1>6. CASE Term
  BY <1>6, TermInv
<1>7. CASE Exit
  BY <1>7, ExitInv
<1>8. CASE UNCHANGED vars
  BY <1>8, StutterInv
<1> QED
  BY <1>1, <1>2, <1>3, <1>4, <1>5, <1>6, <1>7, <1>8, Zenon DEF Next

\* Connections come in only while the server runs, and TERM drops those that
\* wait: a server that is not running has no backlog.
LEMMA ClosedNext == ASSUME Closed, [Next]_vars PROVE Closed'
<1>1. ASSUME NEW c \in Clients, NEW p \in Programs[c],
             Connect(c, p.lib, p.stream, p.login, p.queries)
      PROVE  Closed'
  BY <1>1 DEF Connect, Closed
<1>2. ASSUME UNCHANGED <<srv, backlog>> PROVE Closed'
  BY <1>2 DEF Closed
<1>3. ASSUME NEW c \in Clients, ConnectFails(c) \/ ClientStep(c) \/ Killed(c)
      PROVE  UNCHANGED <<srv, backlog>>
  BY <1>3, Zenon DEF ConnectFails, ClientStep, Killed, Close, Gone, AuthReply,
       ReadSizes, ReadValue, ReadCut, ReadEnd, Query, ClientVars
<1>4. ASSUME NEW w \in Workers, WorkerStep(w) PROVE UNCHANGED <<srv, backlog>>
  BY <1>4, Zenon DEF WorkerStep, Pop, GetsFails, GetsNil, Authenticate, Read,
       Put, PutFails, EndConnection, EndThread, ServerVars
<1>5. CASE Accept
  BY <1>5 DEF Accept, Closed
<1>6. CASE Term
  BY <1>6 DEF Term, Closed
<1>7. CASE Exit
  BY <1>7 DEF Exit, Closed
<1>8. CASE UNCHANGED vars
  BY <1>2, <1>8 DEF vars
<1> QED
  BY <1>1, <1>2, <1>3, <1>4, <1>5, <1>6, <1>7, <1>8, Zenon DEF Next

\* The invariant behind the theorems holds in every reachable state.
LEMMA ServerInductive == Spec => [](ServerInv /\ Closed)
<1>1. Init => ServerInv /\ Closed
  BY InitInv DEF Init, Closed
<1>2. ServerInv /\ Closed /\ [Next]_vars => (ServerInv /\ Closed)'
  BY ServerNext, ClosedNext
<1> QED
  BY <1>1, <1>2, PTL DEF Spec

\* What a query returns is what the command answered to this very query, with
\* the kind and the text of each value (the libraries' query and the worker's
\* write of sizes and values), whatever clients, flags, data and workers.
THEOREM ServerAnswersTrue == Spec => []AnswersTrue
<1>1. ServerInv /\ Closed => AnswersTrue
  BY DEF ServerInv
<1> QED
  BY <1>1, ServerInductive, PTL

\* Where an element is in a queue that has it once: at one place, or at none.
LEMMA PlacesOf ==
    ASSUME NEW q \in Seq(Clients), Once(q), NEW c
    PROVE  /\ Contains(q, c) =>
                Cardinality({i \in DOMAIN q : q[i] = c}) = 1
           /\ ~Contains(q, c) =>
                Cardinality({i \in DOMAIN q : q[i] = c}) = 0
<1> DEFINE S == {i \in DOMAIN q : q[i] = c}
<1>1. ASSUME Contains(q, c) PROVE Cardinality(S) = 1
  <2>1. PICK i \in DOMAIN q : q[i] = c
    BY <1>1 DEF Contains
  <2>2. S = {i}
    BY <2>1, Zenon DEF Once
  <2> QED
    BY <2>2, FS_Singleton, Zenon
<1>2. ASSUME ~Contains(q, c) PROVE Cardinality(S) = 0
  <2>1. S = {}
    BY <1>2 DEF Contains
  <2> QED
    BY <2>1, FS_EmptySet, Zenon
<1> QED
  BY <1>1, <1>2, Zenon

\* The threads with a connection: one, or none.
LEMMA WorkersOf ==
    ASSUME ServerInv, NEW c \in Clients
    PROVE  /\ HasWorker(c) => Cardinality({w \in Workers : wk[w].conn = c}) = 1
           /\ ~HasWorker(c) => Cardinality({w \in Workers : wk[w].conn = c}) = 0
<1> DEFINE S == {w \in Workers : wk[w].conn = c}
<1>1. ASSUME HasWorker(c) PROVE Cardinality(S) = 1
  <2>1. PICK w \in Workers : wk[w].conn = c
    BY <1>1, Zenon DEF HasWorker
  <2>2. c # None
    BY ServerAssumption
  <2>3. \A v \in Workers : wk[v].conn = c => v = w
    BY <2>1, <2>2, Zenon DEF ServerInv, Places
  <2>4. S = {w}
    BY <2>1, <2>3, Zenon
  <2> QED
    BY <2>4, FS_Singleton, Zenon
<1>2. ASSUME ~HasWorker(c) PROVE Cardinality(S) = 0
  <2>1. S = {}
    BY <1>2, Zenon DEF HasWorker
  <2> QED
    BY <2>1, FS_EmptySet, Zenon
<1> QED
  BY <1>1, <1>2, Zenon

\* No client is abandoned: a connection with both ends open is not yet accepted,
\* in the pool or with one worker, and at one of these places only, whatever
\* accept loop, pool, rescues and ends of the threads do (LocalNode#start,
\* WorkerPool).
THEOREM ServerNoClientAbandoned == Spec => []NoClientAbandoned
<1>1. ServerInv => NoClientAbandoned
  <2>0. SUFFICES ASSUME ServerInv PROVE NoClientAbandoned
    OBVIOUS
  <2>1. SUFFICES ASSUME NEW c \in Clients, sock[c].copen, sock[c].sopen
                 PROVE  Cardinality({i \in DOMAIN backlog : backlog[i] = c})
                        + Cardinality({i \in DOMAIN pool : pool[i] = c})
                        + Cardinality({w \in Workers : wk[w].conn = c}) = 1
    BY Zenon DEF NoClientAbandoned
  <2> DEFINE B == Cardinality({i \in DOMAIN backlog : backlog[i] = c})
             P == Cardinality({i \in DOMAIN pool : pool[i] = c})
             W == Cardinality({w \in Workers : wk[w].conn = c})
  <2>2. /\ backlog \in Seq(Clients) /\ Once(backlog)
        /\ pool \in Seq(Clients) /\ Once(pool)
    BY <2>0, Zenon DEF ServerInv, Types, Places
  <2>3. /\ Contains(backlog, c) => B = 1
        /\ ~Contains(backlog, c) => B = 0
    BY <2>2, PlacesOf, Zenon
  <2>4. /\ Contains(pool, c) => P = 1
        /\ ~Contains(pool, c) => P = 0
    BY <2>2, PlacesOf, Zenon
  <2>5. /\ HasWorker(c) => W = 1
        /\ ~HasWorker(c) => W = 0
    BY <2>0, WorkersOf, Zenon
  <2>6. /\ ~(Contains(backlog, c) /\ Contains(pool, c))
        /\ Contains(backlog, c) \/ Contains(pool, c) \/ HasWorker(c)
    BY <2>0, <2>1, Zenon DEF ServerInv, Places, Queued
  <2>7. HasWorker(c) => ~Contains(backlog, c) /\ ~Contains(pool, c)
    <3>1. c # None
      BY ServerAssumption
    <3> QED
      BY <2>0, <3>1, Zenon DEF ServerInv, Places, Queued, HasWorker
  <2> HIDE DEF B, P, W
  <2>8. B + P + W = 1
    BY ONLY <2>3, <2>4, <2>5, <2>6, <2>7
  <2> QED
    BY <2>8, Zenon DEF B, P, W
<1> QED
  BY <1>1, ServerInductive, PTL

\* A session in which both sides wait is one of an empty answer to a client of
\* the Ruby library.
LEMMA WaitsForNothing ==
    ASSUME NEW s \in Socket, NEW r \in Client, NEW t \in Thread,
           Session(s, r, t), r.pc \in {"auth", "sizes", "values"},
           s.out = <<>>, t.out = <<>>, s.in = <<>>, Hears(t)
    PROVE  r.lib = "ruby" /\ r.pc = "values" /\ r.did = <<>>
<1>1. s.out \o t.out = <<>> /\ Len(<<>>) = 0
  OBVIOUS
<1>2. ASSUME NEW x PROVE <<x>> # <<>>
  OBVIOUS
<1>3. ASSUME NEW x, NEW y PROVE <<x, y>> # <<>>
  OBVIOUS
<1>4. r.pc # "auth"
  <2>1. SUFFICES ASSUME r.pc = "auth" PROVE FALSE
    OBVIOUS
  <2>2. InAuth(s, t, <<>>)
    BY <1>1, <2>1, Zenon DEF Session
  <2> QED
    BY <1>2, <2>2, Zenon DEF InAuth
<1>5. r.pc # "sizes"
  <2>1. SUFFICES ASSUME r.pc = "sizes" PROVE FALSE
    OBVIOUS
  <2>2. InSizes(s, r, t, <<>>)
    BY <1>1, <2>1, Zenon DEF Session
  <2>3. Asked(s, t)
    BY <1>2, <2>2, Zenon DEF InSizes
  <2> QED
    BY <1>2, <1>3, <2>3, Zenon DEF Asked
<1>6. r.pc = "values"
  BY <1>4, <1>5
<1>7. InValues(s, r, t, <<>>)
  BY <1>1, <1>6, Zenon DEF Session
<1>8. r.want = 0 => ~(r.want >= 1)
  OBVIOUS
<1> QED
  BY <1>1, <1>6, <1>7, <1>8, Zenon DEF InValues

\* Client and worker never wait for each other, but after one answer: the empty
\* array, after whose sizes the Ruby library expects a value (Client#query of
\* the libraries against Client#read and the block of the pool's threads).
THEOREM ServerNoMutualWait == Spec => []NoMutualWait
<1>1. ServerInv => NoMutualWait
  <2>0. SUFFICES ASSUME ServerInv PROVE NoMutualWait
    OBVIOUS
  <2>1. SUFFICES ASSUME NEW c \in Clients, MutualWait(c)
                 PROVE  /\ cl[c].lib = "ruby" /\ cl[c].pc = "values"
                        /\ cl[c].did = <<>>
    BY Zenon DEF NoMutualWait
  <2>2. PICK w \in Workers : /\ wk[w].conn = c /\ sock[c].in = <<>>
                             /\ wk[w].pc \in {"auth", "read", "request"}
    BY <2>1, Zenon DEF MutualWait
  <2>3. cl[c].pc \in {"auth", "sizes", "values"} /\ sock[c].out = <<>>
    BY <2>1, Zenon DEF MutualWait, Waiting
  <2>4. /\ sock[c] \in Socket /\ cl[c] \in Client /\ wk[w] \in Thread
        /\ ThreadOK(wk[w])
    BY <2>0, Zenon DEF ServerInv, Types
  <2>5. c # None
    BY ServerAssumption
  <2>6. Session(sock[c], cl[c], wk[w])
    BY <2>0, <2>2, <2>5, Zenon DEF ServerInv, SessionsOK
  <2>7. wk[w].out = <<>> /\ Hears(wk[w])
    <3>1. wk[w].pc # "write"
      BY <2>2
    <3> QED
      BY <2>2, <2>4, <3>1, Zenon DEF ThreadOK, Hears
  <2> QED
    BY <2>2, <2>3, <2>4, <2>6, <2>7, WaitsForNothing, Zenon
<1> QED
  BY <1>1, ServerInductive, PTL
=============================================================================
