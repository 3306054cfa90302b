------------------------------- MODULE Server -------------------------------
(***************************************************************************)
(* Connections: client programs with one of the two client libraries       *)
(* (clients/c, clients/ruby), the socket between a client and the server,  *)
(* the accept loop of LocalNode#start and the threads of the worker pool   *)
(* (lib/xfiredb-serv/workerpool.rb).  A socket is two sequences of lines   *)
(* and the two ends of it; what a command finds is any answer of Reply on  *)
(* a container in Contents.                                                *)
(***************************************************************************)
EXTENDS Reply

CONSTANTS Clients,     \* client programs, with one connection each
          Workers,     \* threads of the pool
          Programs,    \* library, flags and bound on the queries of a client
          Contents,    \* containers a query may find, in a sequence
          Indices,     \* indices into a list a query may ask for
          None         \* no connection, no line

Logins == {"AUTH valid", "AUTH wrong", "AUTH unknown"}

ASSUME ServerAssumption ==
    /\ None \notin Clients /\ Indices \subseteq Int
    /\ Programs \in [Clients -> SUBSET [lib : {"c", "ruby"}, stream : BOOLEAN,
                                        login : Logins \cup {None},
                                        queries : Nat]]
    /\ \A n \in DOMAIN Contents :
        Holds(Contents[n], "list") => Contents[n].data \in Seq(Values)

VARIABLES auth,     \* config.auth
          srv,      \* the server: "run", "save" after a TERM, "down"
          backlog,  \* connections not yet accepted
          pool,     \* WorkerPool: connections not yet served
          wk,       \* workers
          sock,     \* sockets
          cl,       \* clients
          mixed     \* history: clients that got another answer than theirs

vars == <<auth, srv, backlog, pool, wk, sock, cl, mixed>>

\* pc of a worker; its connection, Client#keep, the lines it is about to write
\* and where it goes on after them.
IdleWorker == [pc |-> "pop", conn |-> None, keep |-> FALSE, out |-> <<>>,
               then |-> "pop"]

\* Lines to the server and to the client; which ends are open; the connection
\* was reset.
NoSocket == [in |-> <<>>, out |-> <<>>, sopen |-> FALSE, copen |-> FALSE,
             reset |-> FALSE]

\* lib, the STREAM flag, the number of queries left, the values still to read
\* and those read; did: what the command answered.
NewClient == [pc |-> "new", lib |-> "c", stream |-> FALSE, left |-> 0,
              want |-> 0, res |-> <<>>, did |-> <<>>]

Init ==
    /\ auth \in BOOLEAN
    /\ srv = "run" /\ backlog = <<>> /\ pool = <<>>
    /\ wk = [w \in Workers |-> IdleWorker]
    /\ sock = [c \in Clients |-> NoSocket]
    /\ cl = [c \in Clients |-> NewClient]
    /\ mixed = {}
-----------------------------------------------------------------------------
(* Lines to and from the server.                                           *)

Sizes(n) == Line("sizes", n)      \* the sizes of n values, in one line
Granted == Line("OK", "")
Denied == Line("Access denied", "")

\* Mutant: the line of sizes announces one value too many.
FrameLong(lines) == <<Sizes(Len(lines) + 1)>> \o lines
Frame(lines) == <<Sizes(Len(lines))>> \o lines
-----------------------------------------------------------------------------
(* Clients.                                                                *)

ClientVars == <<auth, srv, backlog, pool, wk>>

\* What a client writes after the server has closed is lost.
Sent(c, lines) ==
    [sock EXCEPT ![c].in = IF sock[c].sopen THEN @ \o lines ELSE @]

StreamLine(stream) == IF stream THEN <<"STREAM">> ELSE <<>>

\* xfiredb_connect and xfiredb_auth_client, Client#connect.  With the AUTH flag
\* the STREAM line waits for the answer to the AUTH line.
Connect(c, lib, stream, login, queries) ==
    /\ cl[c].pc = "new" /\ srv = "run"
    /\ sock' = [sock EXCEPT ![c] =
            [NoSocket EXCEPT !.sopen = TRUE, !.copen = TRUE,
                !.in = IF login = None THEN StreamLine(stream) ELSE <<login>>]]
    /\ cl' = [cl EXCEPT ![c] =
            [NewClient EXCEPT !.lib = lib, !.stream = stream, !.left = queries,
                !.pc = IF login = None THEN "idle" ELSE "auth"]]
    /\ backlog' = Append(backlog, c)
    /\ UNCHANGED <<auth, srv, pool, wk, mixed>>

ConnectFails(c) ==
    /\ cl[c].pc = "new" /\ srv # "run"
    /\ cl' = [cl EXCEPT ![c].pc = "done"]
    /\ UNCHANGED <<ClientVars, sock, mixed>>

EOF(c) == sock[c].out = <<>> /\ ~sock[c].sopen
Arrived(c) == sock[c].out # <<>>
Reads(c, line) == Arrived(c) /\ Head(sock[c].out).first = line.first
Took(c) == [sock EXCEPT ![c].out = Tail(@)]

\* The answer to the AUTH line: anything but OK, and the end, is a refusal.
AuthReply(c) ==
    /\ cl[c].pc = "auth"
    /\ \/ /\ Reads(c, Granted)
          /\ sock' = [Took(c) EXCEPT ![c].in =
                        IF sock[c].sopen THEN @ \o StreamLine(cl[c].stream)
                        ELSE @]
          /\ cl' = [cl EXCEPT ![c].pc = "idle"]
       \/ /\ Arrived(c) /\ ~Reads(c, Granted)
          /\ sock' = Took(c)
          /\ cl' = [cl EXCEPT ![c].pc = "refused"]
       \/ /\ EOF(c)
          /\ cl' = [cl EXCEPT ![c].pc = "refused"]
          /\ UNCHANGED sock
    /\ UNCHANGED <<ClientVars, mixed>>

\* xfiredb_query and Client#query write the line ...
Query(c, line) ==
    /\ cl[c].pc = "idle" /\ cl[c].left > 0
    /\ sock' = Sent(c, <<line>>)
    /\ cl' = [cl EXCEPT ![c].pc = "sizes", ![c].left = @ - 1,
                        ![c].res = <<>>, ![c].did = <<>>]
    /\ UNCHANGED <<ClientVars, mixed>>

\* The number of values in a line of num sizes is that of its spaces, and one:
\* an empty line announces one value.
Announced(num) == IF num = 0 THEN 1 ELSE num

\* ... and read the line of sizes.  An empty line, and the end, abort a C client
\* (an assertion of str_split); at the end the Ruby library raises.  "Access
\* denied" has one space; in C its words are sizes of zero, and ptr[-1] is
\* written.
ReadSizes(c) ==
    LET ruby == cl[c].lib = "ruby"
        num == Head(sock[c].out).rest
    IN  /\ cl[c].pc = "sizes"
        /\ \/ /\ Reads(c, Denied) /\ sock' = Took(c)
              /\ cl' = [cl EXCEPT ![c].pc = IF ruby THEN "values"
                                            ELSE "undefined",
                                  ![c].want = 2]
           \/ /\ Reads(c, Sizes(0)) /\ sock' = Took(c)
              /\ cl' = [cl EXCEPT ![c].pc = IF num = 0 /\ ~ruby THEN "failed"
                                            ELSE "values",
                                  ![c].want = Announced(num)]
           \/ /\ EOF(c) /\ UNCHANGED sock
              /\ cl' = [cl EXCEPT ![c].pc = "failed"]
        /\ UNCHANGED <<ClientVars, mixed>>

Parsed(c, line) ==
    IF cl[c].lib = "ruby" THEN process(line) ELSE xfiredb_result_parse(line)

\* A value.  With the last one the query returns.
ReadValue(c) ==
    /\ cl[c].pc = "values" /\ Arrived(c)
    /\ LET res == Append(cl[c].res, Parsed(c, Head(sock[c].out)))
           last == cl[c].want = 1
       IN  /\ cl' = [cl EXCEPT
                ![c].pc = IF last THEN "idle" ELSE @, ![c].want = @ - 1,
                ![c].res = IF last THEN <<>> ELSE res,
                ![c].did = IF last THEN <<>> ELSE @]
           /\ mixed' = IF last /\ res # cl[c].did THEN mixed \cup {c}
                       ELSE mixed
    /\ sock' = Took(c)
    /\ UNCHANGED ClientVars

\* One recv takes the value: fewer bytes than the value has if they have not all
\* arrived, or if its size was counted in characters of several bytes.  The rest
\* is then taken for the next line of sizes.
ReadCut(c) ==
    /\ cl[c].pc = "values" /\ cl[c].lib = "c" /\ Arrived(c)
    /\ cl' = [cl EXCEPT ![c].pc = "undefined"]
    /\ UNCHANGED <<ClientVars, sock, mixed>>

ReadEnd(c) ==
    /\ cl[c].pc = "values" /\ EOF(c)
    /\ cl' = [cl EXCEPT ![c].pc = IF cl[c].lib = "ruby" THEN "failed"
                                  ELSE "undefined"]
    /\ UNCHANGED <<ClientVars, sock, mixed>>

\* xfiredb_disconnect, Client#close (which never sends its QUIT) or the end of
\* the process: a socket closed with lines unread is reset.
Gone(c) ==
    /\ sock' = [sock EXCEPT ![c].copen = FALSE, ![c].out = <<>>,
                            ![c].reset = Arrived(c)]
    /\ cl' = [cl EXCEPT ![c] = [NewClient EXCEPT !.pc = "done"]]
    /\ UNCHANGED <<ClientVars, mixed>>

Close(c) == cl[c].pc \in {"idle", "refused", "failed", "undefined"} /\ Gone(c)
Killed(c) == cl[c].pc \in {"auth", "sizes", "values"} /\ Gone(c)
-----------------------------------------------------------------------------
(* The server.                                                             *)

ServerVars == <<auth, srv, backlog, mixed>>

\* @pool.push(serv.accept)
Accept ==
    /\ srv = "run" /\ backlog # <<>>
    /\ pool' = Append(pool, Head(backlog))
    /\ backlog' = Tail(backlog)
    /\ UNCHANGED <<auth, srv, wk, sock, cl, mixed>>

Contains(queue, c) == \E i \in 1..Len(queue) : queue[i] = c

\* TERM: the listening socket is closed, and with it what was not accepted; the
\* accept loop ends and XFireDB.save waits.
Term ==
    /\ srv = "run"
    /\ srv' = "save"
    /\ sock' = [c \in Clients |-> [sock[c] EXCEPT !.sopen =
                                        @ /\ ~Contains(backlog, c)]]
    /\ backlog' = <<>>
    /\ UNCHANGED <<auth, pool, wk, cl, mixed>>

\* The process ends wherever its workers are.
Exit ==
    /\ srv = "save"
    /\ srv' = "down"
    /\ sock' = [c \in Clients |-> [sock[c] EXCEPT !.sopen = FALSE]]
    /\ pool' = <<>>
    /\ wk' = [w \in Workers |-> [IdleWorker EXCEPT !.pc = "dead"]]
    /\ UNCHANGED <<auth, backlog, cl, mixed>>

Goto(w, pc) == wk' = [wk EXCEPT ![w].pc = pc]

\* Lines are written, then the worker goes on.
Write(w, lines, then) ==
    wk' = [wk EXCEPT ![w].pc = "write", ![w].out = lines, ![w].then = then]

\* The answer, for the history.
Did(w, values) == cl' = [cl EXCEPT ![wk[w].conn].did =
                            IF cl[wk[w].conn].pc = "sizes" THEN values ELSE @]

\* A rescued exception: its text is sent, the stream closed, and next leaves the
\* block of the thread.
Rescue(w) == Write(w, Frame(<<Unmarked>>), "die") /\ Did(w, <<Message>>)

\* The sizes and the values; break unless client.keep.
Answer(w, values) ==
    /\ Write(w, Frame([i \in DOMAIN values |-> Encode(values[i])]),
             IF wk[w].keep THEN "read" ELSE "close")
    /\ Did(w, values)

\* stream = pop, Client.from_stream
Pop(w) ==
    /\ wk[w].pc = "pop" /\ pool # <<>>
    /\ wk' = [wk EXCEPT ![w] = [IdleWorker EXCEPT
                !.pc = IF auth THEN "auth" ELSE "read", !.conn = Head(pool)]]
    /\ pool' = Tail(pool)
    /\ UNCHANGED <<ServerVars, sock, cl>>

\* stream.gets: a line, nil at the end, or the error of a reset connection, which
\* may come in late.
Request(w) == Head(sock[wk[w].conn].in)
HasLine(w) == sock[wk[w].conn].in # <<>>
AtEnd(w) == ~HasLine(w) /\ ~sock[wk[w].conn].copen
TakeLine(w) == sock' = [sock EXCEPT ![wk[w].conn].in = Tail(@)]

\* rescue Errno::ECONNRESET
GetsFails(w) ==
    /\ wk[w].pc \in {"auth", "read", "request"} /\ sock[wk[w].conn].reset
    /\ Goto(w, "die")
    /\ UNCHANGED <<ServerVars, pool, sock, cl>>

GetsNil(w) ==
    /\ wk[w].pc \in {"auth", "read", "request"} /\ AtEnd(w)
    /\ Goto(w, "close")
    /\ UNCHANGED <<ServerVars, pool, sock, cl>>

\* Client#auth: the hash of an unknown user is no hash, which is an exception.
ClientAuth(line) ==
    CASE line = "AUTH valid" -> "granted"
      [] line = "AUTH unknown" -> "raised"
      [] line = "AUTH wrong" -> "denied"

\* A blank line is no command, which is an exception as well; any other line that
\* is not an AUTH is denied.
Authenticate(w) ==
    /\ wk[w].pc = "auth" /\ HasLine(w)
    /\ LET result == CASE Request(w) \in Logins -> ClientAuth(Request(w))
                       [] Request(w) = "blank" -> "raised"
                       [] OTHER -> "denied"
       IN  \/ /\ result = "granted"
              /\ Write(w, <<Granted>>, "read") /\ UNCHANGED cl
           \/ /\ result = "denied"
              /\ Write(w, <<Denied>>, "close") /\ UNCHANGED cl
           \/ result = "raised" /\ Rescue(w)
    /\ TakeLine(w)
    /\ UNCHANGED <<ServerVars, pool>>

\* What the commands that change the database answer.
Changed == {<<OK>>, <<Nil>>, <<Message>>, Raised}
           \cup {<<Number(1)>>} \cup {<<Text(v)>> : v \in Values}

\* What the others find, asked for members or entries of any container.
Members == {<<>>} \cup {<<s>> : s \in SubKeys}
Found ==
    LET In(c) == {GET(c), LSIZE(c), MSIZE(c)}
                 \cup {LREF(c, i) : i \in Indices}
                 \cup {LREFRange(c, i, j) : i, j \in Indices}
                 \cup {MREF(c, h) : h \in Members}
                 \cup {SINCLUDE(c, h) : h \in Members}
    IN  UNION {In(Contents[n]) : n \in DOMAIN Contents}

\* cluster.query(client)
Execute(w) ==
    \E values \in Changed \cup Found :
        IF values = Raised THEN Rescue(w) ELSE Answer(w, values)

\* Mutant: STREAM is answered like a command.
ReadAnswersStream(w) ==
    /\ wk[w].pc \in {"read", "request"} /\ HasLine(w)
    /\ CASE Request(w) = "STREAM" ->
                /\ wk' = [wk EXCEPT ![w].keep = TRUE, ![w].pc = "write",
                        ![w].out = Frame(<<Encode(OK)>>), ![w].then = "read"]
                /\ UNCHANGED cl
         [] Request(w) = "QUIT" -> Goto(w, "close") /\ UNCHANGED cl
         [] Request(w) = "blank" -> Rescue(w)
         [] Request(w) \in Logins -> Answer(w, <<Message>>)
         [] OTHER -> Execute(w)
    /\ TakeLine(w)
    /\ UNCHANGED <<ServerVars, pool>>

\* Client#read: after STREAM the request is on the next line; a blank line has
\* no request to set the address of.  AUTH is no command.
Read(w) ==
    /\ wk[w].pc \in {"read", "request"} /\ HasLine(w)
    /\ CASE Request(w) = "STREAM" /\ wk[w].pc = "read" ->
                /\ wk' = [wk EXCEPT ![w].keep = TRUE, ![w].pc = "request"]
                /\ UNCHANGED cl
         [] Request(w) = "QUIT" -> Goto(w, "close") /\ UNCHANGED cl
         [] Request(w) = "blank" -> Rescue(w)
         [] Request(w) \in Logins -> Answer(w, <<Message>>)
         [] OTHER -> Execute(w)
    /\ TakeLine(w)
    /\ UNCHANGED <<ServerVars, pool>>

\* stream.puts: what is written to a client that has gone is lost and answered
\* with a reset.
Put(w) ==
    LET c == wk[w].conn
        rest == Tail(wk[w].out)
    IN  /\ wk[w].pc = "write"
        /\ sock' = IF sock[c].copen
                   THEN [sock EXCEPT ![c].out = Append(@, Head(wk[w].out))]
                   ELSE [sock EXCEPT ![c].reset = TRUE]
        /\ wk' = [wk EXCEPT ![w].out = rest,
                            ![w].pc = IF rest = <<>> THEN wk[w].then ELSE @,
                            ![w].then = IF rest = <<>> THEN "pop" ELSE @]
        /\ UNCHANGED <<ServerVars, pool, cl>>

\* Writing fails; so does the writing of the rescue, and the thread ends.
PutFails(w) ==
    /\ wk[w].pc = "write" /\ sock[wk[w].conn].reset
    /\ wk' = [wk EXCEPT ![w] = [IdleWorker EXCEPT !.pc = "dead"]]
    /\ UNCHANGED <<ServerVars, pool, sock, cl>>

CloseStream(w) == sock' = [sock EXCEPT ![wk[w].conn].sopen = FALSE,
                                       ![wk[w].conn].in = <<>>]

\* Mutant: the end of a session leaves the stream open.
EndConnectionOpen(w) ==
    /\ wk[w].pc = "close"
    /\ wk' = [wk EXCEPT ![w] = IdleWorker]
    /\ UNCHANGED <<ServerVars, pool, sock, cl>>

\* client.stream.close, and the next connection
EndConnection(w) ==
    /\ wk[w].pc = "close"
    /\ CloseStream(w)
    /\ wk' = [wk EXCEPT ![w] = IdleWorker]
    /\ UNCHANGED <<ServerVars, pool, cl>>

\* Mutant: a rescued error leaves the stream open.
EndThreadOpen(w) ==
    /\ wk[w].pc = "die"
    /\ wk' = [wk EXCEPT ![w] = [IdleWorker EXCEPT !.pc = "dead"]]
    /\ UNCHANGED <<ServerVars, pool, sock, cl>>

EndThread(w) ==
    /\ wk[w].pc = "die"
    /\ CloseStream(w)
    /\ wk' = [wk EXCEPT ![w] = [IdleWorker EXCEPT !.pc = "dead"]]
    /\ UNCHANGED <<ServerVars, pool, cl>>
-----------------------------------------------------------------------------
ClientStep(c) ==
    \/ AuthReply(c) \/ ReadSizes(c) \/ ReadValue(c) \/ ReadCut(c) \/ ReadEnd(c)
    \/ \E line \in {"query", "blank", "QUIT"} : Query(c, line)
    \/ Close(c)

WorkerStep(w) ==
    \/ Pop(w) \/ GetsFails(w) \/ GetsNil(w) \/ Authenticate(w) \/ Read(w)
    \/ Put(w) \/ PutFails(w) \/ EndConnection(w) \/ EndThread(w)

Next ==
    \/ \E c \in Clients :
        \/ \E p \in Programs[c] :
            Connect(c, p.lib, p.stream, p.login, p.queries)
        \/ ConnectFails(c) \/ ClientStep(c) \/ Killed(c)
    \/ \E w \in Workers : WorkerStep(w)
    \/ Accept \/ Term \/ Exit

\* The threads of the server run, and a client goes on: it reads what arrives
\* and closes its connection in the end.
Fairness ==
    /\ \A c \in Clients : WF_vars(ClientStep(c))
    /\ \A w \in Workers : WF_vars(WorkerStep(w))
    /\ WF_vars(Accept) /\ WF_vars(Exit)

Spec == Init /\ [][Next]_vars /\ Fairness
-----------------------------------------------------------------------------
Waiting(c) == cl[c].pc \in {"auth", "sizes", "values"}

\* A connection with both ends open is at exactly one place: not yet accepted,
\* in the pool, or with one worker.  No rescue forgets a client that is still
\* there, and no two workers write to it.
NoClientAbandoned ==
    \A c \in Clients : sock[c].copen /\ sock[c].sopen =>
        Cardinality({i \in DOMAIN backlog : backlog[i] = c})
        + Cardinality({i \in DOMAIN pool : pool[i] = c})
        + Cardinality({w \in Workers : wk[w].conn = c}) = 1

\* Whatever flags client and server have, what a query returns is what the
\* command answered to this very query, with the kind and the text of each
\* value: a string "nil" is not nil.
AnswersTrue == mixed = {}

\* The client waits for a line and its worker for another.
MutualWait(c) ==
    /\ Waiting(c) /\ sock[c].out = <<>>
    /\ \E w \in Workers : /\ wk[w].conn = c /\ sock[c].in = <<>>
                          /\ wk[w].pc \in {"auth", "read", "request"}

\* Client and worker never wait for each other, but for one answer: the empty
\* array of an MREF without members, after which the Ruby library expects a
\* value.
NoMutualWait ==
    \A c \in Clients : MutualWait(c) =>
        cl[c].lib = "ruby" /\ cl[c].pc = "values" /\ cl[c].did = <<>>

\* A client that waits gets an answer or the end of the connection, as long as
\* some worker is left: alive, and not held by such a mutual wait.
Served ==
    \A c \in Clients : Waiting(c) ~>
        \/ ~Waiting(c) \/ MutualWait(c)
        \/ \A w \in Workers : wk[w].pc = "dead"
        \/ \E w \in Workers, d \in Clients : wk[w].conn = d /\ MutualWait(d)
=============================================================================
