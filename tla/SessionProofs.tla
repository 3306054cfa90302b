--------------------------- MODULE SessionProofs ---------------------------
(***************************************************************************)
(* The invariant behind the theorems about connections (ServerProofs):     *)
(* where each connection is, and for each step of a client what is still   *)
(* to come from the server and which lines the server has still to read.   *)
(* It holds initially, and the steps of the clients preserve it, for any   *)
(* number of clients and workers, any programs of the clients and any      *)
(* data.                                                                   *)
(***************************************************************************)
EXTENDS Server, TLAPS

\* What commands answer, and the lines they are sent in.
Answers == (Changed \cup Found) \ {Raised}
Results == UNION {{a[i] : i \in DOMAIN a} : a \in Answers}
Lines == [first : {"sizes"}, rest : Nat] \cup {Granted, Denied, Unmarked}
         \cup {Encode(v) : v \in Results}
Commands == {"query", "blank", "QUIT"}
Requests == Logins \cup Commands \cup {"STREAM"}

Socket == [in : Seq(Requests), out : Seq(Lines),
           sopen : BOOLEAN, copen : BOOLEAN, reset : BOOLEAN]
Client == [pc : {"new", "auth", "idle", "sizes", "values", "refused", "failed",
                 "undefined", "done"},
           lib : {"c", "ruby"}, stream : BOOLEAN, left : Nat, want : Int,
           res : Seq(Results), did : Seq(Results)]
Thread == [pc : {"pop", "auth", "read", "request", "write", "close", "die",
                 "dead"},
           conn : Clients \cup {None}, keep : BOOLEAN, out : Seq(Lines),
           then : {"pop", "read", "close", "die"}]

\* A thread has a connection from Pop to the end of it and lines while it
\* writes; only a client that is kept has a request after its STREAM.
ThreadOK(t) ==
    /\ t.conn = None <=> t.pc \in {"pop", "dead"}
    /\ t.out # <<>> <=> t.pc = "write"
    /\ t.pc = "write" => t.then # "pop"
    /\ t.pc = "request" => t.keep

Types ==
    /\ auth \in BOOLEAN
    /\ backlog \in Seq(Clients) /\ pool \in Seq(Clients)
    /\ wk \in [Workers -> Thread] /\ \A w \in Workers : ThreadOK(wk[w])
    /\ sock \in [Clients -> Socket] /\ cl \in [Clients -> Client]

Once(s) == \A i, j \in DOMAIN s : s[i] = s[j] => i = j
Queued(c) == Contains(backlog, c) \/ Contains(pool, c)
HasWorker(c) == \E w \in Workers : wk[w].conn = c

\* Every connection is at one place at most, and at none once the server has
\* closed it; a reset needs a client that has gone.
Places ==
    /\ Once(backlog) /\ Once(pool)
    /\ \A c \in Clients :
        /\ ~(Contains(backlog, c) /\ Contains(pool, c))
        /\ Queued(c) \/ HasWorker(c) => sock[c].sopen /\ cl[c].pc # "new"
        /\ sock[c].copen /\ sock[c].sopen => Queued(c) \/ HasWorker(c)
        /\ sock[c].copen <=> cl[c].pc \notin {"new", "done"}
        /\ ~sock[c].copen => sock[c].out = <<>>
        /\ sock[c].copen => ~sock[c].reset
    /\ \A w \in Workers : wk[w].conn # None =>
        /\ ~Queued(wk[w].conn)
        /\ \A v \in Workers : wk[v].conn = wk[w].conn => v = w

\* The thread will read from its connection again.
Hears(t) ==
    \/ t.pc \in {"auth", "read", "request"}
    \/ t.pc = "write" /\ t.then = "read"

ReadBy(lib, line) ==
    IF lib = "ruby" THEN process(line) ELSE xfiredb_result_parse(line)

\* A session: s is the socket, r the client, t the thread that serves it and T
\* the lines that arrived or are about to.  The answer to AUTH: one line if it
\* is OK, and no more before the client goes on.
InAuth(s, t, T) ==
    /\ T # <<>> /\ T[1].first = Granted.first => T = <<Granted>>
    /\ Hears(t) => /\ ~t.keep
                   /\ \/ T = <<>> /\ \E l \in Logins : s.in = <<l>>
                      \/ T = <<Granted>> /\ s.in = <<>>

\* Between queries nothing is left of an answer; what may come is the refusal of
\* a STREAM without AUTH, and that is the end.
InIdle(s, t, T) ==
    /\ T = <<>> \/ (T = <<Denied>> /\ ~Hears(t))
    /\ Hears(t) => s.in = <<>> \/ (s.in = <<"STREAM">> /\ ~t.keep)

\* The query is still to be read, STREAM at most before it.
Asked(s, t) ==
    \E q \in Commands : s.in = <<q>> \/ (s.in = <<"STREAM", q>> /\ ~t.keep)

\* Nothing was answered yet, or the refusal, or the sizes and the values; all of
\* them unless the server was stopped.
InSizes(s, r, t, T) ==
    /\ r.res = <<>>
    /\ \/ T = <<>> /\ (Hears(t) => r.did = <<>> /\ Asked(s, t))
       \/ T = <<Denied>> /\ ~Hears(t) /\ r.did = <<>>
       \/ /\ T # <<>> /\ T[1] = Sizes(Len(r.did)) /\ Len(T) <= Len(r.did) + 1
          /\ \A i \in 2..Len(T) : ReadBy(r.lib, T[i]) = r.did[i - 1]
          /\ Hears(t) => s.in = <<>> /\ Len(T) = Len(r.did) + 1

\* The values read are the first ones of the answer, those to come the others;
\* none comes where none was answered.
InValues(s, r, t, T) ==
    /\ Hears(t) => s.in = <<>>
    /\ \/ T = <<>> /\ r.did = <<>> /\ r.lib = "ruby"
       \/ /\ r.did # <<>> /\ r.want >= 1 /\ Len(r.res) + r.want = Len(r.did)
          /\ \A i \in 1..Len(r.res) : r.res[i] = r.did[i]
          /\ Len(T) <= r.want
          /\ \A i \in 1..Len(T) : ReadBy(r.lib, T[i]) = r.did[Len(r.res) + i]
          /\ Hears(t) => Len(T) = r.want

Session(s, r, t) ==
    /\ r.pc = "auth" => InAuth(s, t, s.out \o t.out)
    /\ r.pc = "idle" => InIdle(s, t, s.out \o t.out)
    /\ r.pc = "sizes" => InSizes(s, r, t, s.out \o t.out)
    /\ r.pc = "values" => InValues(s, r, t, s.out \o t.out)

\* A connection without a worker is as good as one whose worker has read nothing
\* yet, or is dead.
Unread == [IdleWorker EXCEPT !.pc = "auth"]
Dead == [IdleWorker EXCEPT !.pc = "dead"]

SessionsOK ==
    /\ \A w \in Workers : wk[w].conn # None =>
        Session(sock[wk[w].conn], cl[wk[w].conn], wk[w])
    /\ \A c \in Clients : ~HasWorker(c) =>
        /\ Queued(c) => Session(sock[c], cl[c], Unread)
        /\ ~Queued(c) => Session(sock[c], cl[c], Dead)

ServerInv == Types /\ Places /\ SessionsOK /\ AnswersTrue
-----------------------------------------------------------------------------
\* Results: what the kinds of values are.
Plain(v) ==
    \/ \E x : v = Text(x)
    \/ \E x : v = Value("number", x)
    \/ v \in {Truth(TRUE), Truth(FALSE), OK, Nil, Message}

\* Both libraries read every value back from its line, kind and text: the mark
\* tells the kind (Reply, clients/c/result.c and clients/ruby result.rb).
LEMMA ReadBack ==
    ASSUME NEW v, Plain(v)
    PROVE  process(Encode(v)) = v /\ xfiredb_result_parse(Encode(v)) = v
<1>1. ASSUME NEW x, v = Text(x)
      PROVE  process(Encode(v)) = v /\ xfiredb_result_parse(Encode(v)) = v
  BY <1>1 DEF Text, Value, Encode, Line, process, xfiredb_result_parse
<1>2. ASSUME NEW x, v = Value("number", x)
      PROVE  process(Encode(v)) = v /\ xfiredb_result_parse(Encode(v)) = v
  BY <1>2 DEF Value, Encode, Line, process, xfiredb_result_parse
<1>3. ASSUME v \in {Truth(TRUE), Truth(FALSE)}
      PROVE  process(Encode(v)) = v /\ xfiredb_result_parse(Encode(v)) = v
  BY <1>3 DEF Truth, Value, Encode, Line, process, xfiredb_result_parse
<1>4. ASSUME v \in {OK, Nil, Message}
      PROVE  process(Encode(v)) = v /\ xfiredb_result_parse(Encode(v)) = v
  BY <1>4 DEF OK, Nil, Message, Value, Encode, Line, process, process_default,
              xfiredb_result_parse
<1> QED
  BY <1>1, <1>2, <1>3, <1>4, Zenon DEF Plain

\* An answer is an array of values with one of the kinds.
IsArray(a) == \E n \in Nat : DOMAIN a = 1..n /\ a = [i \in 1..n |-> a[i]]
PlainArray(a) == IsArray(a) /\ \A i \in DOMAIN a : Plain(a[i])

\* An array of one value.
LEMMA OnePlain == ASSUME NEW v, Plain(v) PROVE PlainArray(<<v>>)
<1>1. <<v>> = [i \in 1..1 |-> <<v>>[i]] /\ DOMAIN <<v>> = 1..1 /\ <<v>>[1] = v
  OBVIOUS
<1>2. IsArray(<<v>>)
  BY <1>1 DEF IsArray
<1> QED
  BY <1>1, <1>2 DEF PlainArray

\* An array of n values.
LEMMA ManyPlain ==
    ASSUME NEW n \in Nat, NEW a, a = [i \in 1..n |-> a[i]],
           \A i \in 1..n : Plain(a[i])
    PROVE  PlainArray(a)
<1>1. DOMAIN a = 1..n
  OBVIOUS
<1>2. IsArray(a)
  BY <1>1 DEF IsArray
<1> QED
  BY <1>1, <1>2 DEF PlainArray

\* Whatever a command answers but an exception is an array of values of known
\* kinds: the commands of lib/xfiredb-serv/storage_commands.rb.
LEMMA AnswersPlain == ASSUME NEW a \in Answers PROVE PlainArray(a)
<1>1. /\ Plain(OK) /\ Plain(Nil) /\ Plain(Message)
      /\ \A b : Plain(Truth(b))
      /\ \A x : Plain(Text(x)) /\ Plain(Number(x))
  <2>1. Plain(OK) /\ Plain(Nil) /\ Plain(Message)
    BY DEF Plain
  <2>2. \A b : Plain(Truth(b))
    BY DEF Plain, Truth
  <2>3. \A x : Plain(Text(x)) /\ Plain(Number(x))
    BY Zenon DEF Plain, Number
  <2> QED
    BY <2>1, <2>2, <2>3
<1>2. CASE a \in Changed
  BY <1>1, <1>2, OnePlain DEF Changed, Answers
<1>3. CASE a \in Found
  <2>1. PICK n \in DOMAIN Contents :
            \/ a \in {GET(Contents[n]), LSIZE(Contents[n]), MSIZE(Contents[n])}
            \/ \E i \in Indices : a = LREF(Contents[n], i)
            \/ \E i, j \in Indices : a = LREFRange(Contents[n], i, j)
            \/ \E h \in Members : a = MREF(Contents[n], h)
            \/ \E h \in Members : a = SINCLUDE(Contents[n], h)
    BY <1>3 DEF Found
  <2> DEFINE c == Contents[n]
  <2> HIDE DEF c
  <2>2. a # Raised /\ (Holds(c, "list") => c.data \in Seq(Values))
    BY ServerAssumption DEF Answers, c
  <2>3. CASE a \in {GET(c), LSIZE(c), MSIZE(c)}
    BY <1>1, <2>2, <2>3, OnePlain DEF GET, LSIZE, MSIZE
  <2>4. ASSUME NEW list, NEW i PROVE Plain(Entry(list, i))
    BY <1>1 DEF Entry
  <2>5. ASSUME NEW i \in Indices, a = LREF(c, i) PROVE PlainArray(a)
    BY <1>1, <2>2, <2>4, <2>5, OnePlain DEF LREF
  <2>6. ASSUME NEW i \in Indices, NEW j \in Indices, a = LREFRange(c, i, j)
        PROVE  PlainArray(a)
    <3>1. CASE ~Holds(c, "list")
      BY <1>1, <2>6, <3>1, OnePlain DEF LREFRange
    <3>2. CASE Holds(c, "list")
      <4> DEFINE lo == IF i < 0 THEN i + Len(c.data) ELSE i
                 hi == IF j < 0 THEN j + Len(c.data) ELSE j
      <4>1. lo \in Int /\ hi \in Int
        BY <2>2, <3>2, ServerAssumption
      <4>2. a = IF lo > hi THEN <<Message>>
                ELSE [k \in 1..(hi - lo + 1) |-> Entry(c.data, lo + k - 1)]
        BY <2>6, <3>2 DEF LREFRange
      <4> HIDE DEF lo, hi
      <4>3. CASE lo > hi
        BY <1>1, <4>2, <4>3, OnePlain
      <4>4. CASE ~(lo > hi)
        <5>1. hi - lo + 1 \in Nat
          BY <4>1, <4>4
        <5>2. a = [k \in 1..(hi - lo + 1) |-> a[k]]
          BY <4>2, <4>4
        <5>3. \A k \in 1..(hi - lo + 1) : Plain(a[k])
          BY <2>4, <4>2, <4>4
        <5> QED
          BY <5>1, <5>2, <5>3, ManyPlain
      <4> QED
        BY <4>3, <4>4
    <3> QED
      BY <3>1, <3>2
  <2>7. ASSUME NEW h \in Members PROVE \E m \in Nat : DOMAIN h = 1..m
    <3>1. h = <<>> \/ \E s \in SubKeys : h = <<s>>
      BY <2>7 DEF Members
    <3>2. DOMAIN h = 1..0 \/ DOMAIN h = 1..1
      BY <3>1
    <3> QED
      BY <3>2, Zenon
  <2>8. ASSUME NEW h \in Members, a = MREF(c, h) PROVE PlainArray(a)
    <3>1. CASE ~Holds(c, "hashmap")
      BY <1>1, <2>8, <3>1, OnePlain DEF MREF
    <3>2. CASE Holds(c, "hashmap")
      <4>1. a = [i \in DOMAIN h |-> IF h[i] \in DOMAIN c.data
                                    THEN Text(c.data[h[i]]) ELSE Nil]
        BY <2>8, <3>2 DEF MREF
      <4>2. PICK m \in Nat : DOMAIN h = 1..m
        BY <2>7
      <4>3. a = [i \in 1..m |-> a[i]] /\ \A i \in 1..m : Plain(a[i])
        BY <1>1, <4>1, <4>2
      <4> QED
        BY <4>3, ManyPlain
    <3> QED
      BY <3>1, <3>2
  <2>9. ASSUME NEW h \in Members, a = SINCLUDE(c, h) PROVE PlainArray(a)
    <3>1. CASE h = <<>> \/ ~Holds(c, "set")
      BY <1>1, <2>9, <3>1, OnePlain DEF SINCLUDE
    <3>2. CASE ~(h = <<>> \/ ~Holds(c, "set"))
      <4>1. a = [i \in DOMAIN h |-> Truth(h[i] \in c.data)]
        BY <2>9, <3>2 DEF SINCLUDE
      <4>2. PICK m \in Nat : DOMAIN h = 1..m
        BY <2>7
      <4>3. a = [i \in 1..m |-> a[i]] /\ \A i \in 1..m : Plain(a[i])
        BY <1>1, <4>1, <4>2
      <4> QED
        BY <4>3, ManyPlain
    <3> QED
      BY <3>1, <3>2
  <2> QED
    BY <2>1, <2>3, <2>5, <2>6, <2>8, <2>9 DEF c
<1> QED
  BY <1>2, <1>3 DEF Answers

\* An answer is a sequence of results.
LEMMA AnswersSeq == ASSUME NEW a \in Answers PROVE a \in Seq(Results)
<1>1. PICK n \in Nat : DOMAIN a = 1..n /\ a = [i \in 1..n |-> a[i]]
  BY AnswersPlain DEF PlainArray, IsArray
<1>2. \A i \in 1..n : a[i] \in Results
  BY <1>1 DEF Results
<1> QED
  BY <1>1, <1>2

\* Every result is read back from its line by either library.
LEMMA ResultsBack ==
    ASSUME NEW v \in Results, NEW lib PROVE ReadBy(lib, Encode(v)) = v
<1>1. Plain(v)
  BY AnswersPlain DEF Results, PlainArray
<1> QED
  BY <1>1, ReadBack DEF ReadBy

\* The message of a rescued exception, which has no mark, is a result too.
LEMMA MessageBack ==
    /\ <<Message>> \in Answers /\ Message \in Results
    /\ \A lib : ReadBy(lib, Unmarked) = Message
<1>1. <<Message>> \in Answers
  BY Zenon DEF Answers, Changed, Raised, Message, Value
<1>2. Message \in Results
  BY <1>1 DEF Results
<1>3. \A lib : ReadBy(lib, Unmarked) = Message
  BY DEF ReadBy, Unmarked, Line, process, xfiredb_result_parse, process_default,
         Message, Value
<1> QED
  BY <1>1, <1>2, <1>3

-----------------------------------------------------------------------------
(* The lines to come, seen from the client.                                *)

\* A line is taken from the lines that arrived.
LEMMA TookLines ==
    ASSUME NEW s \in Seq(Lines), NEW more \in Seq(Lines), s # <<>>
    PROVE  /\ s \o more \in Seq(Lines) /\ s \o more # <<>>
           /\ (s \o more)[1] = Head(s) /\ Head(s) \in Lines
           /\ Tail(s) \o more = Tail(s \o more)
OBVIOUS

\* A client takes a line: what is to come then, whatever thread serves it.
LEMMA TookSession ==
    ASSUME NEW s \in Socket, NEW t \in Thread, s.out # <<>>,
           NEW u \in Socket, u.out = Tail(s.out)
    PROVE  \E T \in Seq(Lines) :
            /\ T = s.out \o t.out /\ T # <<>> /\ T[1] = Head(s.out)
            /\ u.out \o t.out = Tail(T) /\ Tail(T) \in Seq(Lines)
            /\ Len(Tail(T)) = Len(T) - 1
            /\ \A i \in 1..Len(Tail(T)) : Tail(T)[i] = T[i + 1]
<1> DEFINE o == s.out
           m == t.out
<1>1. o \in Seq(Lines) /\ m \in Seq(Lines) /\ o # <<>>
  BY DEF Socket, Thread
<1> HIDE DEF o, m
<1>2. PICK T \in Seq(Lines) : /\ T = o \o m /\ T # <<>> /\ T[1] = Head(o)
                             /\ Tail(o) \o m = Tail(T)
  BY <1>1, TookLines, Zenon
<1>3. /\ Tail(T) \in Seq(Lines) /\ Len(Tail(T)) = Len(T) - 1
      /\ \A i \in 1..Len(Tail(T)) : Tail(T)[i] = T[i + 1]
  BY <1>2
<1> QED
  BY <1>2, <1>3, Zenon DEF o, m

\* A line is written: the lines to come are the same.
LEMMA PutLines ==
    ASSUME NEW s \in Seq(Lines), NEW more \in Seq(Lines), more # <<>>
    PROVE  /\ Append(s, Head(more)) \o Tail(more) = s \o more
           /\ Append(s, Head(more)) \in Seq(Lines) /\ Tail(more) \in Seq(Lines)
OBVIOUS

\* The frame of an answer: the sizes and one line for each value.
LEMMA FrameLines ==
    ASSUME NEW lines \in Seq(Lines)
    PROVE  /\ Frame(lines) \in Seq(Lines) /\ Len(Frame(lines)) = Len(lines) + 1
           /\ Frame(lines) # <<>> /\ Frame(lines)[1] = Sizes(Len(lines))
           /\ \A i \in 2..Len(Frame(lines)) : Frame(lines)[i] = lines[i - 1]
<1>1. Sizes(Len(lines)) \in Lines
  BY DEF Sizes, Line, Lines
<1> DEFINE z == Sizes(Len(lines))
<1> HIDE DEF z
<1>2. z \in Lines
  BY <1>1 DEF z
<1>3. /\ <<z>> \o lines \in Seq(Lines) /\ Len(<<z>> \o lines) = Len(lines) + 1
      /\ <<z>> \o lines # <<>> /\ (<<z>> \o lines)[1] = z
      /\ \A i \in 2..(Len(lines) + 1) : (<<z>> \o lines)[i] = lines[i - 1]
  BY <1>2
<1> QED
  BY <1>3 DEF Frame, z

\* The lines of an answer, and what the client will make of them.
LEMMA AnswerLines ==
    ASSUME NEW a \in Answers
    PROVE  LET lines == [i \in DOMAIN a |-> Encode(a[i])]
           IN  /\ lines \in Seq(Lines) /\ Len(lines) = Len(a)
               /\ \A lib : \A i \in 1..Len(a) : ReadBy(lib, lines[i]) = a[i]
<1>1. a \in Seq(Results)
  BY AnswersSeq
<1>2. \A i \in 1..Len(a) : a[i] \in Results /\ Encode(a[i]) \in Lines
  BY <1>1 DEF Lines
<1>3. [i \in DOMAIN a |-> Encode(a[i])] = [i \in 1..Len(a) |-> Encode(a[i])]
  BY <1>1
<1>4. /\ [i \in 1..Len(a) |-> Encode(a[i])] \in Seq(Lines)
      /\ Len([i \in 1..Len(a) |-> Encode(a[i])]) = Len(a)
  BY <1>1, <1>2
<1> QED
  BY <1>2, <1>3, <1>4, ResultsBack

\* The lines of a rescued exception.
LEMMA RescueLines ==
    /\ <<Unmarked>> \in Seq(Lines) /\ Len(<<Unmarked>>) = Len(<<Message>>)
    /\ \A lib : \A i \in 1..1 : ReadBy(lib, <<Unmarked>>[i]) = <<Message>>[i]
    /\ <<Message>> \in Seq(Results)
<1>1. Unmarked \in Lines /\ Message \in Results
  BY MessageBack DEF Lines
<1>2. <<Unmarked>>[1] = Unmarked /\ <<Message>>[1] = Message
  OBVIOUS
<1>3. \A i \in 1..1 : i = 1
  OBVIOUS
<1>4. \A lib : ReadBy(lib, Unmarked) = Message
  BY MessageBack
<1> QED
  BY <1>1, <1>2, <1>3, <1>4

\* An answer begins for a client that waits for it.
LEMMA AnswerBegins ==
    ASSUME NEW s \in Socket, NEW r \in Client, NEW t \in Thread,
           NEW lines \in Seq(Lines), NEW a \in Seq(Results),
           Len(lines) = Len(a),
           \A i \in 1..Len(a) : ReadBy(r.lib, lines[i]) = a[i],
           s.out = <<>>, t.out = Frame(lines),
           r.pc = "sizes" /\ r.res = <<>> /\ r.did = a,
           Hears(t) => s.in = <<>>
    PROVE  Session(s, r, t)
<1> DEFINE T == Frame(lines)
<1>1. s.out \o t.out = T
  BY FrameLines
<1>2. /\ T # <<>> /\ T[1] = Sizes(Len(a)) /\ Len(T) = Len(a) + 1
      /\ \A i \in 2..Len(T) : T[i] = lines[i - 1]
  BY FrameLines
<1> HIDE DEF T
<1>3. \A i \in 2..Len(T) : ReadBy(r.lib, T[i]) = a[i - 1]
  BY <1>2
<1> QED
  BY <1>1, <1>2, <1>3 DEF Session, InSizes

\* A client that waits for the answer to AUTH sees a frame as a refusal.
LEMMA FrameRefuses ==
    ASSUME NEW s \in Socket, NEW r \in Client, NEW t \in Thread,
           NEW lines \in Seq(Lines), s.out = <<>>, t.out = Frame(lines),
           r.pc = "auth", ~Hears(t)
    PROVE  Session(s, r, t)
<1>1. s.out \o t.out = Frame(lines)
  BY FrameLines
<1>2. Frame(lines)[1].first # Granted.first
  <2>1. Frame(lines)[1] = Sizes(Len(lines))
    BY FrameLines
  <2>2. Sizes(Len(lines)).first = "sizes" /\ Granted.first = "OK"
    BY DEF Sizes, Granted, Line
  <2> QED
    BY <2>1, <2>2
<1> QED
  BY <1>1, <1>2 DEF Session, InAuth

\* Denied is one line, and the end of the session.
LEMMA DeniedEnds ==
    ASSUME NEW s \in Socket, NEW r \in Client, NEW t \in Thread,
           s.out = <<>>, t.out = <<Denied>>, ~Hears(t),
           r.pc \notin {"values"},
           r.pc = "sizes" => r.did = <<>> /\ r.res = <<>>
    PROVE  Session(s, r, t)
<1>1. s.out \o t.out = <<Denied>>
  OBVIOUS
<1>2. <<Denied>>[1].first # Granted.first
  BY Zenon DEF Denied, Granted, Line
<1> QED
  BY <1>1, <1>2, Zenon DEF Session, InAuth, InIdle, InSizes

\* Nobody reads what is left to read any more.
LEMMA SessionEnds ==
    ASSUME NEW s \in Socket, NEW s2 \in Socket, NEW r \in Client,
           NEW t \in Thread, NEW t2 \in Thread, Session(s, r, t),
           s2.out = s.out, t2.out = t.out, ~Hears(t2)
    PROVE  Session(s2, r, t2)
BY Zenon DEF Session, InAuth, InIdle, InSizes, InValues

\* The server stops: what it was about to write is lost.
LEMMA SessionCut ==
    ASSUME NEW s \in Socket, NEW s2 \in Socket, NEW r \in Client,
           NEW t \in Thread, NEW t2 \in Thread, Session(s, r, t),
           s2.out = s.out, t2.out = <<>>, ~Hears(t2)
    PROVE  Session(s2, r, t2)
<1> DEFINE T == s.out \o t.out
           U == s.out
<1>1. /\ T \in Seq(Lines) /\ U \in Seq(Lines) /\ s2.out \o t2.out = U
      /\ Len(U) <= Len(T) /\ \A i \in 1..Len(U) : U[i] = T[i]
  BY DEF Socket, Thread
<1>2. /\ r.pc = "auth" => InAuth(s, t, T)
      /\ r.pc = "idle" => InIdle(s, t, T)
      /\ r.pc = "sizes" => InSizes(s, r, t, T)
      /\ r.pc = "values" => InValues(s, r, t, T)
  BY DEF Session
<1> HIDE DEF T, U
<1>3. \A x : T = <<x>> => U = <<>> \/ U = <<x>>
  BY <1>1
<1>4. T = <<>> => U = <<>>
  BY <1>1
<1>5. U # <<>> => T # <<>> /\ U[1] = T[1]
  BY <1>1
<1>6. ASSUME r.pc = "auth" PROVE InAuth(s2, t2, U)
  BY <1>2, <1>3, <1>5, <1>6 DEF InAuth
<1>7. ASSUME r.pc = "idle" PROVE InIdle(s2, t2, U)
  BY <1>2, <1>3, <1>4, <1>7 DEF InIdle
<1>8. ASSUME r.pc = "sizes" PROVE InSizes(s2, r, t2, U)
  <2>1. r.did \in Seq(Results)
    BY DEF Client
  <2> QED
    BY <1>1, <1>2, <1>3, <1>4, <1>5, <1>8, <2>1 DEF InSizes
<1>9. ASSUME r.pc = "values" PROVE InValues(s2, r, t2, U)
  <2>1. r.did \in Seq(Results) /\ r.res \in Seq(Results) /\ r.want \in Int
    BY DEF Client
  <2> QED
    BY <1>1, <1>2, <1>4, <1>9, <2>1 DEF InValues
<1> QED
  BY <1>1, <1>6, <1>7, <1>8, <1>9 DEF Session

\* A line is there for a worker that reads: what the client is waiting for, and
\* what the line is.
LEMMA Heard ==
    ASSUME NEW s \in Socket, NEW r \in Client, NEW t \in Thread,
           Session(s, r, t), Hears(t), t.out = <<>>, s.in # <<>>
    PROVE  \/ /\ r.pc = "auth" /\ s.out = <<>> /\ ~t.keep
              /\ \E l \in Logins : s.in = <<l>>
           \/ r.pc = "idle" /\ s.out = <<>> /\ ~t.keep /\ s.in = <<"STREAM">>
           \/ /\ r.pc = "sizes" /\ s.out = <<>> /\ r.did = <<>> /\ r.res = <<>>
              /\ Asked(s, t)
           \/ r.pc \notin {"auth", "idle", "sizes", "values"}
<1>1. s.out \o t.out = s.out
  BY DEF Socket
<1> QED
  BY <1>1 DEF Session, InAuth, InIdle, InSizes, InValues

-----------------------------------------------------------------------------
(* Threads, the initial state and what a step of a client leaves alone.    *)

\* A thread without lines: idle, dead, or one that has taken the connection c.
LEMMA FreshThread ==
    /\ IdleWorker \in Thread /\ IdleWorker.pc = "pop" /\ IdleWorker.conn = None
    /\ ~IdleWorker.keep /\ IdleWorker.out = <<>>
    /\ \A p \in {"auth", "dead"} :
        LET t == [IdleWorker EXCEPT !.pc = p]
        IN  /\ t \in Thread /\ t.pc = p /\ t.conn = None
            /\ ~t.keep /\ t.out = <<>>
    /\ \A p \in {"auth", "read"}, c \in Clients :
        LET t == [IdleWorker EXCEPT !.pc = p, !.conn = c]
        IN  /\ t \in Thread /\ t.pc = p /\ t.conn = c
            /\ ~t.keep /\ t.out = <<>>
<1>1. /\ IdleWorker \in Thread /\ IdleWorker.pc = "pop"
      /\ IdleWorker.conn = None
      /\ ~IdleWorker.keep /\ IdleWorker.out = <<>>
  BY DEF IdleWorker, Thread
<1>2. ASSUME NEW p \in {"auth", "dead"}
      PROVE  LET t == [IdleWorker EXCEPT !.pc = p]
             IN  /\ t \in Thread /\ t.pc = p /\ t.conn = None
                 /\ ~t.keep /\ t.out = <<>>
  <2> DEFINE t == [IdleWorker EXCEPT !.pc = p]
  <2>1. t \in Thread /\ t.pc = p /\ t.conn = None /\ t.out = <<>>
    BY <1>1 DEF Thread
  <2>2. t.keep = IdleWorker.keep
    BY <1>1 DEF Thread
  <2> QED
    BY <1>1, <2>1, <2>2, Zenon
<1>3. ASSUME NEW p \in {"auth", "read"}, NEW c \in Clients
      PROVE  LET t == [IdleWorker EXCEPT !.pc = p, !.conn = c]
             IN  /\ t \in Thread /\ t.pc = p /\ t.conn = c
                 /\ ~t.keep /\ t.out = <<>>
  <2> DEFINE t == [IdleWorker EXCEPT !.pc = p, !.conn = c]
  <2>1. t \in Thread /\ t.pc = p /\ t.conn = c /\ t.out = <<>>
    BY <1>1, Zenon DEF Thread
  <2>2. t.keep = IdleWorker.keep
    BY <1>1 DEF Thread
  <2> QED
    BY <1>1, <2>1, <2>2, Zenon
<1> QED
  BY <1>1, <1>2, <1>3, Zenon

\* The threads that stand for none.
LEMMA NoThread ==
    /\ Unread \in Thread /\ Unread.out = <<>> /\ ~Unread.keep /\ Hears(Unread)
    /\ Dead \in Thread /\ Dead.out = <<>> /\ ~Hears(Dead) /\ Dead.conn = None
    /\ Dead.pc = "dead" /\ ThreadOK(Dead)
<1>1. /\ Unread \in Thread /\ Unread.out = <<>> /\ ~Unread.keep
      /\ Unread.pc = "auth"
  BY FreshThread, Zenon DEF Unread
<1>2. /\ Dead \in Thread /\ Dead.out = <<>> /\ Dead.conn = None
      /\ Dead.pc = "dead"
  BY FreshThread, Zenon DEF Dead
<1> QED
  BY <1>1, <1>2 DEF ThreadOK, Hears

\* Nothing has happened yet.
LEMMA InitInv == Init => ServerInv
<1>1. SUFFICES ASSUME Init PROVE ServerInv
  OBVIOUS
<1>2. IdleWorker \in Thread /\ ThreadOK(IdleWorker) /\ IdleWorker.conn = None
  BY DEF IdleWorker, Thread, ThreadOK
<1>3. /\ NoSocket \in Socket /\ ~NoSocket.copen /\ ~NoSocket.sopen
      /\ NoSocket.out = <<>>
  BY DEF NoSocket, Socket
<1>4. NewClient \in Client /\ NewClient.pc = "new"
  BY DEF NewClient, Client
<1>5. Types
  BY <1>1, <1>2, <1>3, <1>4 DEF Init, Types
<1>6. \A w \in Workers : wk[w].conn = None
  BY <1>1, <1>2 DEF Init
<1>7. \A c \in Clients : ~Queued(c) /\ ~HasWorker(c)
  BY <1>1, <1>6, ServerAssumption DEF Init, Queued, HasWorker, Contains
<1>8. \A c \in Clients : sock[c] = NoSocket /\ cl[c] = NewClient
  BY <1>1 DEF Init
<1>9. Places
  BY <1>1, <1>3, <1>4, <1>6, <1>7, <1>8 DEF Init, Places, Once, Queued
<1>10. SessionsOK
  BY <1>4, <1>6, <1>8 DEF SessionsOK, Session
<1> QED
  BY <1>1, <1>5, <1>9, <1>10 DEF Init, ServerInv, AnswersTrue

\* The client of a connection has a session, served by a thread or not.
LEMMA SessionOf ==
    ASSUME ServerInv, NEW c \in Clients
    PROVE  \E t \in Thread : /\ Session(sock[c], cl[c], t)
                             /\ Hears(t) => sock[c].sopen
<1>1. CASE HasWorker(c)
  BY <1>1, ServerAssumption
     DEF ServerInv, Types, Places, SessionsOK, HasWorker
<1>2. CASE ~HasWorker(c)
  <2>1. /\ Unread \in Thread /\ Dead \in Thread /\ ~Hears(Dead)
    BY NoThread
  <2>2. Queued(c) => sock[c].sopen
    BY DEF ServerInv, Places
  <2>3. /\ Queued(c) => Session(sock[c], cl[c], Unread)
        /\ ~Queued(c) => Session(sock[c], cl[c], Dead)
    BY <1>2 DEF ServerInv, SessionsOK
  <2> QED
    BY <2>1, <2>2, <2>3
<1> QED
  BY <1>1, <1>2

\* A step of a client touches its end of one socket: what it makes of the
\* session, whatever thread serves it, is all there is to show.
LEMMA ClientLocal ==
    ASSUME ServerInv, NEW c \in Clients, NEW s \in Socket, NEW r \in Client,
           UNCHANGED <<auth, backlog, pool, wk, mixed>>,
           sock' = [sock EXCEPT ![c] = s], cl' = [cl EXCEPT ![c] = r],
           s.sopen = sock[c].sopen, r.pc # "new",
           s.copen => sock[c].copen,
           s.copen <=> r.pc # "done",
           ~s.copen => s.out = <<>>, s.copen => ~s.reset,
           \A t \in Thread : Session(sock[c], cl[c], t)
                             /\ (Hears(t) => sock[c].sopen) => Session(s, r, t)
    PROVE  ServerInv'
<1>1. /\ sock'[c] = s /\ cl'[c] = r
      /\ \A d \in Clients : d # c => sock'[d] = sock[d] /\ cl'[d] = cl[d]
  BY DEF ServerInv, Types
<1>2. Types'
  BY DEF ServerInv, Types
<1>3. /\ \A d : (Queued(d) <=> Queued(d)') /\ (HasWorker(d) <=> HasWorker(d)')
      /\ \A d : /\ Contains(backlog', d) <=> Contains(backlog, d)
                /\ Contains(pool', d) <=> Contains(pool, d)
  BY DEF Queued, HasWorker
<1>4. Places'
  <2>1. Once(backlog)' /\ Once(pool)'
    BY DEF ServerInv, Places
  <2>2. ASSUME NEW d \in Clients
        PROVE  /\ ~(Contains(backlog, d) /\ Contains(pool, d))
               /\ Queued(d) \/ HasWorker(d) =>
                     sock'[d].sopen /\ cl'[d].pc # "new"
               /\ sock'[d].copen /\ sock'[d].sopen => Queued(d) \/ HasWorker(d)
               /\ sock'[d].copen <=> cl'[d].pc \notin {"new", "done"}
               /\ ~sock'[d].copen => sock'[d].out = <<>>
               /\ sock'[d].copen => ~sock'[d].reset
    <3>1. CASE d = c
      BY <1>1, <3>1 DEF ServerInv, Places
    <3>2. CASE d # c
      BY <1>1, <3>2 DEF ServerInv, Places
    <3> QED
      BY <3>1, <3>2
  <2>3. \A w \in Workers : wk'[w].conn # None =>
            /\ ~Queued(wk'[w].conn)
            /\ \A v \in Workers : wk'[v].conn = wk'[w].conn => v = w
    BY DEF ServerInv, Places
  <2> QED
    BY <1>3, <2>1, <2>2, <2>3 DEF Places
<1>5. ASSUME NEW w \in Workers, wk[w].conn # None
      PROVE  Session(sock'[wk[w].conn], cl'[wk[w].conn], wk[w])
  <2>1. wk[w] \in Thread /\ wk[w].conn \in Clients
    BY <1>5 DEF ServerInv, Types, Thread
  <2>2. Session(sock[wk[w].conn], cl[wk[w].conn], wk[w])
    BY <1>5 DEF ServerInv, SessionsOK
  <2>3. sock[wk[w].conn].sopen
    BY <2>1 DEF ServerInv, Places, HasWorker
  <2> QED
    BY <1>1, <2>1, <2>2, <2>3
<1>6. ASSUME NEW d \in Clients, ~HasWorker(d)
      PROVE  /\ Queued(d) => Session(sock'[d], cl'[d], Unread)
             /\ ~Queued(d) => Session(sock'[d], cl'[d], Dead)
  <2>1. /\ Unread \in Thread /\ Dead \in Thread /\ ~Hears(Dead)
    BY NoThread
  <2>2. /\ Queued(d) => Session(sock[d], cl[d], Unread)
        /\ ~Queued(d) => Session(sock[d], cl[d], Dead)
    BY <1>6 DEF ServerInv, SessionsOK
  <2>3. Queued(d) => sock[d].sopen
    BY DEF ServerInv, Places
  <2> QED
    BY <1>1, <2>1, <2>2, <2>3
<1>7. SessionsOK'
  BY <1>3, <1>5, <1>6 DEF SessionsOK
<1> QED
  BY <1>2, <1>4, <1>7 DEF ServerInv, AnswersTrue

-----------------------------------------------------------------------------
(* The steps of a client.                                                  *)

\* The socket and the record of a client that is there.
LEMMA ClientThere ==
    ASSUME ServerInv, NEW c \in Clients, cl[c].pc \notin {"new", "done"}
    PROVE  /\ sock[c] \in Socket /\ cl[c] \in Client
           /\ sock[c].copen /\ ~sock[c].reset
           /\ sock[c].out \in Seq(Lines) /\ cl[c].left \in Nat
           /\ cl[c].did \in Seq(Results) /\ cl[c].res \in Seq(Results)
           /\ cl[c].want \in Int /\ cl[c].lib \in {"c", "ruby"}
<1>1. sock[c] \in Socket /\ cl[c] \in Client
  BY DEF ServerInv, Types
<1>2. sock[c].copen /\ ~sock[c].reset
  BY DEF ServerInv, Places
<1> QED
  BY <1>1, <1>2 DEF Socket, Client

\* A line is taken from a socket.
LEMMA TookSocket ==
    ASSUME NEW s \in Socket, s.out # <<>>
    PROVE  LET u == [s EXCEPT !.out = Tail(s.out)]
           IN  /\ u \in Socket /\ u.in = s.in /\ u.out = Tail(s.out)
               /\ u.sopen = s.sopen /\ u.copen = s.copen /\ u.reset = s.reset
<1>1. s.out \in Seq(Lines) /\ Tail(s.out) \in Seq(Lines)
  BY DEF Socket
<1> QED
  BY <1>1, Zenon DEF Socket

\* Lines are written to a socket.
LEMMA SentSocket ==
    ASSUME NEW s \in Socket, NEW x \in Seq(Requests)
    PROVE  LET u == [s EXCEPT !.in = x]
           IN  /\ u \in Socket /\ u.in = x /\ u.out = s.out
               /\ u.sopen = s.sopen /\ u.copen = s.copen /\ u.reset = s.reset
BY DEF Socket

\* What a client writes: a line, after STREAM if that was not read yet.
LEMMA SentLines ==
    ASSUME NEW x \in Seq(Requests), NEW line \in Commands, NEW stream
    PROVE  /\ x \o <<line>> \in Seq(Requests)
           /\ x \o StreamLine(stream) \in Seq(Requests)
           /\ x = <<>> => /\ x \o <<line>> = <<line>>
                          /\ x \o StreamLine(stream) \in {<<>>, <<"STREAM">>}
           /\ x = <<"STREAM">> => x \o <<line>> = <<"STREAM", line>>
<1>1. line \in Requests /\ "STREAM" \in Requests
  BY DEF Requests
<1>2. StreamLine(stream) \in {<<>>, <<"STREAM">>}
  BY DEF StreamLine
<1>3. /\ x \o <<line>> \in Seq(Requests)
      /\ x \o StreamLine(stream) \in Seq(Requests)
  <2>1. /\ <<line>> \in Seq(Requests) /\ <<"STREAM">> \in Seq(Requests)
        /\ <<>> \in Seq(Requests)
    BY <1>1
  <2>2. StreamLine(stream) \in Seq(Requests)
    BY <1>2, <2>1, Zenon
  <2>3. \A y \in Seq(Requests) : x \o y \in Seq(Requests)
    OBVIOUS
  <2> QED
    BY <2>1, <2>2, <2>3, Zenon
<1>4. x = <<>> => x \o <<line>> = <<line>>
  BY <1>1
<1>5. x = <<>> => x \o StreamLine(stream) \in {<<>>, <<"STREAM">>}
  BY <1>1, <1>2
<1>6. x = <<"STREAM">> => x \o <<line>> = <<"STREAM", line>>
  <2>1. ASSUME NEW a \in Requests, NEW b \in Requests
        PROVE  <<a>> \o <<b>> = <<a, b>>
    <3>1. /\ <<a>> \o <<b>> \in Seq(Requests) /\ Len(<<a>> \o <<b>>) = 2
          /\ (<<a>> \o <<b>>)[1] = a /\ (<<a>> \o <<b>>)[2] = b
      OBVIOUS
    <3>2. \A y \in Seq(Requests) : Len(y) = 2 => y = <<y[1], y[2]>>
      OBVIOUS
    <3> QED
      BY <3>1, <3>2, Zenon
  <2> QED
    BY <1>1, <2>1
<1> QED
  BY <1>3, <1>4, <1>5, <1>6

\* A step of a client that takes no line: it gives up.
LEMMA GivesUp ==
    ASSUME ServerInv, NEW c \in Clients, cl[c].pc \notin {"new", "done"},
           NEW p \in {"refused", "failed", "undefined"},
           cl' = [cl EXCEPT ![c].pc = p], UNCHANGED sock,
           UNCHANGED <<auth, backlog, pool, wk, mixed>>
    PROVE  ServerInv'
<1> DEFINE r == [cl[c] EXCEPT !.pc = p]
<1>1. r \in Client /\ r.pc = p
  BY ClientThere DEF Client
<1>2. cl' = [cl EXCEPT ![c] = r] /\ sock' = [sock EXCEPT ![c] = sock[c]]
  BY DEF ServerInv, Types
<1>3. \A t \in Thread : Session(sock[c], r, t)
  BY <1>1 DEF Session
<1> HIDE DEF r
<1> QED
  BY <1>1, <1>2, <1>3, ClientThere, ClientLocal, Zenon

\* ... or that takes one and gives up.
LEMMA TakesAndGivesUp ==
    ASSUME ServerInv, NEW c \in Clients, cl[c].pc \notin {"new", "done"},
           NEW r \in Client, r.pc \in {"refused", "failed", "undefined"},
           Arrived(c), sock' = Took(c), cl' = [cl EXCEPT ![c] = r],
           UNCHANGED <<auth, backlog, pool, wk, mixed>>
    PROVE  ServerInv'
<1> DEFINE s == [sock[c] EXCEPT !.out = Tail(sock[c].out)]
<1>1. /\ s \in Socket /\ s.sopen = sock[c].sopen /\ s.copen = sock[c].copen
      /\ s.reset = sock[c].reset
  BY ClientThere, TookSocket DEF Arrived
<1>2. sock' = [sock EXCEPT ![c] = s]
  BY DEF Took
<1>3. \A t \in Thread : Session(s, r, t)
  BY DEF Session
<1> HIDE DEF s
<1> QED
  BY <1>1, <1>2, <1>3, ClientThere, ClientLocal, Zenon

\* The answer to AUTH was OK: nothing is left of it, and STREAM is sent.
LEMMA SessionGranted ==
    ASSUME NEW s0 \in Socket, NEW s \in Socket, NEW r0 \in Client,
           NEW r \in Client, NEW t \in Thread, Session(s0, r0, t),
           r0.pc = "auth", r.pc = "idle",
           s0.out # <<>>, Head(s0.out).first = Granted.first,
           s.out = Tail(s0.out),
           Hears(t) /\ s0.in = <<>> => s.in = <<>> \/ s.in = <<"STREAM">>
    PROVE  Session(s, r, t)
<1>1. PICK T \in Seq(Lines) :
            /\ T = s0.out \o t.out /\ T # <<>> /\ T[1] = Head(s0.out)
            /\ s.out \o t.out = Tail(T)
  BY TookSession, Zenon
<1>2. InAuth(s0, t, T)
  BY <1>1 DEF Session
<1>3. T = <<Granted>>
  BY <1>1, <1>2, Zenon DEF InAuth
<1>4. Hears(t) => s0.in = <<>> /\ ~t.keep
  BY <1>2, <1>3 DEF InAuth
<1>5. s.out \o t.out = <<>>
  BY <1>1, <1>3
<1>6. InIdle(s, t, s.out \o t.out)
  BY <1>4, <1>5, Zenon DEF InIdle
<1> QED
  BY <1>6 DEF Session

\* The answer to AUTH; STREAM follows if it was OK.
LEMMA AuthReplyInv ==
    ASSUME ServerInv, NEW c \in Clients, AuthReply(c) PROVE ServerInv'
<1> DEFINE s0 == sock[c]
           r0 == cl[c]
<1>1. r0.pc = "auth" /\ UNCHANGED <<auth, backlog, pool, wk, mixed>>
  BY DEF AuthReply, ClientVars
<1>2. /\ s0 \in Socket /\ r0 \in Client /\ s0.copen /\ ~s0.reset
      /\ s0.out \in Seq(Lines)
  BY <1>1, ClientThere
<1>3. CASE /\ Reads(c, Granted)
           /\ sock' = [Took(c) EXCEPT ![c].in =
                        IF sock[c].sopen THEN @ \o StreamLine(cl[c].stream)
                        ELSE @]
           /\ cl' = [cl EXCEPT ![c].pc = "idle"]
  <2> DEFINE s1 == [s0 EXCEPT !.out = Tail(s0.out)]
             x == IF s0.sopen THEN s0.in \o StreamLine(r0.stream) ELSE s0.in
             s == [s1 EXCEPT !.in = x]
             r == [r0 EXCEPT !.pc = "idle"]
  <2>1. s0.out # <<>> /\ Head(s0.out).first = Granted.first
    BY <1>3 DEF Reads, Arrived
  <2>2. /\ s1 \in Socket /\ s1.in = s0.in /\ s1.out = Tail(s0.out)
        /\ s1.sopen = s0.sopen /\ s1.copen = s0.copen /\ s1.reset = s0.reset
    BY <1>2, <2>1, TookSocket, Zenon
  <2>3. s0.in \in Seq(Requests) /\ x \in Seq(Requests)
    <3>1. s0.in \in Seq(Requests)
      BY <1>2 DEF Socket
    <3>2. "query" \in Commands
      BY DEF Commands
    <3> QED
      BY <3>1, <3>2, SentLines, Zenon
  <2>4. sock' = [sock EXCEPT ![c] = s] /\ cl' = [cl EXCEPT ![c] = r]
    <3>1. sock' = [sock EXCEPT ![c] = s]
      BY <1>3, <2>2, Zenon DEF Took, ServerInv, Types
    <3>2. cl' = [cl EXCEPT ![c] = r]
      BY <1>3 DEF ServerInv, Types
    <3> QED
      BY <3>1, <3>2
  <2>5. r \in Client /\ r.pc = "idle"
    BY <1>2, Zenon DEF Client
  <2> HIDE DEF s1
  <2>6. /\ s \in Socket /\ s.in = x /\ s.out = s1.out
        /\ s.sopen = s1.sopen /\ s.copen = s1.copen /\ s.reset = s1.reset
    BY <2>2, <2>3, SentSocket, Zenon
  <2> HIDE DEF s, r
  <2>7. ASSUME NEW t \in Thread, Session(s0, r0, t), Hears(t) => s0.sopen
        PROVE  Session(s, r, t)
    <3>1. s.out = Tail(s0.out)
      BY <2>2, <2>6
    <3>2. Hears(t) /\ s0.in = <<>> => s.in = <<>> \/ s.in = <<"STREAM">>
      <4>1. "query" \in Commands
        BY DEF Commands
      <4> QED
        BY <2>3, <2>6, <2>7, <4>1, SentLines, Zenon
    <3> QED
      BY <1>1, <1>2, <2>1, <2>5, <2>6, <2>7, <3>1, <3>2, SessionGranted, Zenon
  <2> QED
    BY <1>1, <1>2, <2>2, <2>4, <2>5, <2>6, <2>7, ClientLocal, Zenon
<1>4. CASE /\ Arrived(c) /\ ~Reads(c, Granted) /\ sock' = Took(c)
           /\ cl' = [cl EXCEPT ![c].pc = "refused"]
  <2> DEFINE r == [r0 EXCEPT !.pc = "refused"]
  <2>1. r \in Client /\ r.pc = "refused" /\ cl' = [cl EXCEPT ![c] = r]
    BY <1>2, <1>4, Zenon DEF Client
  <2> HIDE DEF r
  <2> QED
    BY <1>1, <1>4, <2>1, TakesAndGivesUp, Zenon
<1>5. CASE cl' = [cl EXCEPT ![c].pc = "refused"] /\ UNCHANGED sock
  BY <1>1, <1>5, GivesUp, Zenon
<1> QED
  BY <1>3, <1>4, <1>5, Zenon DEF AuthReply

\* A query is sent.
LEMMA QueryInv ==
    ASSUME ServerInv, NEW c \in Clients, NEW line \in Commands, Query(c, line)
    PROVE  ServerInv'
<1> DEFINE s0 == sock[c]
           r0 == cl[c]
           x == IF s0.sopen THEN s0.in \o <<line>> ELSE s0.in
           s == [s0 EXCEPT !.in = x]
           r == [r0 EXCEPT !.pc = "sizes", !.left = @ - 1, !.res = <<>>,
                           !.did = <<>>]
<1>1. /\ r0.pc = "idle" /\ r0.left > 0
      /\ UNCHANGED <<auth, backlog, pool, wk, mixed>>
  BY DEF Query, ClientVars
<1>2. /\ s0 \in Socket /\ r0 \in Client /\ s0.copen /\ ~s0.reset
      /\ s0.out \in Seq(Lines) /\ r0.left \in Nat
  BY <1>1, ClientThere
<1>3. s0.in \in Seq(Requests) /\ x \in Seq(Requests)
  <2>1. s0.in \in Seq(Requests)
    BY <1>2 DEF Socket
  <2> QED
    BY <2>1, SentLines, Zenon
<1>4. sock' = [sock EXCEPT ![c] = s] /\ cl' = [cl EXCEPT ![c] = r]
  BY Zenon DEF Query, Sent
<1>5. r \in Client /\ r.pc = "sizes" /\ r.res = <<>> /\ r.did = <<>>
  <2>1. r0.left - 1 \in Nat /\ <<>> \in Seq(Results)
    BY <1>1, <1>2
  <2> QED
    BY <1>2, <2>1, Zenon DEF Client
<1>6. /\ s \in Socket /\ s.in = x /\ s.out = s0.out
      /\ s.sopen = s0.sopen /\ s.copen = s0.copen /\ s.reset = s0.reset
  BY <1>2, <1>3, SentSocket, Zenon
<1> HIDE DEF s, r
<1>7. ASSUME NEW t \in Thread, Session(s0, r0, t), Hears(t) => s0.sopen
      PROVE  Session(s, r, t)
  <2> DEFINE T == s0.out \o t.out
  <2>1. InIdle(s0, t, T)
    BY <1>1, <1>7 DEF Session
  <2> HIDE DEF T
  <2>2. Hears(t) => x = <<line>> \/ (x = <<"STREAM", line>> /\ ~t.keep)
    BY <1>3, <1>7, <2>1, SentLines, Zenon DEF InIdle
  <2>3. Hears(t) => Asked(s, t)
    BY <1>6, <2>2 DEF Asked
  <2>4. InSizes(s, r, t, T)
    BY <1>5, <2>1, <2>3 DEF InSizes, InIdle
  <2> QED
    BY <1>5, <1>6, <2>4 DEF Session, T
<1> QED
  BY <1>1, <1>2, <1>4, <1>5, <1>6, <1>7, ClientLocal, Zenon

\* The length of an empty answer, or of no lines.
LEMMA NoResult == Len(<<>>) = 0
  OBVIOUS

\* An answer that is not empty has a value to read.
LEMMA SomeResult ==
    ASSUME NEW d \in Seq(Results), d # <<>>
    PROVE  Len(d) \in Nat /\ Len(d) # 0 /\ Len(d) >= 1
  OBVIOUS

\* Lines that are there: the first one can be taken.
LEMMA SomeLine ==
    ASSUME NEW T \in Seq(Lines), T # <<>>
    PROVE  1 \in 1..Len(T) /\ Len(T) \in Nat /\ (Len(T) - 1) + 1 = Len(T)
  OBVIOUS

\* Before the first value is read, the next one is counted from the beginning.
LEMMA NoOffset == ASSUME NEW n \in Int PROVE 0 + n = n
  OBVIOUS

\* A refusal is one line.
LEMMA OneDenied ==
    ASSUME NEW T \in Seq(Lines), T = <<Denied>>
    PROVE  T # <<>> /\ T[1].first = "Access denied" /\ Tail(T) = <<>>
<1>1. T[1] = Denied /\ T # <<>> /\ Tail(T) = <<>>
  OBVIOUS
<1>2. Denied.first = "Access denied"
  BY Zenon DEF Denied, Line
<1> QED
  BY <1>1, <1>2, Zenon

\* The lines after the sizes are the values of the answer d.
LEMMA AfterSizes ==
    ASSUME NEW T \in Seq(Lines), NEW U \in Seq(Lines), NEW d \in Seq(Results),
           NEW lib, Len(U) = Len(T) - 1,
           \A i \in 1..Len(U) : U[i] = T[i + 1], Len(T) <= Len(d) + 1,
           \A i \in 2..Len(T) : ReadBy(lib, T[i]) = d[i - 1]
    PROVE  /\ Len(U) <= Len(d) /\ (Len(T) = Len(d) + 1 => Len(U) = Len(d))
           /\ \A i \in 1..Len(U) : ReadBy(lib, U[i]) = d[i]
           /\ d = <<>> => U = <<>>
<1>1. Len(T) \in Nat /\ Len(U) \in Nat /\ Len(d) \in Nat
  OBVIOUS
<1>2. ASSUME NEW i \in 1..Len(U) PROVE ReadBy(lib, U[i]) = d[i]
  <2>1. i + 1 \in 2..Len(T) /\ (i + 1) - 1 = i
    BY <1>1
  <2> QED
    BY <2>1
<1>3. d = <<>> => U = <<>>
  <2>1. d = <<>> => Len(d) = 0
    OBVIOUS
  <2>2. Len(U) = 0 => U = <<>>
    OBVIOUS
  <2> QED
    BY <1>1, <2>1, <2>2
<1> QED
  BY <1>1, <1>2, <1>3

\* Two arrays with the same values are the same.
LEMMA SameResults ==
    ASSUME NEW a \in Seq(Results), NEW b \in Seq(Results), Len(a) = Len(b),
           \A i \in 1..Len(a) : a[i] = b[i]
    PROVE  a = b
  OBVIOUS

\* The next value of an answer is one.
LEMMA NextResult ==
    ASSUME NEW d \in Seq(Results), NEW p \in Seq(Results), NEW n \in Int,
           n >= 1, Len(p) + n = Len(d)
    PROVE  Append(p, d[Len(p) + 1]) \in Seq(Results)
<1>1. Len(p) + 1 \in 1..Len(d)
  OBVIOUS
<1>2. d[Len(p) + 1] \in Results
  BY <1>1
<1> QED
  BY <1>2

\* One more value was read: p became q.
LEMMA AfterValue ==
    ASSUME NEW d \in Seq(Results), NEW p \in Seq(Results), NEW n \in Int,
           n >= 1, Len(p) + n = Len(d), \A i \in 1..Len(p) : p[i] = d[i],
           NEW q \in Seq(Results), q = Append(p, d[Len(p) + 1])
    PROVE  /\ Len(q) = Len(p) + 1 /\ \A i \in 1..Len(q) : q[i] = d[i]
           /\ n = 1 => q = d
<1>1. Len(p) + 1 \in 1..Len(d) /\ Len(p) \in Nat
  OBVIOUS
<1>2. d[Len(p) + 1] \in Results
  BY <1>1
<1>3. /\ Len(q) = Len(p) + 1 /\ q[Len(p) + 1] = d[Len(p) + 1]
      /\ \A i \in 1..Len(p) : q[i] = p[i]
  BY <1>2
<1>4. ASSUME NEW i \in 1..Len(q) PROVE q[i] = d[i]
  <2>1. i \in 1..Len(p) \/ i = Len(p) + 1
    BY <1>1, <1>3
  <2> QED
    BY <1>3, <2>1
<1>5. ASSUME n = 1 PROVE q = d
  <2>1. Len(q) = Len(d)
    BY <1>1, <1>3, <1>5
  <2> QED
    BY <1>4, <2>1, SameResults, Zenon
<1> QED
  BY <1>3, <1>4, <1>5

\* The line of sizes was read: the values are to come.
LEMMA SessionSizes ==
    ASSUME NEW s0 \in Socket, NEW s \in Socket, NEW r0 \in Client,
           NEW r \in Client, NEW t \in Thread, Session(s0, r0, t),
           r0.pc = "sizes", s0.out # <<>>, Head(s0.out).first = "sizes",
           s.out = Tail(s0.out), s.in = s0.in,
           r.lib = r0.lib /\ r.did = r0.did /\ r.res = r0.res, r.pc = "values",
           r.want = Announced(Head(s0.out).rest),
           Head(s0.out).rest = 0 => r.lib = "ruby"
    PROVE  Session(s, r, t)
<1>1. PICK T \in Seq(Lines) :
            /\ T = s0.out \o t.out /\ T # <<>> /\ T[1] = Head(s0.out)
            /\ s.out \o t.out = Tail(T) /\ Tail(T) \in Seq(Lines)
            /\ Len(Tail(T)) = Len(T) - 1
            /\ \A i \in 1..Len(Tail(T)) : Tail(T)[i] = T[i + 1]
  BY TookSession, Zenon
<1>2. InSizes(s0, r0, t, T)
  BY <1>1 DEF Session
<1>3. T # <<Denied>>
  BY <1>1, OneDenied, Zenon
<1>4. /\ r0.res = <<>> /\ T[1] = Sizes(Len(r0.did)) /\ Len(T) <= Len(r0.did) + 1
      /\ \A i \in 2..Len(T) : ReadBy(r0.lib, T[i]) = r0.did[i - 1]
      /\ Hears(t) => s0.in = <<>> /\ Len(T) = Len(r0.did) + 1
  BY <1>1, <1>2, <1>3, Zenon DEF InSizes
<1>5. Sizes(Len(r0.did)).rest = Len(r0.did)
  BY DEF Sizes, Line
<1>6. r.did \in Seq(Results) /\ r.lib \in {"c", "ruby"}
  BY Zenon DEF Client
<1> DEFINE U == Tail(T)
<1>7. /\ U \in Seq(Lines) /\ Len(U) = Len(T) - 1
      /\ \A i \in 1..Len(U) : U[i] = T[i + 1]
  BY <1>1, Zenon
<1> HIDE DEF U
<1>8. /\ Len(U) <= Len(r.did)
      /\ Len(T) = Len(r.did) + 1 => Len(U) = Len(r.did)
      /\ \A i \in 1..Len(U) : ReadBy(r.lib, U[i]) = r.did[i]
      /\ r.did = <<>> => U = <<>>
  <2>1. /\ Len(T) <= Len(r.did) + 1
        /\ \A i \in 2..Len(T) : ReadBy(r.lib, T[i]) = r.did[i - 1]
    BY <1>4, Zenon
  <2> DEFINE d == r.did
             l == r.lib
  <2>2. /\ d \in Seq(Results) /\ Len(T) <= Len(d) + 1
        /\ \A i \in 2..Len(T) : ReadBy(l, T[i]) = d[i - 1]
    BY <1>6, <2>1, Zenon
  <2> HIDE DEF d, l
  <2>3. /\ Len(U) <= Len(d) /\ (Len(T) = Len(d) + 1 => Len(U) = Len(d))
        /\ \A i \in 1..Len(U) : ReadBy(l, U[i]) = d[i]
        /\ d = <<>> => U = <<>>
    BY ONLY T \in Seq(Lines), <1>7, <2>2, AfterSizes
  <2> QED
    BY <2>3, Zenon DEF d, l
<1>9. Hears(t) => s.in = <<>> /\ Len(U) = Len(r.did)
  BY <1>4, <1>8, Zenon
<1>10. /\ r.want = Announced(Len(r.did)) /\ r.res = <<>>
       /\ Len(r.did) = 0 => r.lib = "ruby"
  BY <1>1, <1>4, <1>5, Zenon
<1>11. InValues(s, r, t, U)
  <2>1. CASE r.did = <<>>
    BY <1>8, <1>9, <1>10, <2>1 DEF InValues
  <2>2. CASE r.did # <<>>
    <3>1. Len(r.did) \in Nat /\ Len(r.did) # 0 /\ Len(r.res) = 0
      BY <1>6, <1>10, <2>2, SomeResult, NoResult, Zenon
    <3>2. r.want = Len(r.did)
      BY <1>10, <3>1 DEF Announced
    <3>3. r.want >= 1 /\ Len(r.res) + r.want = Len(r.did)
      BY <3>1, <3>2
    <3>4. \A i \in 1..Len(r.res) : r.res[i] = r.did[i]
      BY <3>1
    <3>5. ASSUME NEW i \in 1..Len(U)
          PROVE  ReadBy(r.lib, U[i]) = r.did[Len(r.res) + i]
      <4>1. Len(r.res) + i = i
        BY <3>1
      <4> QED
        BY <1>8, <4>1, Zenon
    <3>6. Len(U) <= r.want /\ (Hears(t) => Len(U) = r.want)
      BY <1>8, <1>9, <3>2, Zenon
    <3> QED
      BY <1>9, <2>2, <3>3, <3>4, <3>5, <3>6, Zenon DEF InValues
  <2> QED
    BY <2>1, <2>2
<1> QED
  BY <1>1, <1>11, Zenon DEF Session, U

\* The Ruby library reads "Access denied" as sizes: no value will come.
LEMMA SessionRefused ==
    ASSUME NEW s0 \in Socket, NEW s \in Socket, NEW r0 \in Client,
           NEW r \in Client, NEW t \in Thread, Session(s0, r0, t),
           r0.pc = "sizes", s0.out # <<>>, Head(s0.out).first = Denied.first,
           s.out = Tail(s0.out), r.did = r0.did, r.pc = "values", r.lib = "ruby"
    PROVE  Session(s, r, t)
<1>1. PICK T \in Seq(Lines) :
            /\ T = s0.out \o t.out /\ T # <<>> /\ T[1] = Head(s0.out)
            /\ s.out \o t.out = Tail(T)
  BY TookSession, Zenon
<1>2. InSizes(s0, r0, t, T)
  BY <1>1 DEF Session
<1>3. Sizes(Len(r0.did)).first # Denied.first
  BY Zenon DEF Sizes, Denied, Line
<1>4. T = <<Denied>> /\ ~Hears(t) /\ r0.did = <<>>
  BY <1>1, <1>2, <1>3, Zenon DEF InSizes
<1>5. s.out \o t.out = <<>>
  BY <1>1, <1>4
<1>6. InValues(s, r, t, s.out \o t.out)
  BY <1>4, <1>5 DEF InValues
<1> QED
  BY <1>6 DEF Session

\* What a client that reads values knows when one is there.
LEMMA ValueArrives ==
    ASSUME NEW s0 \in Socket, NEW r0 \in Client, NEW t \in Thread,
           NEW s \in Socket, s.out = Tail(s0.out),
           Session(s0, r0, t), r0.pc = "values", s0.out # <<>>
    PROVE  /\ ReadBy(r0.lib, Head(s0.out)) = r0.did[Len(r0.res) + 1]
           /\ r0.did # <<>> /\ Len(r0.res) + r0.want = Len(r0.did)
           /\ r0.want >= 1 /\ (Hears(t) => s0.in = <<>>)
           /\ \E U \in Seq(Lines) :
                /\ U = s.out \o t.out /\ Len(U) + 1 <= r0.want
                /\ Hears(t) => Len(U) + 1 = r0.want
                /\ LET q == Append(r0.res, r0.did[Len(r0.res) + 1])
                   IN  /\ q \in Seq(Results) /\ Len(q) = Len(r0.res) + 1
                       /\ \A i \in 1..Len(q) : q[i] = r0.did[i]
                       /\ \A i \in 1..Len(U) :
                            ReadBy(r0.lib, U[i]) = r0.did[Len(q) + i]
                       /\ r0.want = 1 => q = r0.did /\ U = <<>>
<1>1. PICK T \in Seq(Lines) :
            /\ T = s0.out \o t.out /\ T # <<>> /\ T[1] = Head(s0.out)
            /\ s.out \o t.out = Tail(T) /\ Tail(T) \in Seq(Lines)
            /\ Len(Tail(T)) = Len(T) - 1
            /\ \A i \in 1..Len(Tail(T)) : Tail(T)[i] = T[i + 1]
  BY TookSession, Zenon
<1>2. InValues(s0, r0, t, T)
  BY <1>1, Zenon DEF Session
<1>3. /\ r0.did # <<>> /\ r0.want >= 1 /\ Len(r0.res) + r0.want = Len(r0.did)
      /\ \A i \in 1..Len(r0.res) : r0.res[i] = r0.did[i]
      /\ Len(T) <= r0.want
      /\ \A i \in 1..Len(T) : ReadBy(r0.lib, T[i]) = r0.did[Len(r0.res) + i]
      /\ Hears(t) => Len(T) = r0.want /\ s0.in = <<>>
  BY <1>1, <1>2, Zenon DEF InValues
<1>4. /\ r0.did \in Seq(Results) /\ r0.res \in Seq(Results) /\ r0.want \in Int
      /\ r0.lib \in {"c", "ruby"}
  BY Zenon DEF Client
<1>5. 1 \in 1..Len(T) /\ Len(T) \in Nat
  BY <1>1, SomeLine, Zenon
<1> DEFINE U == Tail(T)
           q == Append(r0.res, r0.did[Len(r0.res) + 1])
<1>6. /\ U \in Seq(Lines) /\ Len(U) = Len(T) - 1 /\ U = s.out \o t.out
      /\ \A i \in 1..Len(U) : U[i] = T[i + 1]
  BY <1>1, Zenon
<1> HIDE DEF U
<1>7. /\ q \in Seq(Results) /\ Len(q) = Len(r0.res) + 1
      /\ \A i \in 1..Len(q) : q[i] = r0.did[i]
      /\ \A i \in 1..Len(U) : ReadBy(r0.lib, U[i]) = r0.did[Len(q) + i]
      /\ r0.want = 1 => q = r0.did /\ U = <<>>
  <2> DEFINE d == r0.did
             l == r0.lib
             p == r0.res
             n == r0.want
  <2>1. /\ d \in Seq(Results) /\ p \in Seq(Results) /\ n \in Int
        /\ n >= 1 /\ Len(p) + n = Len(d) /\ \A i \in 1..Len(p) : p[i] = d[i]
        /\ Len(T) <= n
        /\ \A i \in 1..Len(T) : ReadBy(l, T[i]) = d[Len(p) + i]
    BY <1>3, <1>4, Zenon
  <2>2. q = Append(p, d[Len(p) + 1]) /\ T # <<>>
    BY <1>1, Zenon
  <2>8. /\ Len(U) = Len(T) - 1 /\ Len(T) <= n /\ n \in Int
        /\ d \in Seq(Results)
    BY <1>6, <2>1, Zenon
  <2> HIDE DEF d, l, p, n, q
  <2>4. q \in Seq(Results)
    BY <2>1, <2>2, NextResult, Zenon
  <2>3. /\ Len(q) = Len(p) + 1 /\ \A i \in 1..Len(q) : q[i] = d[i]
        /\ n = 1 => q = d
    BY ONLY <2>1, <2>2, <2>4, AfterValue
  <2> DEFINE k == Len(p)
  <2>5. k \in Nat
    BY ONLY <2>1
  <2>9. \A i \in 1..Len(T) : ReadBy(l, T[i]) = d[k + i]
    BY <2>1
  <2> HIDE DEF k
  <2>6. ASSUME NEW i \in 1..Len(U) PROVE ReadBy(l, U[i]) = d[(k + 1) + i]
    <3>1. Len(T) \in Nat /\ Len(U) \in Nat
      BY ONLY T \in Seq(Lines), <1>6
    <3>2. i \in Int /\ 1 <= i /\ i <= Len(U)
      BY ONLY i \in 1..Len(U), <3>1
    <3>3. i + 1 \in 1..Len(T) /\ k + (i + 1) = (k + 1) + i
      BY ONLY <2>5, <2>8, <3>1, <3>2
    <3>4. ReadBy(l, T[i + 1]) = d[k + (i + 1)]
      BY <2>9, <3>3, Zenon
    <3>5. U[i] = T[i + 1]
      BY <1>6, Zenon
    <3> QED
      BY <3>3, <3>4, <3>5, Zenon
  <2>7. n = 1 => U = <<>>
    <3>1. n = 1 => Len(U) <= 0
      BY ONLY T \in Seq(Lines), <2>8
    <3>2. U \in Seq(Lines)
      BY <1>6
    <3> QED
      BY ONLY <3>1, <3>2
  <2> QED
    BY <2>3, <2>4, <2>6, <2>7, Zenon DEF d, l, p, n, k
<1>8. Len(U) + 1 = Len(T)
  BY <1>1, <1>6, SomeLine, Zenon
<1>9. Len(U) + 1 <= r0.want /\ (Hears(t) => Len(U) + 1 = r0.want)
  BY <1>3, <1>8, Zenon
<1>10. ReadBy(r0.lib, Head(s0.out)) = r0.did[Len(r0.res) + 1]
  BY <1>1, <1>3, <1>5, Zenon
<1> HIDE DEF q
<1>11. \E V \in Seq(Lines) :
                /\ V = s.out \o t.out /\ Len(V) + 1 <= r0.want
                /\ Hears(t) => Len(V) + 1 = r0.want
                /\ q \in Seq(Results) /\ Len(q) = Len(r0.res) + 1
                /\ \A i \in 1..Len(q) : q[i] = r0.did[i]
                /\ \A i \in 1..Len(V) :
                            ReadBy(r0.lib, V[i]) = r0.did[Len(q) + i]
                /\ r0.want = 1 => q = r0.did /\ V = <<>>
  BY <1>6, <1>7, <1>9, Zenon
<1> QED
  BY <1>3, <1>10, <1>11, Zenon DEF q

\* After a value the others are to come, or nothing is left.
LEMMA SessionValue ==
    ASSUME NEW s0 \in Socket, NEW s \in Socket, NEW r0 \in Client,
           NEW r \in Client, NEW t \in Thread, Session(s0, r0, t),
           r0.pc = "values", s0.out # <<>>,
           s.out = Tail(s0.out), s.in = s0.in,
           r.lib = r0.lib, r.want = r0.want - 1,
           r.pc = IF r0.want = 1 THEN "idle" ELSE "values",
           r0.want # 1 =>
                /\ r.did = r0.did
                /\ r.res = Append(r0.res, r0.did[Len(r0.res) + 1])
    PROVE  Session(s, r, t)
<1> DEFINE q == Append(r0.res, r0.did[Len(r0.res) + 1])
<1>1. /\ r0.did # <<>> /\ Len(r0.res) + r0.want = Len(r0.did)
      /\ r0.want >= 1 /\ (Hears(t) => s0.in = <<>>)
  BY ValueArrives, Zenon
<1>2. PICK U \in Seq(Lines) :
        /\ U = s.out \o t.out /\ Len(U) + 1 <= r0.want
        /\ Hears(t) => Len(U) + 1 = r0.want
        /\ q \in Seq(Results) /\ Len(q) = Len(r0.res) + 1
        /\ \A i \in 1..Len(q) : q[i] = r0.did[i]
        /\ \A i \in 1..Len(U) : ReadBy(r0.lib, U[i]) = r0.did[Len(q) + i]
        /\ r0.want = 1 => q = r0.did /\ U = <<>>
  BY ValueArrives, Zenon
<1>3. Hears(t) => s.in = <<>>
  BY <1>1
<1>4. CASE r0.want = 1
  <2>1. InIdle(s, t, U) /\ r.pc = "idle"
    BY <1>2, <1>3, <1>4, Zenon DEF InIdle
  <2> QED
    BY <1>2, <2>1, Zenon DEF Session
<1>5. CASE r0.want # 1
  <2>1. r.did = r0.did /\ r.res = q /\ r.pc = "values"
    BY <1>5, Zenon
  <2> HIDE DEF q
  <2>2. /\ Len(r0.res) \in Nat /\ r0.want \in Int /\ Len(U) \in Nat
        /\ Len(r0.did) \in Int
    <3>1. /\ r0.res \in Seq(Results) /\ r0.did \in Seq(Results)
          /\ r0.want \in Int
      BY Zenon DEF Client
    <3>2. /\ \A x \in Seq(Results) : Len(x) \in Nat /\ Len(x) \in Int
          /\ \A x \in Seq(Lines) : Len(x) \in Nat
      OBVIOUS
    <3> QED
      BY <1>2, <3>1, <3>2, Zenon
  <2>3. /\ r0.want - 1 >= 1 /\ (Len(r0.res) + 1) + (r0.want - 1) = Len(r0.did)
        /\ Len(U) <= r0.want - 1
        /\ Len(U) + 1 = r0.want => Len(U) = r0.want - 1
    <3> DEFINE k == Len(r0.res)
               n == r0.want
               u == Len(U)
               d == Len(r0.did)
    <3>1. /\ k \in Nat /\ n \in Int /\ u \in Nat /\ d \in Int
          /\ k + n = d /\ n >= 1 /\ n # 1 /\ u + 1 <= n
      BY <1>1, <1>2, <1>5, <2>2, Zenon
    <3> HIDE DEF k, n, u, d
    <3>2. /\ n - 1 >= 1 /\ (k + 1) + (n - 1) = d /\ u <= n - 1
          /\ u + 1 = n => u = n - 1
      BY ONLY <3>1, SMT
    <3> QED
      BY ONLY <3>2, Zenon DEF k, n, u, d
  <2>4. /\ r.want >= 1 /\ Len(r.res) + r.want = Len(r.did) /\ Len(U) <= r.want
        /\ Hears(t) => Len(U) = r.want
    BY <1>2, <2>1, <2>3, Zenon
  <2>5. /\ \A i \in 1..Len(r.res) : r.res[i] = r.did[i]
        /\ \A i \in 1..Len(U) : ReadBy(r.lib, U[i]) = r.did[Len(r.res) + i]
    BY <1>2, <2>1, Zenon
  <2>6. InValues(s, r, t, U)
    BY <1>1, <1>3, <2>1, <2>4, <2>5, Zenon DEF InValues
  <2> QED
    BY <1>2, <2>1, <2>6, Zenon DEF Session
<1> QED
  BY <1>4, <1>5

\* A line of sizes has those of the answer.
LEMMA SizesArrive ==
    ASSUME NEW s0 \in Socket, NEW r0 \in Client, NEW t \in Thread,
           Session(s0, r0, t), r0.pc = "sizes", s0.out # <<>>,
           Head(s0.out).first = "sizes"
    PROVE  Head(s0.out).rest \in Nat
<1> DEFINE o == s0.out
           m == t.out
<1>1. o \in Seq(Lines) /\ m \in Seq(Lines) /\ o # <<>>
  BY DEF Socket, Thread
<1>2. InSizes(s0, r0, t, o \o m)
  BY Zenon DEF Session
<1> HIDE DEF o, m
<1>3. PICK T \in Seq(Lines) : T = o \o m /\ T # <<>> /\ T[1] = Head(o)
  BY <1>1, TookLines, Zenon
<1>4. T # <<Denied>>
  BY <1>3, OneDenied, Zenon DEF o
<1>5. T[1] = Sizes(Len(r0.did))
  BY <1>2, <1>3, <1>4, Zenon DEF InSizes
<1>6. Sizes(Len(r0.did)).rest = Len(r0.did)
  BY DEF Sizes, Line
<1>7. r0.did \in Seq(Results)
  BY Zenon DEF Client
<1>8. Len(r0.did) \in Nat
  BY ONLY <1>7
<1> QED
  BY <1>3, <1>5, <1>6, <1>8, Zenon DEF o

\* The sizes were read, or the refusal, or the end.
LEMMA ReadSizesInv ==
    ASSUME ServerInv, NEW c \in Clients, ReadSizes(c) PROVE ServerInv'
<1> DEFINE s0 == sock[c]
           r0 == cl[c]
           num == Head(s0.out).rest
           s == [s0 EXCEPT !.out = Tail(s0.out)]
<1>1. r0.pc = "sizes" /\ UNCHANGED <<auth, backlog, pool, wk, mixed>>
  BY Zenon DEF ReadSizes, ClientVars
<1>2. /\ s0 \in Socket /\ r0 \in Client /\ s0.copen /\ ~s0.reset
      /\ s0.out \in Seq(Lines)
  BY <1>1, ClientThere
<1>3. ASSUME Arrived(c), sock' = Took(c)
      PROVE  /\ s0.out # <<>> /\ sock' = [sock EXCEPT ![c] = s]
             /\ s \in Socket /\ s.in = s0.in /\ s.out = Tail(s0.out)
             /\ s.sopen = s0.sopen /\ s.copen /\ ~s.reset
  <2>1. s0.out # <<>>
    BY <1>3 DEF Arrived
  <2>2. sock' = [sock EXCEPT ![c] = s]
    BY <1>3, Zenon DEF Took
  <2>3. /\ s \in Socket /\ s.in = s0.in /\ s.out = Tail(s0.out)
        /\ s.sopen = s0.sopen /\ s.copen = s0.copen /\ s.reset = s0.reset
    BY <1>2, <2>1, TookSocket, Zenon
  <2> QED
    BY <1>2, <2>1, <2>2, <2>3, Zenon
<1> HIDE DEF s
<1>4. CASE /\ Reads(c, Denied) /\ sock' = Took(c)
           /\ cl' = [cl EXCEPT ![c].pc = IF r0.lib = "ruby" THEN "values"
                                         ELSE "undefined",
                               ![c].want = 2]
  <2> DEFINE p == IF r0.lib = "ruby" THEN "values" ELSE "undefined"
             r == [r0 EXCEPT !.pc = p, !.want = 2]
  <2>1. /\ r \in Client /\ r.pc = p /\ r.lib = r0.lib /\ r.did = r0.did
    <3>1. p \in {"values", "undefined"} /\ 2 \in Int
      OBVIOUS
    <3> HIDE DEF p
    <3> QED
      BY <1>2, <3>1, Zenon DEF Client
  <2>2. cl' = [cl EXCEPT ![c] = r]
    BY <1>4, Zenon
  <2>3. Arrived(c) /\ Head(s0.out).first = Denied.first
    BY <1>4 DEF Reads
  <2> HIDE DEF r
  <2>4. CASE r0.lib = "ruby"
    <3>1. r.pc = "values" /\ r.lib = "ruby"
      BY <2>1, <2>4
    <3>2. ASSUME NEW t \in Thread, Session(s0, r0, t) PROVE Session(s, r, t)
      BY <1>1, <1>2, <1>3, <1>4, <2>1, <2>3, <3>1, <3>2, SessionRefused, Zenon
    <3> QED
      BY <1>1, <1>2, <1>3, <1>4, <2>1, <2>2, <2>3, <3>1, <3>2, ClientLocal,
         Zenon
  <2>5. CASE r0.lib # "ruby"
    <3>1. r.pc = "undefined"
      BY <2>1, <2>5
    <3> QED
      BY <1>1, <1>4, <2>1, <2>2, <2>3, <3>1, TakesAndGivesUp, Zenon
  <2> QED
    BY <2>4, <2>5
<1>5. CASE /\ Reads(c, Sizes(0)) /\ sock' = Took(c)
           /\ cl' = [cl EXCEPT ![c].pc = IF num = 0 /\ r0.lib # "ruby"
                                         THEN "failed" ELSE "values",
                               ![c].want = Announced(num)]
  <2> DEFINE p == IF num = 0 /\ r0.lib # "ruby" THEN "failed" ELSE "values"
             r == [r0 EXCEPT !.pc = p, !.want = Announced(num)]
  <2>1. Arrived(c) /\ Head(s0.out).first = "sizes"
    BY <1>5 DEF Reads, Sizes, Line
  <2>2. s0.out # <<>>
    BY <2>1 DEF Arrived
  <2>3. num \in Nat /\ Announced(num) \in Int
    <3>1. PICK t \in Thread : Session(s0, r0, t)
      BY SessionOf, Zenon
    <3>2. num \in Nat
      BY <1>1, <1>2, <2>1, <2>2, <3>1, SizesArrive, Zenon
    <3> QED
      BY ONLY <3>2 DEF Announced
  <2>4. /\ r \in Client /\ r.pc = p /\ r.lib = r0.lib /\ r.did = r0.did
        /\ r.res = r0.res /\ r.want = Announced(num)
    <3>1. p \in {"values", "failed"}
      BY Zenon
    <3> HIDE DEF p, num
    <3> QED
      BY <1>2, <2>3, <3>1, Zenon DEF Client
  <2>5. cl' = [cl EXCEPT ![c] = r]
    BY <1>5, Zenon
  <2> HIDE DEF r
  <2>6. CASE num = 0 /\ r0.lib # "ruby"
    <3>1. r.pc = "failed"
      BY <2>4, <2>6
    <3> QED
      BY <1>1, <1>5, <2>1, <2>4, <2>5, <3>1, TakesAndGivesUp, Zenon
  <2>7. CASE ~(num = 0 /\ r0.lib # "ruby")
    <3>1. r.pc = "values" /\ (num = 0 => r.lib = "ruby")
      BY <2>4, <2>7
    <3>2. ASSUME NEW t \in Thread, Session(s0, r0, t) PROVE Session(s, r, t)
      BY <1>1, <1>2, <1>3, <1>5, <2>1, <2>4, <3>1, <3>2, SessionSizes, Zenon
    <3> QED
      BY <1>1, <1>2, <1>3, <1>5, <2>1, <2>4, <2>5, <3>1, <3>2, ClientLocal,
         Zenon
  <2> QED
    BY <2>6, <2>7
<1>6. CASE UNCHANGED sock /\ cl' = [cl EXCEPT ![c].pc = "failed"]
  BY <1>1, <1>6, GivesUp, Zenon
<1> QED
  BY <1>4, <1>5, <1>6, Zenon DEF ReadSizes

\* A value was read; the last one makes the result of the query.
LEMMA ReadValueInv ==
    ASSUME ServerInv, NEW c \in Clients, ReadValue(c) PROVE ServerInv'
<1> DEFINE s0 == sock[c]
           r0 == cl[c]
           x == Parsed(c, Head(s0.out))
           last == r0.want = 1
           q == Append(r0.res, x)
           s == [s0 EXCEPT !.out = Tail(s0.out)]
           r == [r0 EXCEPT !.pc = IF last THEN "idle" ELSE @, !.want = @ - 1,
                           !.res = IF last THEN <<>> ELSE q,
                           !.did = IF last THEN <<>> ELSE @]
<1>1. /\ r0.pc = "values" /\ s0.out # <<>>
      /\ UNCHANGED <<auth, backlog, pool, wk>>
      /\ sock' = Took(c)
      /\ mixed' = IF last /\ q # r0.did THEN mixed \cup {c} ELSE mixed
  BY Zenon DEF ReadValue, ClientVars, Arrived
<1>2. /\ s0 \in Socket /\ r0 \in Client /\ s0.copen /\ ~s0.reset
      /\ r0.did \in Seq(Results) /\ r0.want \in Int
  BY <1>1, ClientThere, Zenon
<1>3. cl' = [cl EXCEPT ![c] = r]
  BY Zenon DEF ReadValue
<1>4. /\ s \in Socket /\ s.in = s0.in /\ s.out = Tail(s0.out)
      /\ s.sopen = s0.sopen /\ s.copen = s0.copen /\ s.reset = s0.reset
  BY <1>1, <1>2, TookSocket, Zenon
<1>5. sock' = [sock EXCEPT ![c] = s]
  BY <1>1, Zenon DEF Took
<1>6. x = ReadBy(r0.lib, Head(s0.out))
  BY DEF Parsed, ReadBy
<1> HIDE DEF s, x
<1>7. PICK t0 \in Thread : Session(s0, r0, t0)
  BY SessionOf, Zenon
<1>8. x = r0.did[Len(r0.res) + 1]
  BY <1>1, <1>2, <1>4, <1>6, <1>7, ValueArrives, Zenon
<1>9. q \in Seq(Results) /\ (last => q = r0.did)
  <2>1. q = Append(r0.res, r0.did[Len(r0.res) + 1])
    BY <1>8, Zenon
  <2> HIDE DEF q
  <2> QED
    BY <1>1, <1>2, <1>4, <1>7, <2>1, ValueArrives, Zenon
<1>10. UNCHANGED mixed
  BY <1>1, <1>9, Zenon
<1>11. /\ r \in Client /\ r.lib = r0.lib /\ r.want = r0.want - 1
       /\ r.pc = IF last THEN "idle" ELSE "values"
       /\ ~last => r.did = r0.did /\ r.res = q
  <2> DEFINE p == IF last THEN "idle" ELSE r0.pc
             n == r0.want - 1
             a == IF last THEN <<>> ELSE q
             d == IF last THEN <<>> ELSE r0.did
  <2>1. /\ p \in {"idle", "values"} /\ n \in Int /\ a \in Seq(Results)
        /\ d \in Seq(Results) /\ p = IF last THEN "idle" ELSE "values"
    BY <1>1, <1>2, <1>9
  <2>2. ~last => a = q /\ d = r0.did
    BY Zenon
  <2>3. r = [r0 EXCEPT !.pc = p, !.want = n, !.res = a, !.did = d]
    BY Zenon
  <2> HIDE DEF p, n, a, d, q, r
  <2>4. /\ r \in Client /\ r.lib = r0.lib /\ r.want = n /\ r.pc = p
        /\ r.did = d /\ r.res = a
    BY <1>2, <2>1, <2>3, Zenon DEF Client
  <2>5. n = r0.want - 1
    BY DEF n
  <2> QED
    BY <2>1, <2>2, <2>4, <2>5, Zenon
<1> HIDE DEF r
<1>12. ASSUME NEW t \in Thread, Session(s0, r0, t) PROVE Session(s, r, t)
  BY <1>1, <1>2, <1>4, <1>8, <1>11, <1>12, SessionValue, Zenon
<1>13. r.pc \in {"idle", "values"}
  BY <1>11
<1> QED
  BY <1>1, <1>2, <1>3, <1>4, <1>5, <1>10, <1>11, <1>12, <1>13,
     ClientLocal, Zenon

\* A read that is cut short, and the end of the connection.
LEMMA ReadCutInv ==
    ASSUME ServerInv, NEW c \in Clients, ReadCut(c) \/ ReadEnd(c)
    PROVE  ServerInv'
<1>1. PICK p \in {"failed", "undefined"} : cl' = [cl EXCEPT ![c].pc = p]
  BY Zenon DEF ReadCut, ReadEnd
<1>2. /\ cl[c].pc = "values" /\ UNCHANGED sock
      /\ UNCHANGED <<auth, backlog, pool, wk, mixed>>
  BY Zenon DEF ReadCut, ReadEnd, ClientVars
<1> QED
  BY <1>1, <1>2, GivesUp, Zenon

\* A client closes its connection or is killed.
LEMMA GoneInv ==
    ASSUME ServerInv, NEW c \in Clients, Close(c) \/ Killed(c)
    PROVE  ServerInv'
<1> DEFINE s0 == sock[c]
           s == [s0 EXCEPT !.copen = FALSE, !.out = <<>>, !.reset = Arrived(c)]
           r == [NewClient EXCEPT !.pc = "done"]
<1>1. /\ cl[c].pc \notin {"new", "done"}
      /\ UNCHANGED <<auth, backlog, pool, wk, mixed>>
  BY DEF Close, Killed, Gone, ClientVars
<1>2. sock' = [sock EXCEPT ![c] = s] /\ cl' = [cl EXCEPT ![c] = r]
  BY Zenon DEF Close, Killed, Gone
<1>3. s0 \in Socket /\ s0.copen
  BY <1>1, ClientThere, Zenon
<1>4. /\ s \in Socket /\ ~s.copen /\ s.out = <<>> /\ s.sopen = s0.sopen
  <2>1. Arrived(c) \in BOOLEAN /\ FALSE \in BOOLEAN /\ <<>> \in Seq(Lines)
    BY DEF Arrived
  <2> QED
    BY <1>3, <2>1, Zenon DEF Socket
<1>5. r \in Client /\ r.pc = "done"
  <2>1. NewClient \in Client
    BY DEF NewClient, Client
  <2> QED
    BY <2>1, Zenon DEF Client
<1>6. \A t \in Thread : Session(s, r, t)
  BY <1>5, Zenon DEF Session
<1> HIDE DEF s, r
<1> QED
  BY <1>1, <1>2, <1>3, <1>4, <1>5, <1>6, ClientLocal, Zenon

\* A connection attempt fails: the client had no connection and has none.
LEMMA ConnectFailsInv ==
    ASSUME ServerInv, NEW c \in Clients, ConnectFails(c) PROVE ServerInv'
<1> DEFINE r == [cl[c] EXCEPT !.pc = "done"]
<1>1. /\ cl[c].pc = "new" /\ UNCHANGED <<auth, backlog, pool, wk, mixed, sock>>
      /\ cl' = [cl EXCEPT ![c] = r]
  BY Zenon DEF ConnectFails, ClientVars
<1>2. sock[c] \in Socket /\ cl[c] \in Client
  BY Zenon DEF ServerInv, Types
<1>3. ~sock[c].copen /\ sock[c].out = <<>>
  BY <1>1, Zenon DEF ServerInv, Places
<1>4. r \in Client /\ r.pc = "done"
  BY <1>2, Zenon DEF Client
<1>5. sock' = [sock EXCEPT ![c] = sock[c]]
  BY <1>1 DEF ServerInv, Types
<1>6. \A t \in Thread : Session(sock[c], r, t)
  BY <1>4, Zenon DEF Session
<1> HIDE DEF r
<1> QED
  BY <1>1, <1>2, <1>3, <1>4, <1>5, <1>6, ClientLocal, Zenon
=============================================================================
