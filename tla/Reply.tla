-------------------------------- MODULE Reply --------------------------------
(***************************************************************************)
(* What a query answers: the values that the commands of                   *)
(* lib/xfiredb-serv/storage_commands.rb find in a container, the lines in  *)
(* which they are sent, and what the two client libraries make of a line   *)
(* (clients/c/result.c and clients/ruby/lib/xfiredb/result.rb).            *)
(***************************************************************************)
EXTENDS Integers, Sequences, FiniteSets, TLC

CONSTANTS SubKeys, Values,
          NoData   \* no container is stored under a key

\* A container, as in Disk.
Container(type, data) == [type |-> type, data |-> data]

\* Values, as a command or a client library knows them; their data as text.
Value(kind, data) == [kind |-> kind, data |-> data]
Text(v) == Value("string", v)
Number(n) == Value("number", ToString(n))
Truth(b) == Value("boolean", IF b THEN "true" ELSE "false")
OK == Value("status", "OK")
Nil == Value("status", "nil")
Message == Value("status", "message")

\* The command raised an exception.
Raised == <<Value("exception", "")>>

Holds(c, type) == c # NoData /\ c.type = type
-----------------------------------------------------------------------------
(* Commands that only read, on the container c of their key.               *)

\* A container that is not a string cannot be added to "+".
GET(c) ==
    IF c = NoData THEN <<Nil>>
    ELSE IF c.type = "string" THEN <<Text(c.data)>> ELSE Raised

\* list[idx]; an index outside of the list, also a negative one, finds nothing.
Entry(list, idx) ==
    IF idx + 1 \in DOMAIN list THEN Text(list[idx + 1]) ELSE Nil

LREF(c, idx) ==
    IF ~Holds(c, "list") THEN <<Nil>>
    ELSE IF Entry(c.data, idx) = Nil THEN Raised ELSE <<Entry(c.data, idx)>>

\* LREF key first..last; negative bounds count from the end.
LREFRange(c, first, last) ==
    LET FromEnd(i) == IF i < 0 THEN i + Len(c.data) ELSE i
        lo == FromEnd(first)
        hi == FromEnd(last)
    IN  IF ~Holds(c, "list") THEN <<Nil>>
        ELSE IF lo > hi THEN <<Message>>
        ELSE [i \in 1..(hi - lo + 1) |-> Entry(c.data, lo + i - 1)]

LSIZE(c) == IF Holds(c, "list") THEN <<Number(Len(c.data))>> ELSE <<Nil>>

\* One value for each member asked for; none if none was.
MREF(c, hkeys) ==
    IF ~Holds(c, "hashmap") THEN <<Nil>>
    ELSE [i \in DOMAIN hkeys |-> IF hkeys[i] \in DOMAIN c.data
                                 THEN Text(c.data[hkeys[i]]) ELSE Nil]

MSIZE(c) ==
    IF Holds(c, "hashmap") THEN <<Number(Cardinality(DOMAIN c.data))>>
    ELSE <<Nil>>

\* Without members it is a syntax error.
SINCLUDE(c, hkeys) ==
    IF hkeys = <<>> THEN <<Message>>
    ELSE IF ~Holds(c, "set") THEN <<Nil>>
    ELSE [i \in DOMAIN hkeys |-> Truth(hkeys[i] \in c.data)]
-----------------------------------------------------------------------------
(* Lines.                                                                  *)

Line(first, rest) == [first |-> first, rest |-> rest]

\* Mutant: strings are sent without their mark.
EncodeBare(v) ==
    CASE v.kind = "string" -> Line("", v.data)
      [] v.kind = "number" -> Line("%", v.data)
      [] v.kind = "boolean" -> Line("&", v.data)
      [] v.kind = "status" -> Line("-", v.data)

\* The first character of a reply tells its kind.
Encode(v) ==
    CASE v.kind = "string" -> Line("+", v.data)
      [] v.kind = "number" -> Line("%", v.data)
      [] v.kind = "boolean" -> Line("&", v.data)
      [] v.kind = "status" -> Line("-", v.data)

\* "Query failed", "Key: ... is illegal", "Access denied ...": no mark at all.
Unmarked == Line("", "message")

\* With or without its mark, a status is OK, nil or any other text.
process_default(rest) ==
    IF rest \in {"OK", "nil"} THEN Value("status", rest) ELSE Message

xfiredb_result_parse(line) ==
    CASE line.first = "+" -> Text(line.rest)
      [] line.first = "&" -> Truth(line.rest = "true")
      [] line.first = "%" -> Value("number", line.rest)
      [] OTHER -> process_default(line.rest)

\* Result#process: a text that is neither "&true" nor "&false" stays a text.
process(line) ==
    CASE line.first = "+" -> Text(line.rest)
      [] line.first = "&" -> IF line.rest \in {"true", "false"}
                             THEN Truth(line.rest = "true")
                             ELSE Text(line.rest)
      [] line.first = "%" -> Value("number", line.rest)
      [] OTHER -> process_default(line.rest)
=============================================================================
