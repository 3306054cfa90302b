------------------------------ MODULE MCServer ------------------------------
(***************************************************************************)
(* Two views of the threads that serve clients: their connections          *)
(* (Server), where a login has any outcome, and the accounts that decide   *)
(* it (Users).  They share no state, and a behaviour is of one of them.    *)
(*                                                                         *)
(* Connections find one small container of each type; the text stored is   *)
(* "nil".  The first client uses every library and flag, the others are    *)
(* Ruby programs that log in and keep their connection.                    *)
(***************************************************************************)
EXTENDS Server, Users

CONSTANTS First, MaxQueries,   \* bound on the queries of the first client
          RootName, RootPw     \* the first user: no name is special, nor is a
                               \* password

MCPrograms ==
    [c \in Clients |->
        IF c = First
        THEN [lib : {"c", "ruby"}, stream : BOOLEAN, login : Logins \cup {None},
              queries : {MaxQueries}]
        ELSE {[lib |-> "ruby", stream |-> TRUE, login |-> "AUTH valid",
               queries |-> 1]}]

MCContents ==
    <<NoData, Container("string", "nil"), Container("list", <<"nil">>),
      Container("hashmap", [s \in SubKeys |-> "nil"]),
      Container("set", SubKeys)>>
MCIndices == {-1, 0, 1}

VARIABLE accounts    \* the behaviour is of Users

mcvars == <<vars, uvars, accounts>>

MCInit ==
    /\ Init /\ UInit /\ Right(RootName, RootPw, table)
    /\ accounts \in BOOLEAN /\ (accounts => ~auth)

\* A step of the connections or of the accounts.
OfConnections(A) == ~accounts /\ A /\ UNCHANGED <<uvars, accounts>>
OfAccounts(A) == accounts /\ A /\ UNCHANGED <<vars, accounts>>

MCNext == OfConnections(Next) \/ OfAccounts(UNext)

\* Fairness of Server.
MCFairness ==
    /\ \A c \in Clients : WF_mcvars(OfConnections(ClientStep(c)))
    /\ \A w \in Workers : WF_mcvars(OfConnections(WorkerStep(w)))
    /\ WF_mcvars(OfConnections(Accept)) /\ WF_mcvars(OfConnections(Exit))

MCSpec == MCInit /\ [][MCNext]_mcvars /\ MCFairness
=============================================================================
