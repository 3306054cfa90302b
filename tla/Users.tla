------------------------------- MODULE Users --------------------------------
(***************************************************************************)
(* Accounts of a cluster with cluster_auth: the map xfiredb-users in the   *)
(* database of the node that owns it, the users every node keeps in        *)
(* memory (XFireDB.users), the CLUSTER USER... commands that change the    *)
(* map and then tell every node to drop the user (Cluster#poison_user),    *)
(* and the logins that fill the memory (Client#auth).  Commands run in     *)
(* threads of the owner, where they are forwarded to, logins in threads of *)
(* any node.                                                               *)
(***************************************************************************)
EXTENDS Integers, FiniteSets, Sequences

CONSTANTS Nodes, Owner,    \* the owner of the map is one of the nodes
          Names, Passwords,
          Admins,          \* threads that run a command
          Sessions,        \* threads that run a login
          MaxChanges,      \* bound on the commands
          MaxStops,        \* bound on the stops of nodes
          NoUser, Idle

VARIABLES up,       \* the nodes that run
          table,    \* xfiredb-users
          cache,    \* XFireDB.users of every node
          adm,      \* commands
          login,    \* logins
          missed,   \* history: the entries in memory that no command will drop
          right,    \* history: the logins with the password the user has had
                    \* since they began
          refused,  \* history: those that were refused
          changes, stops

uvars == <<up, table, cache, adm, login, missed, right, refused,
           changes, stops>>

ADMIN == 10
NORMAL == 1
Levels == {NORMAL, ADMIN}

User(pw, level) == [pw |-> pw, level |-> level]
Accounts == [pw : Passwords, level : Levels]

Command == [pc : {"cache", "write", "delete", "poison"}, user : Names,
            new : Names, rec : Accounts \cup {NoUser},
            drop : SUBSET (Nodes \X Names)]

Login == [pc : {"fetch", "keep"}, node : Nodes, user : Names, pw : Passwords,
          rec : Accounts \cup {NoUser}]

ASSUME UsersAssumption ==
    Owner \in Nodes /\ Idle \notin Command /\ Idle \notin Login

Present == {u \in Names : table[u] # NoUser}

\* The root node was set up with one user; the others know of none.
UInit ==
    /\ up = Nodes
    /\ \E u \in Names, p \in Passwords :
        table = [x \in Names |-> IF x = u THEN User(p, ADMIN) ELSE NoUser]
    /\ cache = [n \in Nodes |-> IF n = Owner THEN table
                                ELSE [u \in Names |-> NoUser]]
    /\ adm = [a \in Admins |-> Idle]
    /\ login = [l \in Sessions |-> Idle]
    /\ missed = {} /\ right = {} /\ refused = {}
    /\ changes = 0 /\ stops = 0
-----------------------------------------------------------------------------
(* Commands.                                                               *)

\* Mutant: the owner does not tell itself.
BeginsOthers(a, pc, user, new, rec) ==
    /\ adm[a] = Idle /\ Owner \in up /\ changes < MaxChanges
    /\ changes' = changes + 1
    /\ adm' = [adm EXCEPT ![a] =
            [pc |-> pc, user |-> user, new |-> new, rec |-> rec,
             drop |-> (Nodes \ {Owner}) \X {user, new}]]
    /\ UNCHANGED <<up, missed, refused, stops>>

\* A command on a user: what it writes, under which name, and the entries in
\* memory, <<node, name>>, it is going to drop.
Begins(a, pc, user, new, rec) ==
    /\ adm[a] = Idle /\ Owner \in up /\ changes < MaxChanges
    /\ changes' = changes + 1
    /\ adm' = [adm EXCEPT ![a] =
            [pc |-> pc, user |-> user, new |-> new, rec |-> rec,
             drop |-> Nodes \X {user, new}]]
    /\ UNCHANGED <<up, missed, refused, stops>>

AdmAt(a, pc) ==
    /\ adm[a] # Idle /\ adm[a].pc = pc
    /\ UNCHANGED <<up, missed, refused, changes, stops>>
AdmGoto(a, pc) == adm' = [adm EXCEPT ![a].pc = pc]

\* The map changes.
Right(u, p, map) == map[u] # NoUser /\ map[u].pw = p
Store(u, rec) ==
    /\ table' = [table EXCEPT ![u] = rec]
    /\ right' = {l \in right : Right(login[l].user, login[l].pw, table')}
    /\ UNCHANGED login

\* USERADD writes the map ...
cluster_useradd(a, u, p) ==
    /\ Begins(a, "cache", u, u, User(p, NORMAL))
    /\ Store(u, User(p, NORMAL))
    /\ UNCHANGED cache

\* ... and the memory of the owner.
CacheAdded(a) ==
    /\ AdmAt(a, "cache") /\ AdmGoto(a, "poison")
    /\ cache' = [cache EXCEPT ![Owner][adm[a].user] = adm[a].rec]
    /\ UNCHANGED <<table, login, right>>

\* USERDEL: "Cannot delete last user", then the memory and the map of the owner.
cluster_userdel(a, u) ==
    /\ Cardinality(Present) > 1
    /\ Begins(a, "delete", u, u, NoUser)
    /\ cache' = [cache EXCEPT ![Owner][u] = NoUser]
    /\ UNCHANGED <<table, login, right>>

\* USERMOD reads a user and writes it back: with another LEVEL or PASS, or under
\* another USERNAME that is not taken.
cluster_usermod(a, u, new, rec) ==
    /\ table[u] # NoUser
    /\ IF new = u
       THEN rec \in {[table[u] EXCEPT !.level = v] : v \in Levels}
                    \cup {[table[u] EXCEPT !.pw = p] : p \in Passwords}
       ELSE rec = table[u] /\ table[new] = NoUser
    /\ Begins(a, "write", u, new, rec)
    /\ UNCHANGED <<table, cache, login, right>>

WriteUser(a) ==
    /\ AdmAt(a, "write")
    /\ AdmGoto(a, IF adm[a].new = adm[a].user THEN "poison" ELSE "delete")
    /\ Store(adm[a].new, adm[a].rec)
    /\ UNCHANGED cache

DeleteUser(a) ==
    /\ AdmAt(a, "delete") /\ AdmGoto(a, "poison")
    /\ Store(adm[a].user, NoUser)
    /\ UNCHANGED cache

WillDrop(a) == IF adm[a] = Idle THEN {} ELSE adm[a].drop

\* An entry in memory that is not the one of the map.
Differs(n, u) == cache[n][u] # NoUser /\ cache[n][u] # table[u]

\* CLUSTER USERPOISON, sent by Cluster#poison_user to one node after the other;
\* a new name follows when all nodes have dropped the old one.
cluster_userpoison(a) ==
    /\ adm[a] # Idle /\ adm[a].pc = "poison"
    /\ \E m \in up, u \in {adm[a].user, adm[a].new} :
        /\ <<m, u>> \in adm[a].drop
        /\ u # adm[a].user => \A x \in adm[a].drop : x[2] # adm[a].user
        /\ cache' = [cache EXCEPT ![m][u] = NoUser]
        /\ missed' = missed \ {<<m, u>>}
        /\ adm' = [adm EXCEPT ![a] = IF adm[a].drop = {<<m, u>>} THEN Idle
                                     ELSE [adm[a] EXCEPT !.drop = @ \ {<<m, u>>}]]
    /\ UNCHANGED <<up, table, login, right, refused, changes, stops>>

\* Commands that end before they have told all nodes.
Dropped(A) ==
    /\ adm' = [a \in Admins |-> IF a \in A THEN Idle ELSE adm[a]]
    /\ missed' = missed \cup {x \in UNION {WillDrop(a) : a \in A} :
                                 Differs(x[1], x[2])}

\* A node that does not run: create_cluster_socket has no socket to write its
\* AUTH to and raises an error, which ends the command.
PoisonFails(a) ==
    /\ adm[a] # Idle /\ adm[a].pc = "poison"
    /\ \E x \in adm[a].drop : x[1] \notin up
    /\ Dropped({a})
    /\ UNCHANGED <<up, table, cache, login, right, refused, changes, stops>>

AdminStep(a) ==
    \/ CacheAdded(a) \/ WriteUser(a) \/ DeleteUser(a)
    \/ cluster_userpoison(a) \/ PoisonFails(a)
-----------------------------------------------------------------------------
(* Logins.                                                                 *)

LoginVars == <<up, table, adm, changes, stops>>

LoginDone(l, granted) ==
    /\ login' = [login EXCEPT ![l] = Idle]
    /\ right' = right \ {l}
    /\ refused' = IF granted THEN refused ELSE refused \cup (right \cap {l})

Fetches(l, n, u, p) ==
    /\ login' = [login EXCEPT ![l] = [pc |-> "fetch", node |-> n, user |-> u,
                                      pw |-> p, rec |-> NoUser]]
    /\ right' = IF Right(u, p, table) THEN right \cup {l} ELSE right
    /\ UNCHANGED refused

\* Mutant: the user in memory is believed when the password is another.
AuthBelieves(l, n, u, p) ==
    /\ login[l] = Idle /\ n \in up /\ ~Right(u, p, cache[n])
    /\ IF cache[n][u] = NoUser THEN Fetches(l, n, u, p)
       ELSE /\ refused' = IF Right(u, p, table) THEN refused \cup {l} ELSE refused
            /\ UNCHANGED <<login, right>>
    /\ UNCHANGED <<LoginVars, cache, missed>>

\* Client#auth.  A password that is the one in memory is accepted, which changes
\* nothing; if it is not, or if there is none, the user is fetched.
Auth(l, n, u, p) ==
    /\ login[l] = Idle /\ n \in up /\ ~Right(u, p, cache[n])
    /\ Fetches(l, n, u, p)
    /\ UNCHANGED <<LoginVars, cache, missed>>

\* Client#get_user: the hash of a user the map does not have is none, which
\* raises an error.
get_user(l) ==
    /\ login[l] # Idle /\ login[l].pc = "fetch" /\ Owner \in up
    /\ LET rec == table[login[l].user]
       IN  IF rec = NoUser THEN LoginDone(l, FALSE)
           ELSE /\ login' = [login EXCEPT ![l].pc = "keep", ![l].rec = rec]
                /\ UNCHANGED <<right, refused>>
    /\ UNCHANGED <<LoginVars, cache, missed>>

\* To find the owner every node may be asked: one that does not run raises an
\* error.
GetUserFails(l) ==
    /\ login[l] # Idle /\ login[l].pc = "fetch" /\ up # Nodes
    /\ login' = [login EXCEPT ![l] = Idle] /\ right' = right \ {l}
    /\ UNCHANGED <<LoginVars, cache, missed, refused>>

\* users[user] = ..., and the password is compared.
KeepUser(l) ==
    LET r == login[l]
        entry == {<<r.node, r.user>>}
    IN  /\ r # Idle /\ r.pc = "keep"
        /\ cache' = [cache EXCEPT ![r.node][r.user] = r.rec]
        /\ missed' = IF r.rec = table[r.user] THEN missed \ entry
                     ELSE missed \cup entry
        /\ LoginDone(l, r.rec.pw = r.pw)
        /\ UNCHANGED LoginVars
-----------------------------------------------------------------------------
(* A node stops and starts.                                                *)

NobodyKnown(n) == cache' = [cache EXCEPT ![n] = [u \in Names |-> NoUser]]

StopNode(n) ==
    /\ n \in up /\ stops < MaxStops
    /\ up' = up \ {n} /\ stops' = stops + 1
    /\ NobodyKnown(n)
    /\ IF n = Owner THEN Dropped(Admins) ELSE UNCHANGED <<adm, missed>>
    /\ login' = [l \in Sessions |->
            IF login[l] # Idle /\ login[l].node = n THEN Idle ELSE login[l]]
    /\ right' = {l \in right : login[l].node # n}
    /\ UNCHANGED <<table, refused, changes>>

\* The users of the map, which only the owner has.
create_users(n) ==
    /\ n \notin up /\ up' = up \cup {n}
    /\ IF n = Owner THEN cache' = [cache EXCEPT ![n] = table] ELSE NobodyKnown(n)
    /\ missed' = {x \in missed : x[1] # n}
    /\ UNCHANGED <<table, adm, login, right, refused, changes, stops>>

UNext ==
    \/ \E a \in Admins :
        \/ AdminStep(a)
        \/ \E u \in Names :
            \/ \E p \in Passwords : cluster_useradd(a, u, p)
            \/ cluster_userdel(a, u)
            \/ \E new \in Names, p \in Passwords, v \in Levels :
                cluster_usermod(a, u, new, User(p, v))
    \/ \E l \in Sessions :
        \/ \E n \in Nodes, u \in Names, p \in Passwords : Auth(l, n, u, p)
        \/ get_user(l) \/ GetUserFails(l) \/ KeepUser(l)
    \/ \E n \in Nodes : StopNode(n) \/ create_users(n)

USpec == UInit /\ [][UNext]_uvars
-----------------------------------------------------------------------------
\* A user that a node keeps in memory is the one of the map, or a command that
\* is under way will drop it.  An entry can only outlive its user when a login
\* fetched it before a change and stored it after, or when a node that does not
\* run ends a command before it has told all nodes.
CacheCoherent ==
    \A n \in up, u \in Names :
        Differs(n, u) => \/ <<n, u>> \in missed
                         \/ \E a \in Admins : <<n, u>> \in WillDrop(a)

\* Whatever a node still has in memory, Client#auth never finds the password
\* wrong that the user has had since the login began.
PasswordAccepted == refused = {}
=============================================================================
