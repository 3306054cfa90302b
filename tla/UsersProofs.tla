----------------------------- MODULE UsersProofs -----------------------------
(***************************************************************************)
(* The users in memory follow the map, and no right login is refused, for  *)
(* any number of nodes, names, passwords, commands and logins at a time.   *)
(***************************************************************************)
EXTENDS Users, TLAPS

Entries == [Names -> Accounts \cup {NoUser}]

UserTypes ==
    /\ up \subseteq Nodes
    /\ table \in Entries /\ cache \in [Nodes -> Entries]
    /\ adm \in [Admins -> Command \cup {Idle}]
    /\ login \in [Sessions -> Login \cup {Idle}]

\* Until a command has written the map it has told no node.
NobodyTold ==
    \A a \in Admins : adm[a] # Idle /\ adm[a].pc # "poison" =>
        Nodes \X {adm[a].user, adm[a].new} \subseteq adm[a].drop

\* A login that is right has the user's password, and fetched it.
RightLogins ==
    /\ right \subseteq Sessions
    /\ \A l \in right :
        /\ login[l] # Idle /\ Right(login[l].user, login[l].pw, table)
        /\ login[l].pc = "keep" => login[l].rec.pw = login[l].pw

UsersInv ==
    UserTypes /\ NobodyTold /\ CacheCoherent /\ RightLogins /\ PasswordAccepted
-----------------------------------------------------------------------------
(* The initial states.                                                     *)

LEMMA UsersInit == UInit => UsersInv
<1>1. SUFFICES ASSUME UInit PROVE UsersInv
  OBVIOUS
<1>2. table \in Entries
  BY <1>1 DEF UInit, Entries, Accounts, User, Levels
<1>3. UserTypes
  BY <1>1, <1>2 DEF UInit, UserTypes, Entries
<1>4. NobodyTold /\ RightLogins /\ PasswordAccepted
  BY <1>1 DEF UInit, NobodyTold, RightLogins, PasswordAccepted
<1>5. CacheCoherent
  BY <1>1 DEF UInit, CacheCoherent, Differs
<1> QED
  BY <1>3, <1>4, <1>5 DEF UsersInv
-----------------------------------------------------------------------------
(* Types: one lemma for each way the variables change.                     *)

LEMMA StoreTypes ==
    ASSUME UserTypes, NEW u \in Names, NEW rec \in Accounts \cup {NoUser}, Store(u, rec)
    PROVE  table' \in Entries /\ login' \in [Sessions -> Login \cup {Idle}]
BY DEF UserTypes, Entries, Store

LEMMA CommandType ==
    ASSUME NEW a \in Admins, UserTypes, adm[a] # Idle
    PROVE  /\ adm[a] \in Command
           /\ adm[a].user \in Names /\ adm[a].new \in Names
           /\ adm[a].rec \in Accounts \cup {NoUser}
           /\ adm[a].drop \subseteq Nodes \X Names
BY DEF UserTypes, Command

LEMMA LoginType ==
    ASSUME NEW l \in Sessions, UserTypes, login[l] # Idle
    PROVE  /\ login[l] \in Login
           /\ login[l].user \in Names /\ login[l].node \in Nodes
           /\ login[l].rec \in Accounts \cup {NoUser}
BY DEF UserTypes, Login

\* A command begins.
LEMMA BeginsTypes ==
    ASSUME UserTypes, NobodyTold, NEW a \in Admins, NEW u \in Names, NEW new \in Names,
           NEW pc \in {"cache", "write", "delete"}, NEW rec \in Accounts \cup {NoUser},
           Begins(a, pc, u, new, rec)
    PROVE  /\ adm' \in [Admins -> Command \cup {Idle}] /\ NobodyTold'
           /\ adm'[a] # Idle /\ adm'[a].drop = Nodes \X {u, new}
           /\ \A b \in Admins \ {a} : adm'[b] = adm[b]
           /\ adm[a] = Idle
<1> DEFINE c == [pc |-> pc, user |-> u, new |-> new, rec |-> rec,
                 drop |-> Nodes \X {u, new}]
<1>1. c \in Command
  BY DEF Command
<1>2. adm' = [adm EXCEPT ![a] = c] /\ adm[a] = Idle
  BY DEF Begins
<1>3. c # Idle
  BY <1>1, UsersAssumption
<1>4. NobodyTold'
  BY <1>2 DEF NobodyTold, UserTypes
<1> QED
  BY <1>1, <1>2, <1>3, <1>4 DEF UserTypes

\* A command goes on.
LEMMA GotoTypes ==
    ASSUME UserTypes, NobodyTold, NEW a \in Admins, adm[a] # Idle,
           NEW pc \in {"delete", "poison"}, AdmGoto(a, pc),
           adm[a].pc = "poison" => pc = "poison"
    PROVE  /\ adm' \in [Admins -> Command \cup {Idle}] /\ NobodyTold'
           /\ \A b \in Admins : WillDrop(b)' = WillDrop(b)
<1>1. adm[a] \in Command
  BY CommandType
<1>2. [adm[a] EXCEPT !.pc = pc] \in Command
  BY <1>1 DEF Command
<1>3. [adm[a] EXCEPT !.pc = pc] # Idle
  BY <1>2, UsersAssumption
<1>4. adm' = [adm EXCEPT ![a] = [adm[a] EXCEPT !.pc = pc]]
  BY DEF AdmGoto
<1>5. /\ adm'[a] = [adm[a] EXCEPT !.pc = pc]
      /\ \A b \in Admins \ {a} : adm'[b] = adm[b]
  BY <1>4 DEF UserTypes
<1>6. /\ adm'[a].user = adm[a].user /\ adm'[a].new = adm[a].new
      /\ adm'[a].drop = adm[a].drop /\ adm'[a].pc = pc
  BY <1>1, <1>5 DEF Command
<1>7. \A b \in Admins : WillDrop(b)' = WillDrop(b)
  BY <1>3, <1>5, <1>6 DEF WillDrop
<1>8. NobodyTold'
  BY <1>5, <1>6 DEF NobodyTold
<1> QED
  BY <1>2, <1>4, <1>7, <1>8 DEF UserTypes
-----------------------------------------------------------------------------
(* Steps.                                                                  *)

\* The map changes by a command that has yet to tell all nodes of it.
LEMMA MapChanges ==
    ASSUME UsersInv, NEW a \in Admins, NEW u \in Names,
           NEW rec \in Accounts \cup {NoUser}, Store(u, rec),
           UNCHANGED <<up, cache, missed, refused>>,
           adm' \in [Admins -> Command \cup {Idle}], NobodyTold',
           \A b \in Admins : WillDrop(b) \subseteq WillDrop(b)',
           Nodes \X {u} \subseteq WillDrop(a)'
    PROVE  UsersInv'
<1>1. UserTypes'
  BY StoreTypes DEF UsersInv, UserTypes
<1>2. CacheCoherent'
  <2>1. SUFFICES ASSUME NEW n \in up, NEW v \in Names, Differs(n, v)'
                 PROVE  \/ <<n, v>> \in missed
                        \/ \E b \in Admins : <<n, v>> \in WillDrop(b)'
    BY DEF CacheCoherent
  <2>2. n \in Nodes
    BY DEF UsersInv, UserTypes
  <2>3. CASE v = u
    BY <2>2, <2>3
  <2>4. CASE v # u
    <3>1. table'[v] = table[v]
      BY <2>4 DEF Store, UsersInv, UserTypes, Entries
    <3>2. Differs(n, v)
      BY <2>1, <3>1 DEF Differs
    <3> QED
      BY <3>2 DEF UsersInv, CacheCoherent
  <2> QED
    BY <2>3, <2>4
<1>3. RightLogins'
  BY DEF Store, UsersInv, RightLogins
<1> QED
  BY <1>1, <1>2, <1>3 DEF UsersInv, PasswordAccepted

Remembers(n, u, rec) == cache' = [cache EXCEPT ![n][u] = rec]

\* One entry in memory changes: it is none or that of the map, or is missed, or
\* a command will drop it.
LEMMA EntryChanges ==
    ASSUME UsersInv, NEW n \in Nodes, NEW u \in Names,
           NEW rec \in Accounts \cup {NoUser},
           Remembers(n, u, rec), UNCHANGED <<up, table>>,
           \/ rec \in {NoUser, table[u]} \/ <<n, u>> \in missed'
           \/ \E b \in Admins : <<n, u>> \in WillDrop(b)',
           missed \subseteq missed' \cup {<<n, u>>},
           \A b \in Admins : WillDrop(b) \subseteq WillDrop(b)' \cup {<<n, u>>}
    PROVE  CacheCoherent' /\ cache' \in [Nodes -> Entries]
<1>1. /\ cache' \in [Nodes -> Entries] /\ cache'[n][u] = rec
      /\ \A m \in Nodes, v \in Names :
            <<m, v>> # <<n, u>> => cache'[m][v] = cache[m][v]
  <2>1. cache' = [cache EXCEPT ![n] = [cache[n] EXCEPT ![u] = rec]]
    BY DEF Remembers
  <2>2. [cache[n] EXCEPT ![u] = rec] \in Entries
    BY DEF UsersInv, UserTypes, Entries
  <2> QED
    BY <2>1, <2>2 DEF UsersInv, UserTypes, Entries
<1>2. SUFFICES ASSUME NEW m \in up, NEW v \in Names, Differs(m, v)'
               PROVE  \/ <<m, v>> \in missed'
                      \/ \E b \in Admins : <<m, v>> \in WillDrop(b)'
  BY <1>1 DEF CacheCoherent
<1>3. m \in Nodes
  BY DEF UsersInv, UserTypes
<1>4. CASE <<m, v>> = <<n, u>>
  <2>1. m = n /\ v = u
    BY <1>4
  <2> QED
    BY <1>1, <1>2, <2>1 DEF Differs
<1>5. CASE <<m, v>> # <<n, u>>
  <2>1. Differs(m, v)
    BY <1>1, <1>2, <1>3, <1>5 DEF Differs
  <2>2. \/ <<m, v>> \in missed
        \/ \E b \in Admins : <<m, v>> \in WillDrop(b)
    BY <2>1 DEF UsersInv, CacheCoherent
  <2> QED
    BY <1>5, <2>2
<1> QED
  BY <1>4, <1>5

\* Commands end: what they would have dropped is missed.
LEMMA CommandsEnd ==
    ASSUME UsersInv, NEW A \in SUBSET Admins, Dropped(A)
    PROVE  /\ adm' \in [Admins -> Command \cup {Idle}] /\ NobodyTold'
           /\ missed \subseteq missed'
           /\ \A n \in up, u \in Names : Differs(n, u) =>
                \/ <<n, u>> \in missed'
                \/ \E b \in Admins : <<n, u>> \in WillDrop(b)'
<1>1. adm' \in [Admins -> Command \cup {Idle}]
  BY DEF Dropped, UsersInv, UserTypes
<1>2. NobodyTold'
  BY DEF Dropped, UsersInv, NobodyTold
<1>3. ASSUME NEW n \in up, NEW u \in Names, Differs(n, u)
      PROVE  \/ <<n, u>> \in missed'
             \/ \E b \in Admins : <<n, u>> \in WillDrop(b)'
  <2>1. CASE <<n, u>> \in missed
    BY <2>1 DEF Dropped
  <2>2. ASSUME NEW b \in Admins, <<n, u>> \in WillDrop(b)
        PROVE  \/ <<n, u>> \in missed'
               \/ \E c \in Admins : <<n, u>> \in WillDrop(c)'
    <3>1. CASE b \in A
      BY <1>3, <2>2, <3>1 DEF Dropped
    <3>2. CASE b \notin A
      BY <2>2, <3>2 DEF Dropped, WillDrop
    <3> QED
      BY <3>1, <3>2
  <2> QED
    BY <1>3, <2>1, <2>2 DEF UsersInv, CacheCoherent
<1> QED
  BY <1>1, <1>2, <1>3 DEF Dropped
-----------------------------------------------------------------------------
(* Commands.                                                               *)

LEMMA UseraddStep ==
    ASSUME UsersInv, NEW a \in Admins, NEW u \in Names, NEW p \in Passwords,
           cluster_useradd(a, u, p)
    PROVE  UsersInv'
<1> DEFINE rec == User(p, NORMAL)
<1>1. rec \in Accounts
  BY DEF User, Accounts, Levels
<1>2. Begins(a, "cache", u, u, rec) /\ Store(u, rec)
  BY DEF cluster_useradd
<1>3. UNCHANGED <<up, cache, missed, refused>>
  BY DEF cluster_useradd, Begins
<1> HIDE DEF rec
<1>4. /\ adm' \in [Admins -> Command \cup {Idle}] /\ NobodyTold'
      /\ adm'[a] # Idle /\ adm'[a].drop = Nodes \X {u, u}
      /\ \A b \in Admins \ {a} : adm'[b] = adm[b]
      /\ adm[a] = Idle
  BY <1>1, <1>2, BeginsTypes DEF UsersInv
<1>5. \A b \in Admins : WillDrop(b) \subseteq WillDrop(b)'
  BY <1>4 DEF WillDrop
<1>6. Nodes \X {u} \subseteq WillDrop(a)'
  BY <1>4 DEF WillDrop
<1> QED
  BY <1>1, <1>2, <1>3, <1>4, <1>5, <1>6, MapChanges

LEMMA CacheAddedStep ==
    ASSUME UsersInv, NEW a \in Admins, CacheAdded(a)
    PROVE  UsersInv'
<1>1. adm[a] # Idle /\ adm[a].pc = "cache" /\ AdmGoto(a, "poison")
  BY DEF CacheAdded, AdmAt
<1>2. UNCHANGED <<up, table, login, right, missed, refused>>
  BY DEF CacheAdded, AdmAt
<1>3. adm[a].user \in Names /\ adm[a].rec \in Accounts \cup {NoUser}
  BY <1>1, CommandType DEF UsersInv
<1>4. /\ adm' \in [Admins -> Command \cup {Idle}] /\ NobodyTold'
      /\ \A b \in Admins : WillDrop(b)' = WillDrop(b)
  BY <1>1, GotoTypes DEF UsersInv
<1>5. <<Owner, adm[a].user>> \in WillDrop(a)'
  <2>1. Nodes \X {adm[a].user, adm[a].new} \subseteq adm[a].drop
    BY <1>1 DEF UsersInv, NobodyTold
  <2> QED
    BY <1>1, <1>4, <2>1, UsersAssumption DEF WillDrop
<1>6. Remembers(Owner, adm[a].user, adm[a].rec)
  BY DEF CacheAdded, Remembers
<1>7. CacheCoherent' /\ cache' \in [Nodes -> Entries]
  BY <1>2, <1>3, <1>4, <1>5, <1>6, EntryChanges, UsersAssumption
<1>8. UserTypes'
  BY <1>2, <1>4, <1>7 DEF UsersInv, UserTypes
<1>9. RightLogins' /\ PasswordAccepted'
  BY <1>2 DEF UsersInv, RightLogins, PasswordAccepted, Right
<1> QED
  BY <1>4, <1>7, <1>8, <1>9 DEF UsersInv

LEMMA UserdelStep ==
    ASSUME UsersInv, NEW a \in Admins, NEW u \in Names, cluster_userdel(a, u)
    PROVE  UsersInv'
<1>1. Begins(a, "delete", u, u, NoUser)
  BY DEF cluster_userdel
<1>2. UNCHANGED <<up, table, login, right, missed, refused>>
  BY DEF cluster_userdel, Begins
<1>3. /\ adm' \in [Admins -> Command \cup {Idle}] /\ NobodyTold'
      /\ adm'[a] # Idle /\ adm'[a].drop = Nodes \X {u, u}
      /\ \A b \in Admins \ {a} : adm'[b] = adm[b]
      /\ adm[a] = Idle
  BY <1>1, BeginsTypes DEF UsersInv
<1>4. \A b \in Admins : WillDrop(b) \subseteq WillDrop(b)'
  BY <1>3 DEF WillDrop
<1>5. Remembers(Owner, u, NoUser)
  BY DEF cluster_userdel, Remembers
<1>6. CacheCoherent' /\ cache' \in [Nodes -> Entries]
  BY <1>2, <1>4, <1>5, EntryChanges, UsersAssumption
<1>7. UserTypes'
  BY <1>2, <1>3, <1>6 DEF UsersInv, UserTypes
<1>8. RightLogins' /\ PasswordAccepted'
  BY <1>2 DEF UsersInv, RightLogins, PasswordAccepted, Right
<1> QED
  BY <1>3, <1>6, <1>7, <1>8 DEF UsersInv

LEMMA UsermodStep ==
    ASSUME UsersInv, NEW a \in Admins, NEW u \in Names, NEW new \in Names,
           NEW p \in Passwords, NEW v \in Levels,
           cluster_usermod(a, u, new, User(p, v))
    PROVE  UsersInv'
<1> DEFINE rec == User(p, v)
<1>1. rec \in Accounts
  BY DEF User, Accounts
<1>2. Begins(a, "write", u, new, rec)
  BY DEF cluster_usermod
<1>3. UNCHANGED <<up, table, cache, login, right, missed, refused>>
  BY DEF cluster_usermod, Begins
<1> HIDE DEF rec
<1>4. /\ adm' \in [Admins -> Command \cup {Idle}] /\ NobodyTold'
      /\ \A b \in Admins \ {a} : adm'[b] = adm[b]
      /\ adm[a] = Idle
  BY <1>1, <1>2, BeginsTypes DEF UsersInv
<1>5. \A b \in Admins : WillDrop(b) \subseteq WillDrop(b)'
  BY <1>4 DEF WillDrop
<1>6. CacheCoherent'
  BY <1>3, <1>5 DEF UsersInv, CacheCoherent, Differs
<1>7. UserTypes'
  BY <1>3, <1>4 DEF UsersInv, UserTypes
<1>8. RightLogins' /\ PasswordAccepted'
  BY <1>3 DEF UsersInv, RightLogins, PasswordAccepted, Right
<1> QED
  BY <1>4, <1>6, <1>7, <1>8 DEF UsersInv

LEMMA WriteStep ==
    ASSUME UsersInv, NEW a \in Admins, WriteUser(a) \/ DeleteUser(a)
    PROVE  UsersInv'
<1>1. PICK pc \in {"delete", "poison"} :
        adm[a] # Idle /\ adm[a].pc # "poison" /\ AdmGoto(a, pc)
  BY DEF WriteUser, DeleteUser, AdmAt
<1>2. PICK u \in {adm[a].user, adm[a].new}, rec \in {adm[a].rec, NoUser} : Store(u, rec)
  BY DEF WriteUser, DeleteUser
<1>3. UNCHANGED <<up, cache, missed, refused>>
  BY DEF WriteUser, DeleteUser, AdmAt
<1>4. u \in Names /\ rec \in Accounts \cup {NoUser}
  BY <1>1, CommandType DEF UsersInv
<1>5. /\ adm' \in [Admins -> Command \cup {Idle}] /\ NobodyTold'
      /\ \A b \in Admins : WillDrop(b)' = WillDrop(b)
  BY <1>1, GotoTypes DEF UsersInv
<1>6. Nodes \X {u} \subseteq WillDrop(a)'
  BY <1>1, <1>5 DEF UsersInv, NobodyTold, WillDrop
<1> QED
  BY <1>2, <1>3, <1>4, <1>5, <1>6, MapChanges

\* USERPOISON on one node.
LEMMA PoisonStep ==
    ASSUME UsersInv, NEW a \in Admins, cluster_userpoison(a)
    PROVE  UsersInv'
<1>1. /\ adm[a] # Idle /\ adm[a].pc = "poison"
      /\ UNCHANGED <<up, table, login, right, refused>>
  BY DEF cluster_userpoison
<1>2. PICK m \in up, u \in {adm[a].user, adm[a].new} :
        /\ cache' = [cache EXCEPT ![m][u] = NoUser]
        /\ missed' = missed \ {<<m, u>>}
        /\ adm' = [adm EXCEPT ![a] = IF adm[a].drop = {<<m, u>>} THEN Idle
                                     ELSE [adm[a] EXCEPT !.drop = @ \ {<<m, u>>}]]
  BY Zenon DEF cluster_userpoison
<1>3. m \in Nodes /\ u \in Names /\ adm[a] \in Command
  BY <1>1, CommandType DEF UsersInv, UserTypes
<1> DEFINE c == [adm[a] EXCEPT !.drop = @ \ {<<m, u>>}]
<1>4. /\ c \in Command /\ c.pc = "poison" /\ c.drop = adm[a].drop \ {<<m, u>>}
      /\ c # Idle
  <2>1. c \in Command /\ c.pc = "poison" /\ c.drop = adm[a].drop \ {<<m, u>>}
    BY <1>1, <1>3 DEF Command
  <2> QED
    BY <2>1, UsersAssumption
<1>5. adm' = [adm EXCEPT ![a] = IF adm[a].drop = {<<m, u>>} THEN Idle ELSE c]
  BY <1>2, Zenon
<1> HIDE DEF c
<1>6. /\ \A b \in Admins \ {a} : adm'[b] = adm[b]
      /\ adm'[a] = IF adm[a].drop = {<<m, u>>} THEN Idle ELSE c
  BY <1>5 DEF UsersInv, UserTypes
<1>7. adm' \in [Admins -> Command \cup {Idle}]
  BY <1>4, <1>5 DEF UsersInv, UserTypes
<1>8. NobodyTold'
  BY <1>4, <1>6 DEF UsersInv, NobodyTold
<1>9. ASSUME NEW b \in Admins PROVE WillDrop(b) \subseteq WillDrop(b)' \cup {<<m, u>>}
  <2>1. CASE b # a
    BY <1>6, <2>1 DEF WillDrop
  <2>2. CASE b = a /\ adm[a].drop = {<<m, u>>}
    BY <1>1, <2>2 DEF WillDrop
  <2>3. CASE b = a /\ adm[a].drop # {<<m, u>>}
    BY <1>1, <1>4, <1>6, <2>3 DEF WillDrop
  <2> QED
    BY <2>1, <2>2, <2>3
<1>10. CacheCoherent' /\ cache' \in [Nodes -> Entries]
  <2>1. missed \subseteq missed' \cup {<<m, u>>}
    BY <1>2
  <2>2. Remembers(m, u, NoUser)
    BY <1>2 DEF Remembers
  <2> QED
    BY <1>1, <1>3, <1>9, <2>1, <2>2, EntryChanges
<1>11. UserTypes'
  BY <1>1, <1>7, <1>10 DEF UsersInv, UserTypes
<1>12. RightLogins' /\ PasswordAccepted'
  BY <1>1 DEF UsersInv, RightLogins, PasswordAccepted, Right
<1> QED
  BY <1>8, <1>10, <1>11, <1>12 DEF UsersInv

LEMMA PoisonFailsStep ==
    ASSUME UsersInv, NEW a \in Admins, PoisonFails(a)
    PROVE  UsersInv'
<1>1. Dropped({a}) /\ UNCHANGED <<up, table, cache, login, right, refused>>
  BY DEF PoisonFails
<1>2. /\ adm' \in [Admins -> Command \cup {Idle}] /\ NobodyTold'
      /\ \A n \in up, u \in Names : Differs(n, u) =>
            \/ <<n, u>> \in missed'
            \/ \E b \in Admins : <<n, u>> \in WillDrop(b)'
  BY <1>1, CommandsEnd
<1>3. CacheCoherent'
  BY <1>1, <1>2 DEF CacheCoherent, Differs
<1>4. UserTypes'
  BY <1>1, <1>2 DEF UsersInv, UserTypes
<1>5. RightLogins' /\ PasswordAccepted'
  BY <1>1 DEF UsersInv, RightLogins, PasswordAccepted, Right
<1> QED
  BY <1>2, <1>3, <1>4, <1>5 DEF UsersInv
-----------------------------------------------------------------------------
(* Logins.                                                                 *)

LEMMA NoCommand ==
    ASSUME UsersInv, UNCHANGED <<up, table, adm, cache, missed>>
    PROVE  NobodyTold' /\ CacheCoherent'
BY DEF UsersInv, NobodyTold, CacheCoherent, Differs, WillDrop

LEMMA AuthStep ==
    ASSUME UsersInv, NEW l \in Sessions, NEW n \in Nodes, NEW u \in Names,
           NEW p \in Passwords, Auth(l, n, u, p)
    PROVE  UsersInv'
<1>1. UNCHANGED <<up, table, adm, cache, missed, refused>>
  BY DEF Auth, Fetches, LoginVars
<1> DEFINE r == [pc |-> "fetch", node |-> n, user |-> u, pw |-> p, rec |-> NoUser]
<1>2. r \in Login /\ r # Idle
  <2>1. r \in Login
    BY DEF Login
  <2> QED
    BY <2>1, UsersAssumption
<1>3. login' = [login EXCEPT ![l] = r]
  BY DEF Auth, Fetches
<1>4. right' = IF Right(u, p, table) THEN right \cup {l} ELSE right
  BY DEF Auth, Fetches
<1>5. l \notin right
  BY DEF Auth, UsersInv, RightLogins
<1>6. UserTypes'
  BY <1>1, <1>2, <1>3 DEF UsersInv, UserTypes
<1>7. RightLogins'
  <2>1. right' \subseteq Sessions
    BY <1>4 DEF UsersInv, RightLogins
  <2>2. ASSUME NEW k \in right'
        PROVE  /\ login'[k] # Idle /\ Right(login'[k].user, login'[k].pw, table)
               /\ login'[k].pc = "keep" => login'[k].rec.pw = login'[k].pw
    <3>1. CASE k = l
      <4>1. login'[k] = r
        BY <1>3, <3>1 DEF UsersInv, UserTypes
      <4>2. Right(u, p, table)
        BY <1>4, <1>5, <3>1
      <4> QED
        BY <1>2, <4>1, <4>2
    <3>2. CASE k # l
      <4>1. k \in right /\ login'[k] = login[k]
        BY <1>3, <1>4, <2>1, <3>2 DEF UsersInv, UserTypes
      <4> QED
        BY <4>1 DEF UsersInv, RightLogins
    <3> QED
      BY <3>1, <3>2
  <2> QED
    BY <1>1, <2>1, <2>2 DEF RightLogins, Right
<1> QED
  BY <1>1, <1>6, <1>7, NoCommand DEF UsersInv, PasswordAccepted

\* A login ends, or some do.
LEMMA LoginsEnd ==
    ASSUME UsersInv, NEW L \in SUBSET Sessions,
           login' = [l \in Sessions |-> IF l \in L THEN Idle ELSE login[l]],
           right' = right \ L, UNCHANGED table
    PROVE  RightLogins' /\ login' \in [Sessions -> Login \cup {Idle}]
BY DEF UsersInv, UserTypes, RightLogins, Right

\* The login of one session ends.
LEMMA LoginEnds ==
    ASSUME UsersInv, NEW l \in Sessions, login' = [login EXCEPT ![l] = Idle],
           right' = right \ {l}, UNCHANGED table
    PROVE  RightLogins' /\ login' \in [Sessions -> Login \cup {Idle}]
<1>1. login' = [k \in Sessions |-> IF k \in {l} THEN Idle ELSE login[k]]
  BY DEF UsersInv, UserTypes
<1> QED
  BY <1>1, LoginsEnd

LEMMA FetchStep ==
    ASSUME UsersInv, NEW l \in Sessions, get_user(l)
    PROVE  UsersInv'
<1>1. UNCHANGED <<up, table, adm, cache, missed>>
  BY DEF get_user, LoginVars
<1>2. login[l] # Idle /\ login[l] \in Login /\ login[l].user \in Names
  BY LoginType DEF get_user, UsersInv
<1> DEFINE rec == table[login[l].user]
<1>3. CASE rec = NoUser
  <2>1. /\ login' = [login EXCEPT ![l] = Idle] /\ right' = right \ {l}
        /\ refused' = refused \cup (right \cap {l})
    BY <1>3 DEF get_user, LoginDone
  <2>2. l \notin right
    BY <1>3 DEF UsersInv, RightLogins, Right
  <2>3. refused' = {}
    BY <2>1, <2>2 DEF UsersInv, PasswordAccepted
  <2> QED
    BY <1>1, <2>1, <2>3, LoginEnds, NoCommand DEF UsersInv, UserTypes, PasswordAccepted
<1>4. CASE rec # NoUser
  <2>1. /\ login' = [login EXCEPT ![l].pc = "keep", ![l].rec = rec]
        /\ UNCHANGED <<right, refused>>
    BY <1>4 DEF get_user
  <2> DEFINE r == [login[l] EXCEPT !.pc = "keep", !.rec = rec]
  <2>2. rec \in Accounts
    BY <1>2, <1>4 DEF UsersInv, UserTypes, Entries
  <2>3. /\ r \in Login /\ r.user = login[l].user /\ r.pw = login[l].pw
        /\ r.rec = rec
    BY <1>2, <2>2 DEF Login
  <2>4. login' = [login EXCEPT ![l] = r]
    BY <2>1 DEF UsersInv, UserTypes
  <2> HIDE DEF r, rec
  <2>5. UserTypes'
    BY <1>1, <2>3, <2>4 DEF UsersInv, UserTypes
  <2>6. RightLogins'
    <3>1. right' \subseteq Sessions
      BY <2>1 DEF UsersInv, RightLogins
    <3>2. ASSUME NEW k \in right
          PROVE  /\ login'[k] # Idle /\ Right(login'[k].user, login'[k].pw, table)
                 /\ login'[k].pc = "keep" => login'[k].rec.pw = login'[k].pw
      <4>1. CASE k = l
        <5>1. login'[k] = r
          BY <2>4, <4>1 DEF UsersInv, UserTypes
        <5>2. Right(login[l].user, login[l].pw, table)
          BY <4>1 DEF UsersInv, RightLogins
        <5>3. rec.pw = login[l].pw
          BY <5>2 DEF Right, rec
        <5> QED
          BY <2>3, <5>1, <5>2, <5>3, UsersAssumption
      <4>2. CASE k # l
        <5>1. login'[k] = login[k]
          BY <2>4, <3>1, <4>2 DEF UsersInv, UserTypes
        <5> QED
          BY <5>1 DEF UsersInv, RightLogins
      <4> QED
        BY <4>1, <4>2
    <3> QED
      BY <1>1, <2>1, <3>1, <3>2 DEF RightLogins, Right
  <2> QED
    BY <1>1, <2>1, <2>5, <2>6, NoCommand DEF UsersInv, PasswordAccepted
<1> QED
  BY <1>3, <1>4

LEMMA FetchFailsStep ==
    ASSUME UsersInv, NEW l \in Sessions, GetUserFails(l)
    PROVE  UsersInv'
<1>1. /\ UNCHANGED <<up, table, adm, cache, missed, refused>>
      /\ login' = [login EXCEPT ![l] = Idle] /\ right' = right \ {l}
  BY DEF GetUserFails, LoginVars
<1> QED
  BY <1>1, LoginEnds, NoCommand DEF UsersInv, UserTypes, PasswordAccepted

\* A user that was fetched is kept: it is that of the map, or is missed.
LEMMA KeepStep ==
    ASSUME UsersInv, NEW l \in Sessions, KeepUser(l)
    PROVE  UsersInv'
<1> DEFINE r == login[l]
           entry == {<<r.node, r.user>>}
<1>1. /\ r # Idle /\ r.pc = "keep" /\ UNCHANGED <<up, table, adm>>
      /\ cache' = [cache EXCEPT ![r.node][r.user] = r.rec]
      /\ missed' = IF r.rec = table[r.user] THEN missed \ entry
                   ELSE missed \cup entry
      /\ LoginDone(l, r.rec.pw = r.pw)
  BY DEF KeepUser, LoginVars
<1>2. r \in Login /\ r.user \in Names /\ r.node \in Nodes
      /\ r.rec \in Accounts \cup {NoUser}
  BY <1>1, LoginType DEF UsersInv
<1>3. Remembers(r.node, r.user, r.rec)
  BY <1>1 DEF Remembers
<1>4. CacheCoherent' /\ cache' \in [Nodes -> Entries]
  <2>1. r.rec = table[r.user] \/ <<r.node, r.user>> \in missed'
    BY <1>1
  <2>2. missed \subseteq missed' \cup {<<r.node, r.user>>}
    BY <1>1
  <2>3. \A b \in Admins : WillDrop(b)' = WillDrop(b)
    BY <1>1 DEF WillDrop
  <2> QED
    BY <1>1, <1>2, <1>3, <2>1, <2>2, <2>3, EntryChanges
<1>5. RightLogins' /\ login' \in [Sessions -> Login \cup {Idle}]
  BY <1>1, LoginEnds DEF LoginDone
<1>6. refused' = {}
  <2>1. l \in right => r.rec.pw = r.pw
    BY <1>1 DEF UsersInv, RightLogins
  <2>2. refused' = IF r.rec.pw = r.pw THEN refused ELSE refused \cup (right \cap {l})
    BY <1>1 DEF LoginDone
  <2> QED
    BY <2>1, <2>2 DEF UsersInv, PasswordAccepted
<1>7. NobodyTold'
  BY <1>1 DEF UsersInv, NobodyTold
<1>8. UserTypes'
  BY <1>1, <1>4, <1>5 DEF UsersInv, UserTypes
<1> QED
  BY <1>4, <1>5, <1>6, <1>7, <1>8 DEF UsersInv, PasswordAccepted
-----------------------------------------------------------------------------
(* A node stops and starts.                                                *)

\* The memory of one node is emptied or filled from the map.
LEMMA MemoryChanges ==
    ASSUME UsersInv, NEW n \in Nodes, NEW e \in Entries,
           cache' = [cache EXCEPT ![n] = e]
    PROVE  /\ cache' \in [Nodes -> Entries] /\ cache'[n] = e
           /\ \A m \in Nodes \ {n} : cache'[m] = cache[m]
BY DEF UsersInv, UserTypes

LEMMA StopStep ==
    ASSUME UsersInv, NEW n \in Nodes, StopNode(n)
    PROVE  UsersInv'
<1>1. /\ up' = up \ {n} /\ UNCHANGED <<table, refused>>
      /\ cache' = [cache EXCEPT ![n] = [u \in Names |-> NoUser]]
      /\ right' = {l \in right : login[l].node # n}
  BY DEF StopNode, NobodyKnown
<1>2. [u \in Names |-> NoUser] \in Entries
  BY DEF Entries
<1>3. /\ cache' \in [Nodes -> Entries]
      /\ \A m \in Nodes \ {n} : cache'[m] = cache[m]
  BY <1>1, <1>2, MemoryChanges
<1>4. /\ adm' \in [Admins -> Command \cup {Idle}] /\ NobodyTold'
      /\ \A m \in up, u \in Names : Differs(m, u) =>
            \/ <<m, u>> \in missed'
            \/ \E b \in Admins : <<m, u>> \in WillDrop(b)'
  <2>1. CASE n = Owner
    <3>1. Dropped(Admins)
      BY <2>1 DEF StopNode
    <3> QED
      BY <3>1, CommandsEnd
  <2>2. CASE n # Owner
    <3>1. UNCHANGED <<adm, missed>>
      BY <2>2 DEF StopNode
    <3> QED
      BY <3>1 DEF UsersInv, UserTypes, NobodyTold, CacheCoherent, WillDrop
  <2> QED
    BY <2>1, <2>2
<1>5. CacheCoherent'
  <2>1. SUFFICES ASSUME NEW m \in up', NEW u \in Names, Differs(m, u)'
                 PROVE  \/ <<m, u>> \in missed'
                        \/ \E b \in Admins : <<m, u>> \in WillDrop(b)'
    BY DEF CacheCoherent
  <2>2. m \in up /\ m \in Nodes \ {n}
    BY <1>1 DEF UsersInv, UserTypes
  <2>3. Differs(m, u)
    BY <1>1, <1>3, <2>1, <2>2 DEF Differs
  <2> QED
    BY <1>4, <2>2, <2>3
<1>6. login' \in [Sessions -> Login \cup {Idle}]
  BY DEF StopNode, UsersInv, UserTypes
<1>7. RightLogins'
  <2>1. ASSUME NEW l \in right' PROVE l \in right /\ l \in Sessions /\ login'[l] = login[l]
    BY <1>1 DEF StopNode, UsersInv, RightLogins
  <2> QED
    BY <1>1, <2>1 DEF UsersInv, RightLogins, Right
<1>8. UserTypes'
  BY <1>1, <1>3, <1>4, <1>6 DEF UsersInv, UserTypes
<1> QED
  BY <1>1, <1>4, <1>5, <1>7, <1>8 DEF UsersInv, PasswordAccepted

LEMMA StartStep ==
    ASSUME UsersInv, NEW n \in Nodes, create_users(n)
    PROVE  UsersInv'
<1>1. /\ n \notin up /\ up' = up \cup {n}
      /\ missed' = {x \in missed : x[1] # n}
      /\ UNCHANGED <<table, adm, login, right, refused>>
  BY DEF create_users
<1>2. PICK e \in {table, [u \in Names |-> NoUser]} : cache' = [cache EXCEPT ![n] = e]
  BY DEF create_users, NobodyKnown
<1>3. e \in Entries
  BY <1>2 DEF UsersInv, UserTypes, Entries
<1>4. /\ cache' \in [Nodes -> Entries] /\ cache'[n] = e
      /\ \A m \in Nodes \ {n} : cache'[m] = cache[m]
  BY <1>2, <1>3, MemoryChanges
<1>5. CacheCoherent'
  <2>1. SUFFICES ASSUME NEW m \in up', NEW u \in Names, Differs(m, u)'
                 PROVE  \/ <<m, u>> \in missed'
                        \/ \E b \in Admins : <<m, u>> \in WillDrop(b)'
    BY DEF CacheCoherent
  <2>2. m # n
    <3>1. CASE e = table
      BY <1>1, <1>4, <2>1, <3>1 DEF Differs
    <3>2. CASE e = [v \in Names |-> NoUser]
      BY <1>4, <2>1, <3>2 DEF Differs
    <3> QED
      BY <1>2, <3>1, <3>2
  <2>3. m \in up /\ m \in Nodes \ {n}
    BY <1>1, <2>2 DEF UsersInv, UserTypes
  <2>4. Differs(m, u)
    BY <1>1, <1>4, <2>1, <2>3 DEF Differs
  <2>5. \/ <<m, u>> \in missed
        \/ \E b \in Admins : <<m, u>> \in WillDrop(b)
    BY <2>3, <2>4 DEF UsersInv, CacheCoherent
  <2> QED
    BY <1>1, <2>2, <2>5 DEF WillDrop
<1>6. UserTypes'
  BY <1>1, <1>4 DEF UsersInv, UserTypes
<1> QED
  BY <1>1, <1>5, <1>6
  DEF UsersInv, NobodyTold, RightLogins, Right, PasswordAccepted
-----------------------------------------------------------------------------
(* The theorems.                                                           *)

LEMMA UsersNext == UsersInv /\ [UNext]_uvars => UsersInv'
<1>1. SUFFICES ASSUME UsersInv, [UNext]_uvars PROVE UsersInv'
  OBVIOUS
<1>2. ASSUME NEW a \in Admins, AdminStep(a) PROVE UsersInv'
  BY <1>1, <1>2, CacheAddedStep, WriteStep, PoisonStep, PoisonFailsStep DEF AdminStep
<1>3. ASSUME NEW a \in Admins, NEW u \in Names, NEW p \in Passwords,
             cluster_useradd(a, u, p)
      PROVE  UsersInv'
  BY <1>1, <1>3, UseraddStep
<1>4. ASSUME NEW a \in Admins, NEW u \in Names, cluster_userdel(a, u) PROVE UsersInv'
  BY <1>1, <1>4, UserdelStep
<1>5. ASSUME NEW a \in Admins, NEW u \in Names, NEW new \in Names, NEW p \in Passwords,
             NEW v \in Levels, cluster_usermod(a, u, new, User(p, v))
      PROVE  UsersInv'
  BY <1>1, <1>5, UsermodStep
<1>6. ASSUME NEW l \in Sessions, NEW n \in Nodes, NEW u \in Names, NEW p \in Passwords,
             Auth(l, n, u, p)
      PROVE  UsersInv'
  BY <1>1, <1>6, AuthStep
<1>7. ASSUME NEW l \in Sessions, get_user(l) \/ GetUserFails(l) \/ KeepUser(l)
      PROVE  UsersInv'
  BY <1>1, <1>7, FetchStep, FetchFailsStep, KeepStep
<1>8. ASSUME NEW n \in Nodes, StopNode(n) \/ create_users(n) PROVE UsersInv'
  BY <1>1, <1>8, StopStep, StartStep
<1>9. CASE UNCHANGED uvars
  BY <1>1, <1>9
  DEF uvars, UsersInv, UserTypes, NobodyTold, CacheCoherent, Differs, WillDrop,
      RightLogins, Right, PasswordAccepted
<1> QED
  BY <1>1, <1>2, <1>3, <1>4, <1>5, <1>6, <1>7, <1>8, <1>9 DEF UNext

LEMMA UsersInvariant == USpec => []UsersInv
BY UsersInit, UsersNext, PTL DEF USpec

\* However many commands and logins overlap, a user that a node has in memory is
\* the one of the map unless a command will drop it, a login stored what it
\* fetched before a change, or a node was down when a command told it.
THEOREM UsersCoherent == USpec => []CacheCoherent
<1>1. UsersInv => CacheCoherent
  BY DEF UsersInv
<1> QED
  BY <1>1, UsersInvariant, PTL

\* However stale the memory of the node, Client#auth refuses no login whose
\* password was the user's from its start to its end.
THEOREM RightAccepted == USpec => []PasswordAccepted
<1>1. UsersInv => PasswordAccepted
  BY DEF UsersInv
<1> QED
  BY <1>1, UsersInvariant, PTL
=============================================================================
