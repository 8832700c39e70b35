------------------------------ MODULE Registry ------------------------------
(***************************************************************************)
(* The connection registry (registry.go) and the online counter that       *)
(* server.go keeps beside it, under concurrent ServeHTTP goroutines, the   *)
(* heartbeat goroutine and goroutines that move connections in and out of  *)
(* groups.                                                                 *)
(*                                                                         *)
(* A connection stands for its registryEntry (ids are unique).  The user   *)
(* index and the group index are one function on keys; the sets it points  *)
(* to are heap objects, because goroutines keep pointers to them.  A step  *)
(* is one operation on a ShardMap (external, each Get, Set, Delete and Len *)
(* atomic) or one critical section whose intermediate states nobody sees.  *)
(***************************************************************************)
EXTENDS Integers, FiniteSets

CONSTANTS
  Conns,      \* connections, each with the ServeHTTP goroutine that owns it
  Users,      \* user ids
  Groups,     \* group names after normalizeGroup
  UserOf,     \* the user of each connection
  Callers,    \* goroutines calling AddToGroup, RemoveFromGroup, ...
  Heartbeat,  \* the heartbeat goroutine
  HeartbeatEnabled,  \* PingInterval and PingTimeout are positive
  SetIds,     \* heap objects of type connectionSet
  None

ASSUME RegistryConstants ==
  /\ IsFiniteSet(Conns) /\ IsFiniteSet(Callers) /\ IsFiniteSet(SetIds)
  /\ IsFiniteSet(Users) /\ IsFiniteSet(Groups) /\ Users \cap Groups = {}
  /\ None \notin Conns \cup Users \cup Groups \cup SetIds \cup Callers \cup {Heartbeat}
  /\ UserOf \in [Conns -> Users \cup {None}]
  /\ Conns \cap Callers = {} /\ Heartbeat \notin Conns \cup Callers
  /\ HeartbeatEnabled \in BOOLEAN

Keys == Users \cup Groups
Procs == Conns \cup Callers \cup {Heartbeat}

\* The heap is not exhausted: one set per key and one pointer per goroutine may be in use.
ASSUME HeapSuffices == Cardinality(SetIds) >= Cardinality(Keys) + Cardinality(Procs)

VARIABLES
  connections, \* r.connections: the registered connections
  groups,      \* entry.groups of each connection
  idle,        \* entry.lastSeen is older than the heartbeat's deadline
  entryMu,     \* holder of entry.mu of each connection
  index,       \* userConnIndex and groupConnIndex: the set of each key
  sets,        \* contents of the connectionSet objects
  stripe,      \* holder of the stripe of indexInitLocks of each key
  online,      \* h.online
  life,        \* ServeHTTP of each connection: "new", "serving", "gone"
  job,         \* the registry call each goroutine is in
  candidates,  \* expired: entries found idle and not yet looked at again
  expiredConns \* expired: connections removed so far

vars == <<connections, groups, idle, entryMu, index, sets, stripe, online, life, job,
          candidates, expiredConns>>

\* at: the next step; op: the call; on: its connection; key: the index key at hand;
\* ref: the set pointer at hand; todo: keys still to be cleaned.
NoJob == [at |-> "idle", op |-> "none", on |-> None, key |-> None, ref |-> None, todo |-> {}]

At(p, step) == job[p].at = step
UserKeys(c) == {UserOf[c]} \ {None}

\* What userConnections, groupConnections and their snapshots see of a key.
Members(k) == IF index[k] = None THEN {} ELSE sets[index[k]]
userOnline(u) == Cardinality(Members(u))

\* Objects no pointer leads to.
FreeSets == SetIds \ ({index[k] : k \in Keys} \cup {job[p].ref : p \in Procs})

newConnectionRegistry ==
  /\ connections = {}
  /\ groups = [c \in Conns |-> {}]
  /\ idle = [c \in Conns |-> FALSE]
  /\ entryMu = [c \in Conns |-> None]
  /\ index = [k \in Keys |-> None]
  /\ sets = [s \in SetIds |-> {}]
  /\ stripe = [k \in Keys |-> None]
  /\ online = 0
  /\ life = [c \in Conns |-> "new"]
  /\ job = [p \in Procs |-> NoJob]
  /\ candidates = {} /\ expiredConns = {}

Init == newConnectionRegistry

-----------------------------------------------------------------------------
(***************************************************************************)
(* Shared steps: find or create the set of a key and put the connection in *)
(* it; take the connection out of the sets of all the keys in todo.        *)
(***************************************************************************)

\* Mutant: the result of the Get is used although the key was absent.
connectionSetFor_NilSet(p) ==
  /\ At(p, "setFor")
  /\ job' = [job EXCEPT ![p].ref = index[job[p].key], ![p].at = "setInto"]
  /\ UNCHANGED <<connections, groups, idle, entryMu, index, sets, stripe, online, life,
                 candidates, expiredConns>>

\* connectionSetFor, the Get without a lock.
connectionSetFor(p) ==
  /\ At(p, "setFor")
  /\ LET s == index[job[p].key] IN
       job' = [job EXCEPT ![p].ref = s, ![p].at = IF s = None THEN "setForLocked" ELSE "setInto"]
  /\ UNCHANGED <<connections, groups, idle, entryMu, index, sets, stripe, online, life,
                 candidates, expiredConns>>

\* connectionSetFor, the section under the stripe lock.
connectionSetForLocked(p) ==
  LET k == job[p].key IN
  /\ At(p, "setForLocked") /\ stripe[k] = None
  /\ \/ /\ index[k] # None
        /\ job' = [job EXCEPT ![p].ref = index[k], ![p].at = "setInto"]
        /\ UNCHANGED <<index, sets>>
     \/ /\ index[k] = None
        /\ LET s == CHOOSE s \in FreeSets : TRUE IN
             /\ index' = [index EXCEPT ![k] = s]
             /\ sets' = [sets EXCEPT ![s] = {}]
             /\ job' = [job EXCEPT ![p].ref = s, ![p].at = "setInto"]
  /\ UNCHANGED <<connections, groups, idle, entryMu, stripe, online, life, candidates, expiredConns>>

\* The Set on the pointer connectionSetFor returned.
setInto(p) ==
  /\ At(p, "setInto")
  /\ sets' = [sets EXCEPT ![job[p].ref] = @ \cup {job[p].on}]
  /\ job' = [job EXCEPT ![p].ref = None, ![p].key = None,
                        ![p].at = IF job[p].op = "add" THEN "recheck" ELSE "unlock"]
  /\ UNCHANGED <<connections, groups, idle, entryMu, index, stripe, online, life,
                 candidates, expiredConns>>

\* removeConnectionFromIndex for the next key, the user's before the groups'.
removeConnectionFromIndex(p) ==
  /\ At(p, "drop")
  /\ \/ /\ job[p].todo = {}
        /\ job' = [job EXCEPT ![p].at = "unlock", ![p].key = None]
     \/ \E k \in job[p].todo :
          /\ k \in Groups => job[p].todo \cap Users = {}
          /\ job' = [job EXCEPT ![p].todo = @ \ {k}, ![p].key = k, ![p].ref = index[k],
                                ![p].at = IF index[k] = None THEN "drop" ELSE "dropDelete"]
  /\ UNCHANGED <<connections, groups, idle, entryMu, index, sets, stripe, online, life,
                 candidates, expiredConns>>

dropDelete(p) ==
  /\ At(p, "dropDelete")
  /\ sets' = [sets EXCEPT ![job[p].ref] = @ \ {job[p].on}]
  /\ job' = [job EXCEPT ![p].at = "dropLen"]
  /\ UNCHANGED <<connections, groups, idle, entryMu, index, stripe, online, life,
                 candidates, expiredConns>>

dropLen(p) ==
  /\ At(p, "dropLen")
  /\ job' = [job EXCEPT ![p].ref = None,
                        ![p].at = IF sets[job[p].ref] = {} THEN "dropLocked" ELSE "drop"]
  /\ UNCHANGED <<connections, groups, idle, entryMu, index, sets, stripe, online, life,
                 candidates, expiredConns>>

\* Mutant: emptied sets stay in the index.
StillEmpty_Never(k) == FALSE

StillEmpty(k) == index[k] # None /\ sets[index[k]] = {}

\* Under the stripe lock: Get and Len, then Delete, with room for a Set in between.
dropLocked(p) ==
  LET k == job[p].key IN
  /\ At(p, "dropLocked") /\ stripe[k] = None
  /\ \/ /\ StillEmpty(k)
        /\ stripe' = [stripe EXCEPT ![k] = p]
        /\ job' = [job EXCEPT ![p].at = "dropIndex"]
     \/ /\ ~StillEmpty(k)
        /\ job' = [job EXCEPT ![p].at = "drop"]
        /\ UNCHANGED stripe
  /\ UNCHANGED <<connections, groups, idle, entryMu, index, sets, online, life,
                 candidates, expiredConns>>

dropIndex(p) ==
  LET k == job[p].key IN
  /\ At(p, "dropIndex")
  /\ index' = [index EXCEPT ![k] = None]
  /\ stripe' = [stripe EXCEPT ![k] = None]
  /\ job' = [job EXCEPT ![p].at = "drop"]
  /\ UNCHANGED <<connections, groups, idle, entryMu, sets, online, life, candidates, expiredConns>>

\* Mutant: entry.mu is not unlocked.
entryUnlock_Missing(p) ==
  /\ At(p, "unlock")
  /\ job' = [job EXCEPT ![p] =
       CASE job[p].op \in {"add", "remove"} -> [@ EXCEPT !.at = "count"]
         [] job[p].op = "expire" -> [NoJob EXCEPT !.at = "nextExpired"]
         [] OTHER -> NoJob]
  /\ UNCHANGED <<connections, groups, idle, entryMu, index, sets, stripe, online, life,
                 candidates, expiredConns>>

\* entry.mu.Unlock; what follows depends on the call.
entryUnlock(p) ==
  LET c == job[p].on IN
  /\ At(p, "unlock")
  /\ entryMu' = [entryMu EXCEPT ![c] = None]
  /\ job' = [job EXCEPT ![p] =
       CASE job[p].op \in {"add", "remove"} -> [@ EXCEPT !.at = "count"]
         [] job[p].op = "expire" -> [NoJob EXCEPT !.at = "nextExpired"]
         [] OTHER -> NoJob]
  /\ UNCHANGED <<connections, groups, idle, index, sets, stripe, online, life,
                 candidates, expiredConns>>

IndexStep(p) ==
  \/ connectionSetFor(p) \/ connectionSetForLocked(p) \/ setInto(p)
  \/ removeConnectionFromIndex(p) \/ dropDelete(p) \/ dropLen(p) \/ dropLocked(p) \/ dropIndex(p)
  \/ entryUnlock(p)
-----------------------------------------------------------------------------
(***************************************************************************)
(* The ServeHTTP goroutine: addConnection, touch, removeConnection.        *)
(***************************************************************************)

\* addConnection holds admissionMu from its first to its last step.
AdmissionMuFree == \A c \in Conns : job[c].op # "add"

add(c) ==
  /\ life[c] = "new" /\ At(c, "idle") /\ AdmissionMuFree
  /\ connections' = connections \cup {c}
  /\ job' = [job EXCEPT ![c] = [NoJob EXCEPT !.op = "add", !.on = c, !.key = UserOf[c],
                                 !.at = IF UserOf[c] = None THEN "recheck" ELSE "setFor"]]
  /\ UNCHANGED <<groups, idle, entryMu, index, sets, stripe, online, life, candidates, expiredConns>>

\* Mutant: add does not look whether the heartbeat has removed the entry already.
StillRegistered_Unchecked(c) == TRUE

StillRegistered(c) == c \in connections

\* End of add, under entry.mu: an entry removed meanwhile leaves the user index again.
addRecheck(c) ==
  /\ At(c, "recheck") /\ entryMu[c] = None
  /\ \/ /\ StillRegistered(c)
        /\ job' = [job EXCEPT ![c].at = "count"]
        /\ UNCHANGED entryMu
     \/ /\ ~StillRegistered(c)
        /\ entryMu' = [entryMu EXCEPT ![c] = c]
        /\ job' = [job EXCEPT ![c].at = "drop", ![c].todo = UserKeys(c)]
  /\ UNCHANGED <<connections, groups, idle, index, sets, stripe, online, life,
                 candidates, expiredConns>>

touch(c) ==
  /\ life[c] = "serving" /\ At(c, "idle")
  /\ c \in connections /\ idle[c]
  /\ idle' = [idle EXCEPT ![c] = FALSE]
  /\ UNCHANGED <<connections, groups, entryMu, index, sets, stripe, online, life, job,
                 candidates, expiredConns>>

\* removeConnection: the Get before entry.mu is taken.
remove(c) ==
  /\ life[c] = "serving" /\ At(c, "idle")
  /\ \/ /\ c \in connections
        /\ job' = [job EXCEPT ![c] = [NoJob EXCEPT !.op = "remove", !.on = c, !.at = "lock"]]
        /\ UNCHANGED life
     \/ /\ c \notin connections
        /\ life' = [life EXCEPT ![c] = "gone"]
        /\ UNCHANGED job
  /\ UNCHANGED <<connections, groups, idle, entryMu, index, sets, stripe, online,
                 candidates, expiredConns>>

\* The index keys a removed entry is taken out of.
KeysOf(c) == UserKeys(c) \cup groups[c]

removeLocked(c) ==
  /\ At(c, "lock") /\ job[c].op = "remove" /\ entryMu[c] = None
  /\ entryMu' = [entryMu EXCEPT ![c] = c]
  /\ connections' = connections \ {c}
  /\ job' = [job EXCEPT ![c].at = "drop", ![c].todo = KeysOf(c)]
  /\ UNCHANGED <<groups, idle, index, sets, stripe, online, life, candidates, expiredConns>>

\* The online counter follows add and remove, outside every lock of the registry.
countOnline(c) ==
  /\ At(c, "count")
  /\ \/ /\ job[c].op = "add"
        /\ online' = online + 1
        /\ life' = [life EXCEPT ![c] = "serving"]
     \/ /\ job[c].op = "remove"
        /\ online' = online - 1
        /\ life' = [life EXCEPT ![c] = "gone"]
  /\ job' = [job EXCEPT ![c] = NoJob]
  /\ UNCHANGED <<connections, groups, idle, entryMu, index, sets, stripe, candidates, expiredConns>>

ServeStep(c) == add(c) \/ addRecheck(c) \/ remove(c) \/ removeLocked(c) \/ countOnline(c)
-----------------------------------------------------------------------------
(***************************************************************************)
(* Groups.  entry.groups is only read and written under entry.mu, so its   *)
(* update is one step with the taking of the lock.                         *)
(***************************************************************************)

groupCall(p, c, g, op) ==
  /\ At(p, "idle") /\ c \in connections
  /\ job' = [job EXCEPT ![p] = [NoJob EXCEPT !.op = op, !.on = c, !.key = g, !.at = "lock"]]
  /\ UNCHANGED <<connections, groups, idle, entryMu, index, sets, stripe, online, life,
                 candidates, expiredConns>>

\* Mutant: addToGroup indexes the connection but does not record the group.
groupsJoined_Forgotten(c, g) == groups[c]

groupsJoined(c, g) == groups[c] \cup {g}

groupLocked(p) ==
  LET c == job[p].on
      g == job[p].key IN
  /\ At(p, "lock") /\ entryMu[c] = None
  /\ entryMu' = [entryMu EXCEPT ![c] = p]
  /\ \/ /\ job[p].op = "addToGroup"
        /\ groups' = [groups EXCEPT ![c] = groupsJoined(c, g)]
        /\ job' = [job EXCEPT ![p].at = "setFor"]
     \/ /\ job[p].op = "removeFromGroup"
        /\ groups' = [groups EXCEPT ![c] = @ \ {g}]
        /\ job' = [job EXCEPT ![p].at = "drop", ![p].todo = {g}]
     \/ /\ job[p].op = "removeFromAllGroups"
        /\ groups' = [groups EXCEPT ![c] = {}]
        /\ job' = [job EXCEPT ![p].at = "drop", ![p].todo = groups[c]]
  /\ UNCHANGED <<connections, idle, index, sets, stripe, online, life, candidates, expiredConns>>

addToGroup(p, c, g) == groupCall(p, c, g, "addToGroup")
removeFromGroup(p, c, g) == groupCall(p, c, g, "removeFromGroup")
removeFromAllGroups(p, c) == groupCall(p, c, None, "removeFromAllGroups")
-----------------------------------------------------------------------------
(***************************************************************************)
(* The heartbeat: closeExpiredIdleConnections and expired.                 *)
(***************************************************************************)

\* Time passes for a connection that sends nothing.  The deadline of a scan is
\* fixed when it starts, so nothing becomes idle for a scan that is under way.
becomeIdle(c) ==
  /\ HeartbeatEnabled /\ At(Heartbeat, "idle")
  /\ c \in connections /\ ~idle[c]
  /\ idle' = [idle EXCEPT ![c] = TRUE]
  /\ UNCHANGED <<connections, groups, entryMu, index, sets, stripe, online, life, job,
                 candidates, expiredConns>>

expired ==
  /\ HeartbeatEnabled /\ At(Heartbeat, "idle")
  /\ candidates' = {c \in connections : idle[c]}
  /\ candidates' # {}
  /\ job' = [job EXCEPT ![Heartbeat].at = "nextExpired"]
  /\ UNCHANGED <<connections, groups, idle, entryMu, index, sets, stripe, online, life, expiredConns>>

StillExpired(c) == c \in connections /\ idle[c]

\* One candidate, looked at again under entry.mu.
expireOne(c) ==
  /\ At(Heartbeat, "nextExpired") /\ c \in candidates /\ entryMu[c] = None
  /\ candidates' = candidates \ {c}
  /\ \/ /\ StillExpired(c)
        /\ entryMu' = [entryMu EXCEPT ![c] = Heartbeat]
        /\ connections' = connections \ {c}
        /\ expiredConns' = expiredConns \cup {c}
        /\ job' = [job EXCEPT ![Heartbeat] =
             [NoJob EXCEPT !.op = "expire", !.on = c, !.at = "drop", !.todo = KeysOf(c)]]
     \/ /\ ~StillExpired(c)
        /\ UNCHANGED <<entryMu, connections, expiredConns, job>>
  /\ UNCHANGED <<groups, idle, index, sets, stripe, online, life>>

closeExpiredIdleConnections ==
  /\ At(Heartbeat, "nextExpired") /\ candidates = {}
  /\ online' = online - Cardinality(expiredConns)
  /\ expiredConns' = {}
  /\ job' = [job EXCEPT ![Heartbeat] = NoJob]
  /\ UNCHANGED <<connections, groups, idle, entryMu, index, sets, stripe, life, candidates>>

HeartbeatStep == (\E c \in Conns : expireOne(c)) \/ closeExpiredIdleConnections
-----------------------------------------------------------------------------
Next ==
  \/ \E p \in Procs : IndexStep(p)
  \/ \E c \in Conns : ServeStep(c) \/ touch(c) \/ becomeIdle(c)
  \/ \E p \in Callers : groupLocked(p)
  \/ \E p \in Callers, c \in Conns, g \in Groups : addToGroup(p, c, g) \/ removeFromGroup(p, c, g)
  \/ \E p \in Callers, c \in Conns : removeFromAllGroups(p, c)
  \/ expired \/ HeartbeatStep

Spec == Init /\ [][Next]_vars
-----------------------------------------------------------------------------
(***************************************************************************)
(* Properties.                                                             *)
(***************************************************************************)

Quiescent == \A p \in Procs : At(p, "idle")

Steps == {"idle", "setFor", "setForLocked", "setInto", "drop", "dropDelete", "dropLen",
          "dropLocked", "dropIndex", "unlock", "recheck", "count", "lock", "nextExpired"}
Ops == {"none", "add", "remove", "expire", "addToGroup", "removeFromGroup", "removeFromAllGroups"}
Jobs == [at : Steps, op : Ops, on : Conns \cup {None}, key : Keys \cup {None},
         ref : SetIds \cup {None}, todo : SUBSET Keys]

\* Every variable has its type, and no call dereferences a nil set: the pointer at
\* hand is set wherever the code reads or writes through it.
TypeOK ==
  /\ connections \subseteq Conns
  /\ groups \in [Conns -> SUBSET Groups]
  /\ idle \in [Conns -> BOOLEAN]
  /\ entryMu \in [Conns -> Procs \cup {None}]
  /\ index \in [Keys -> SetIds \cup {None}]
  /\ sets \in [SetIds -> SUBSET Conns]
  /\ stripe \in [Keys -> Procs \cup {None}]
  /\ online \in Int
  /\ life \in [Conns -> {"new", "serving", "gone"}]
  /\ job \in [Procs -> Jobs]
  /\ \A p \in Procs : job[p].at \in {"setInto", "dropDelete", "dropLen"} => job[p].ref # None
  /\ candidates \subseteq Conns /\ expiredConns \subseteq Conns

\* The registered connections of a user.
Registered(u) == {c \in connections : UserOf[c] = u}

\* No user's set names a connection that has left the registry, except inside the
\* call that is adding it or taking it out: SendUsers never picks a dead connection
\* once remove, expired or the end of add have released entry.mu.
UserSetsRegistered ==
  \A u \in Users : \A c \in Members(u) :
    entryMu[c] = None /\ job[c].op # "add" => c \in connections

\* A group's set names only connections that joined it: whatever AddToGroup,
\* RemoveFromGroup, RemoveFromAllGroups, remove and expired do at the same time,
\* entry.groups covers the index whenever nobody holds entry.mu.
MembersJoined ==
  \A g \in Groups : \A c \in Members(g) : entryMu[c] = None => g \in groups[c]

\* No index key is leaked: when no call is in progress, every set in the index has
\* a member (an abandoned empty set would stay for ever).
NoEmptySets == Quiescent => \A k \in Keys : index[k] # None => sets[index[k]] # {}

\* Online counts the registered connections when no call is in progress.
OnlineCountsActive == Quiescent => online = Cardinality(connections)

\* UserOnline counts the registered connections of the user when no call is in
\* progress.
UserOnlineCountsActive ==
  Quiescent => \A u \in Users : userOnline(u) = Cardinality(Registered(u))

\* GroupConnections returns only registered connections when no call is in progress.
GroupConnectionsActive == Quiescent => \A g \in Groups : Members(g) \subseteq connections

\* The call p is in waits for a lock: entry.mu of its connection, or a stripe.
Blocked(p) ==
  \/ job[p].at \in {"lock", "recheck"} /\ entryMu[job[p].on] # None
  \/ job[p].at \in {"setForLocked", "dropLocked"} /\ stripe[job[p].key] # None
  \/ At(p, "nextExpired") /\ candidates # {} /\ \A c \in candidates : entryMu[c] # None

\* While any registry call is in progress one of them can go on: entry.mu and the stripe
\* locks of both indexes, nested by add, remove, expired and the group operations, are
\* released on every path and never waited for in a circle.
NoDeadlock == Quiescent \/ \E p \in Procs : ~At(p, "idle") /\ ~Blocked(p)
=============================================================================
