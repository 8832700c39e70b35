--------------------------- MODULE RegistryProofs ---------------------------
(***************************************************************************)
(* What Registry guarantees for any finite sets of connections, users,     *)
(* groups and callers: no nil set is used, user sets name registered       *)
(* connections, group sets connections that joined, no emptied set stays   *)
(* in an index, and the locks never block every call.                      *)
(***************************************************************************)
EXTENDS Registry, FiniteSetTheorems, TLAPS

(***************************************************************************)
(* The inductive invariant.                                                *)
(***************************************************************************)
SetSteps == {"setFor", "setForLocked", "setInto"}
DropSteps == {"drop", "dropDelete", "dropLen", "dropLocked", "dropIndex"}
RefSteps == {"setInto", "dropDelete", "dropLen"}
GroupOps == {"addToGroup", "removeFromGroup", "removeFromAllGroups"}

\* p holds entry.mu of the connection of its call.
Holding(p) ==
  \/ job[p].at \in DropSteps \cup {"unlock"}
  \/ job[p].at \in SetSteps /\ job[p].op = "addToGroup"

\* The call p is in is one of its own, and has what its step needs.
JobInv(p) ==
  /\ job[p].at \notin {"idle", "nextExpired"} =>
       /\ job[p].on \in Conns
       /\ p \in Conns => job[p].op \in {"add", "remove"} /\ job[p].on = p
       /\ p \in Callers => job[p].op \in GroupOps
       /\ p = Heartbeat => job[p].op = "expire"
  /\ job[p].at \in {"idle", "nextExpired"} => job[p].op = "none"
  /\ job[p].at = "nextExpired" => p = Heartbeat
  /\ job[p].at \in SetSteps =>
       /\ job[p].op \in {"add", "addToGroup"}
       /\ job[p].op = "add" => job[p].key = UserOf[job[p].on] /\ job[p].key \in Users
       /\ job[p].op = "addToGroup" => job[p].key \in groups[job[p].on]
  /\ job[p].at \in DropSteps \ {"drop"} => job[p].key \in Keys
  /\ job[p].at = "recheck" => job[p].op = "add"
  /\ job[p].at = "count" => p \in Conns
  /\ job[p].at = "lock" /\ job[p].op \in {"addToGroup", "removeFromGroup"} => job[p].key \in Groups
  /\ job[p].at = "lock" => job[p].op \in GroupOps \cup {"remove"}
  /\ job[p].at \notin DropSteps => job[p].todo = {}
  /\ job[p].at \in RefSteps <=> job[p].ref # None

\* Locks are held by the calls that will release them.
EntryInv ==
  /\ \A p \in Procs : Holding(p) => entryMu[job[p].on] = p
  /\ \A c \in Conns : entryMu[c] # None => Holding(entryMu[c]) /\ job[entryMu[c]].on = c

StripeInv ==
  /\ \A p \in Procs : At(p, "dropIndex") => stripe[job[p].key] = p
  /\ \A k \in Keys : stripe[k] # None => At(stripe[k], "dropIndex") /\ job[stripe[k]].key = k

\* A set in an index belongs to one key, also for those who hold a pointer to it.
OneKey ==
  /\ \A k, l \in Keys : index[k] # None /\ index[k] = index[l] => k = l
  /\ \A p \in Procs, k \in Keys : job[p].ref # None /\ job[p].ref = index[k] => job[p].key = k

Adding(c) == job[c].op = "add" /\ job[c].at \in SetSteps \cup {"recheck"}

\* c may be in the set of k.
Entitled(k, c) == IF k \in Users THEN c \in connections \/ Adding(c) ELSE k \in groups[c]

\* p, which holds entry.mu of c, has still to take c out of the set of k.
Leaving(p, k, c) ==
  /\ Holding(p) /\ job[p].on = c
  /\ \/ k \in job[p].todo
     \/ At(p, "dropDelete") /\ job[p].key = k /\ job[p].ref = index[k]

MembersInv ==
  \A k \in Keys : \A c \in Members(k) :
    /\ k \in Users => UserOf[c] = k
    /\ Entitled(k, c) \/ \E p \in Procs : Leaving(p, k, c)

\* p is about to fill the set of k or to take it out of the index.
Tends(p, k) ==
  \/ job[p].at \in {"setInto", "dropLen"} /\ job[p].ref = index[k]
  \/ job[p].at \in {"dropLocked", "dropIndex"} /\ job[p].key = k

EmptyInv ==
  \A k \in Keys : index[k] # None /\ sets[index[k]] = {} => \E p \in Procs : Tends(p, k)

IInv == TypeOK /\ (\A p \in Procs : JobInv(p)) /\ EntryInv /\ StripeInv /\ OneKey /\ MembersInv /\ EmptyInv
-----------------------------------------------------------------------------
LEMMA Distinct ==
  /\ None \notin Procs /\ None \notin Conns /\ None \notin Keys /\ None \notin SetIds
  /\ Users \cap Groups = {} /\ Users \subseteq Keys /\ Groups \subseteq Keys /\ Keys = Users \cup Groups
  /\ Conns \subseteq Procs /\ Callers \subseteq Procs /\ Heartbeat \in Procs
  /\ Procs = Conns \cup Callers \cup {Heartbeat}
  /\ Conns \cap Callers = {} /\ Heartbeat \notin Conns \cup Callers
  /\ \A c \in Conns : UserOf[c] \in Users \cup {None}
BY RegistryConstants DEF Keys, Procs

\* connectionSetFor always finds an object for a new set: the key it is for has none, so
\* that the pointers in use are fewer than keys and goroutines.
LEMMA FreeSetExists ==
  ASSUME TypeOK, NEW k \in Keys, index[k] = None
  PROVE  FreeSets # {} /\ FreeSets \subseteq SetIds
<1> DEFINE I == {index[l] : l \in Keys}
           R == {job[p].ref : p \in Procs}
           ref == [p \in Procs |-> job[p].ref]
<1>1. IsFiniteSet(Keys) /\ IsFiniteSet(Procs)
  BY RegistryConstants, FS_Union, FS_AddElement DEF Keys, Procs
<1>2. IsFiniteSet(I) /\ Cardinality(I) <= Cardinality(Keys)
  <2>1. index \in Surjection(Keys, I)
    BY DEF TypeOK, Surjection
  <2> QED BY <1>1, <2>1, FS_Surjection
<1>3. IsFiniteSet(R) /\ Cardinality(R) <= Cardinality(Procs)
  <2>1. ref \in Surjection(Procs, R)
    BY DEF Surjection
  <2> QED BY <1>1, <2>1, FS_Surjection
<1>4. /\ IsFiniteSet(I \cup R)
      /\ Cardinality(I \cup R) = Cardinality(I) + Cardinality(R) - Cardinality(I \cap R)
      /\ Cardinality(I \cap R) \in Nat
      /\ Cardinality(I) \in Nat /\ Cardinality(R) \in Nat /\ Cardinality(SetIds) \in Nat
      /\ Cardinality(Keys) \in Nat /\ Cardinality(Procs) \in Nat
  BY <1>1, <1>2, <1>3, FS_Union, FS_Intersection, FS_CardinalityType, RegistryConstants
<1>5. SUFFICES ASSUME SetIds \subseteq I \cup R PROVE FALSE
  BY DEF FreeSets
<1>6. SetIds \cup {None} \subseteq I \cup R
  BY <1>5
<1>7. /\ IsFiniteSet(SetIds \cup {None})
      /\ Cardinality(SetIds \cup {None}) = Cardinality(SetIds) + 1
  BY RegistryConstants, FS_AddElement
<1>8. Cardinality(SetIds \cup {None}) <= Cardinality(I \cup R)
  BY <1>4, <1>6, FS_Subset
<1> QED BY <1>2, <1>3, <1>4, <1>7, <1>8, HeapSuffices
-----------------------------------------------------------------------------
(***************************************************************************)
(* How the parts of the invariant follow from what a step of goroutine p   *)
(* does to its own job and to the tables and locks.                        *)
(***************************************************************************)
Others(p) == \A q \in Procs \ {p} : job'[q] = job[q]

\* The fields of p's job after the step.
JobBecomes(p, at, op, on, key, ref, todo) ==
  /\ job'[p].at = at /\ job'[p].op = op /\ job'[p].on = on
  /\ job'[p].key = key /\ job'[p].ref = ref /\ job'[p].todo = todo
  /\ Others(p)
  /\ job' \in [Procs -> Jobs]

LEMMA JobsKept ==
  ASSUME NEW p \in Procs, Others(p), \A q \in Procs : JobInv(q), JobInv(p)',
         \A q \in Procs \ {p} : Holding(q) => groups'[job[q].on] = groups[job[q].on]
  PROVE  \A q \in Procs : JobInv(q)'
<1> SUFFICES ASSUME NEW q \in Procs \ {p} PROVE JobInv(q)'
  OBVIOUS
<1>1. JobInv(q) /\ job'[q] = job[q]
  BY DEF Others
<1>2. CASE job[q].at \in SetSteps /\ job[q].op = "addToGroup"
  BY <1>1, <1>2 DEF JobInv, Holding
<1>3. CASE ~(job[q].at \in SetSteps /\ job[q].op = "addToGroup")
  BY <1>1, <1>3 DEF JobInv
<1> QED BY <1>2, <1>3

LEMMA EntryKept ==
  ASSUME TypeOK, EntryInv, NEW p \in Procs, Others(p), UNCHANGED entryMu,
         Holding(p)' <=> Holding(p), Holding(p) => job'[p].on = job[p].on
  PROVE  EntryInv'
<1> USE Distinct DEF EntryInv
<1>1. \A q \in Procs \ {p} : (Holding(q)' <=> Holding(q)) /\ job'[q].on = job[q].on
  BY DEF Others, Holding
<1> QED BY <1>1 DEF TypeOK

LEMMA EntryTaken ==
  ASSUME TypeOK, EntryInv, NEW p \in Procs, Others(p), NEW c \in Conns, entryMu[c] = None,
         entryMu' = [entryMu EXCEPT ![c] = p], ~Holding(p), Holding(p)', job'[p].on = c
  PROVE  EntryInv'
<1> USE Distinct DEF EntryInv
<1>1. \A q \in Procs \ {p} : (Holding(q)' <=> Holding(q)) /\ job'[q].on = job[q].on
  BY DEF Others, Holding
<1>2. entryMu'[c] = p /\ \A d \in Conns \ {c} : entryMu'[d] = entryMu[d]
  BY DEF TypeOK
<1>3. ASSUME NEW q \in Procs, Holding(q)' PROVE entryMu'[job'[q].on] = q
  <2>1. CASE q = p
    BY <1>2, <2>1
  <2>2. CASE q # p
    <3>1. entryMu[job[q].on] = q /\ q # None /\ job'[q].on = job[q].on
      BY <1>1, <1>3, <2>2
    <3>2. job[q].on # c
      BY <3>1
    <3>3. entryMu'[job[q].on] = entryMu[job[q].on]
      BY <3>2
    <3> QED BY <3>1, <3>3
  <2> QED BY <2>1, <2>2
<1>4. ASSUME NEW d \in Conns, entryMu'[d] # None
      PROVE  Holding(entryMu[d])' /\ job'[entryMu'[d]].on = d
  <2>1. CASE d = c
    BY <1>2, <2>1
  <2>2. CASE d # c
    BY <1>1, <1>2, <1>4, <2>2 DEF TypeOK
  <2> QED BY <2>1, <2>2
<1> QED BY <1>3, <1>4

LEMMA EntryReleased ==
  ASSUME TypeOK, EntryInv, NEW p \in Procs, Others(p), Holding(p), job[p].on \in Conns,
         entryMu' = [entryMu EXCEPT ![job[p].on] = None], ~Holding(p)'
  PROVE  EntryInv'
<1> USE Distinct DEF EntryInv
<1>1. \A q \in Procs \ {p} : (Holding(q)' <=> Holding(q)) /\ job'[q].on = job[q].on
  BY DEF Others, Holding
<1>2. ASSUME NEW q \in Procs, Holding(q)' PROVE entryMu'[job'[q].on] = q
  <2>1. q # p /\ Holding(q) /\ job'[q].on = job[q].on
    BY <1>1, <1>2
  <2>2. entryMu[job[q].on] = q /\ entryMu[job[p].on] = p
    BY <2>1
  <2> QED BY <2>1, <2>2
<1>3. \A d \in Conns : entryMu'[d] # None => d # job[p].on /\ entryMu'[d] = entryMu[d] /\ entryMu[d] # p
  BY DEF TypeOK
<1> QED BY <1>1, <1>2, <1>3 DEF TypeOK

LEMMA StripeKept ==
  ASSUME TypeOK, StripeInv, NEW p \in Procs, Others(p), UNCHANGED stripe,
         ~At(p, "dropIndex"), ~At(p, "dropIndex")'
  PROVE  StripeInv'
BY Distinct DEF StripeInv, Others, At, TypeOK

LEMMA OneKeyKept ==
  ASSUME OneKey, NEW p \in Procs, Others(p), UNCHANGED index,
         \/ job'[p].ref = None
         \/ job'[p].ref = job[p].ref /\ job'[p].key = job[p].key
         \/ job'[p].key \in Keys /\ job'[p].ref = index[job'[p].key]
  PROVE  OneKey'
BY DEF OneKey, Others

\* The tables stay as they are, and p gives up neither what entitles a connection to be
\* in a set nor the duty to take it out.
LEMMA MembersKept ==
  ASSUME TypeOK, MembersInv, NEW p \in Procs, Others(p), UNCHANGED <<index, sets>>,
         connections \subseteq connections', UNCHANGED groups,
         p \in Conns /\ UserOf[p] \in Users /\ Adding(p) =>
           Adding(p)' \/ p \in connections' \/ Leaving(p, UserOf[p], p)',
         \A k \in Keys : \A c \in Members(k) : Leaving(p, k, c) => Leaving(p, k, c)'
  PROVE  MembersInv'
<1> SUFFICES ASSUME NEW k \in Keys, NEW c \in Members(k)
             PROVE  /\ k \in Users => UserOf[c] = k
                    /\ Entitled(k, c)' \/ \E q \in Procs : Leaving(q, k, c)'
  BY DEF MembersInv, Members
<1>1. c \in Conns /\ (k \in Users => UserOf[c] = k)
  BY Distinct DEF TypeOK, Members, MembersInv
<1>2. ASSUME NEW q \in Procs, Leaving(q, k, c) PROVE Leaving(q, k, c)'
  <2>1. CASE q = p
    BY <1>2, <2>1
  <2>2. CASE q # p
    BY <1>2, <2>2 DEF Leaving, Others, Holding, At
  <2> QED BY <2>1, <2>2
<1>3. CASE Entitled(k, c) /\ k \in Users
  <2>1. CASE c \in connections \/ c # p
    BY <1>1, <1>3, <2>1, Distinct DEF Entitled, Adding, Others
  <2>2. CASE c = p /\ Adding(p)
    BY <1>1, <1>3, <2>2 DEF Entitled
  <2> QED BY <1>3, <2>1, <2>2 DEF Entitled
<1>4. CASE Entitled(k, c) /\ k \notin Users
  BY <1>4 DEF Entitled
<1> QED BY <1>1, <1>2, <1>3, <1>4 DEF MembersInv

LEMMA EmptyKept ==
  ASSUME EmptyInv, NEW p \in Procs, Others(p), UNCHANGED <<index, sets>>,
         \A k \in Keys : index[k] # None /\ sets[index[k]] = {} /\ Tends(p, k) => Tends(p, k)'
  PROVE  EmptyInv'
<1> SUFFICES ASSUME NEW k \in Keys, index[k] # None, sets[index[k]] = {}
             PROVE  \E q \in Procs : Tends(q, k)'
  BY DEF EmptyInv
<1>1. PICK q \in Procs : Tends(q, k)
  BY DEF EmptyInv
<1>2. Tends(q, k)'
  BY <1>1 DEF Tends, Others
<1> QED BY <1>2

-----------------------------------------------------------------------------
(***************************************************************************)
(* Steps that leave the tables alone.                                      *)
(***************************************************************************)
RestOK ==
  /\ idle \in [Conns -> BOOLEAN] /\ online \in Int
  /\ life \in [Conns -> {"new", "serving", "gone"}]
  /\ candidates \subseteq Conns /\ expiredConns \subseteq Conns

LEMMA Quiet ==
  ASSUME IInv, NEW p \in Procs, Others(p), job' \in [Procs -> Jobs], JobInv(p)',
         UNCHANGED <<groups, index, sets>>, connections \subseteq connections',
         connections' \subseteq Conns, RestOK',
         entryMu' \in [Conns -> Procs \cup {None}], EntryInv',
         stripe' \in [Keys -> Procs \cup {None}], StripeInv',
         \/ job'[p].ref = None
         \/ job'[p].ref = job[p].ref /\ job'[p].key = job[p].key
         \/ job'[p].key \in Keys /\ job'[p].ref = index[job'[p].key],
         p \in Conns /\ UserOf[p] \in Users /\ Adding(p) =>
           Adding(p)' \/ p \in connections' \/ Leaving(p, UserOf[p], p)',
         \A k \in Keys : \A c \in Members(k) : Leaving(p, k, c) => Leaving(p, k, c)',
         \A k \in Keys : index[k] # None /\ sets[index[k]] = {} /\ Tends(p, k) => Tends(p, k)'
  PROVE  IInv'
<1>1. \A q \in Procs : JobInv(q)'
  BY JobsKept DEF IInv
<1>2. TypeOK'
  BY <1>1 DEF IInv, TypeOK, RestOK, JobInv, RefSteps
<1>3. OneKey'
  BY OneKeyKept DEF IInv
<1>4. MembersInv'
  BY MembersKept DEF IInv
<1>5. EmptyInv'
  BY EmptyKept DEF IInv
<1> QED BY <1>1, <1>2, <1>3, <1>4, <1>5 DEF IInv

LEMMA Untouched ==
  ASSUME IInv, RestOK', UNCHANGED <<connections, groups, index, sets, entryMu, stripe, job>>
  PROVE  IInv'
<1>1. TypeOK'
  BY DEF IInv, TypeOK, RestOK
<1>2. (\A p \in Procs : JobInv(p)') /\ EntryInv' /\ StripeInv'
  BY DEF IInv, JobInv, EntryInv, Holding, StripeInv, At
<1>3. OneKey' /\ EmptyInv'
  BY DEF IInv, OneKey, EmptyInv, Tends
<1>4. MembersInv'
  BY DEF IInv, MembersInv, Members, Entitled, Adding, Leaving, Holding, At
<1> QED BY <1>1, <1>2, <1>3, <1>4 DEF IInv

LEMMA ConnectionSetForKeeps ==
  ASSUME IInv, NEW p \in Procs, connectionSetFor(p)
  PROVE  IInv'
<1> DEFINE k == job[p].key
<1>1. TypeOK /\ JobInv(p) /\ EntryInv /\ StripeInv /\ job[p] \in Jobs
  BY DEF IInv, TypeOK
<1>2. /\ k \in Keys /\ index[k] \in SetIds \cup {None}
      /\ JobBecomes(p, IF index[k] = None THEN "setForLocked" ELSE "setInto",
                    job[p].op, job[p].on, k, index[k], job[p].todo)
  BY <1>1, Distinct DEF connectionSetFor, At, TypeOK, JobInv, SetSteps, JobBecomes, Others, Jobs, Steps
<1>3. RestOK' /\ UNCHANGED <<connections, groups, index, sets, entryMu, stripe>>
  BY <1>1 DEF connectionSetFor, TypeOK, RestOK
<1>4. JobInv(p)'
  BY <1>1, <1>2, <1>3, Distinct
     DEF connectionSetFor, At, JobInv, JobBecomes, SetSteps, DropSteps, RefSteps
<1>5. EntryInv'
  BY <1>1, <1>2, <1>3, EntryKept
     DEF connectionSetFor, At, JobBecomes, Holding, SetSteps, DropSteps
<1>6. StripeInv'
  BY <1>1, <1>2, <1>3, StripeKept DEF connectionSetFor, At, JobBecomes
<1>7. Adding(p) => Adding(p)'
  BY <1>2 DEF Adding, JobBecomes, SetSteps
<1>8. \A l \in Keys : \A c \in Members(l) : ~Leaving(p, l, c)
  BY <1>1 DEF connectionSetFor, At, Leaving, JobInv, SetSteps, DropSteps
<1>9. \A l \in Keys : ~Tends(p, l)
  BY DEF connectionSetFor, At, Tends
<1> QED BY <1>1, <1>2, <1>3, <1>4, <1>5, <1>6, <1>7, <1>8, <1>9, Quiet DEF JobBecomes, TypeOK

LEMMA RemoveConnectionFromIndexKeeps ==
  ASSUME IInv, NEW p \in Procs, removeConnectionFromIndex(p)
  PROVE  IInv'
<1>1. TypeOK /\ JobInv(p) /\ EntryInv /\ StripeInv /\ job[p] \in Jobs /\ job[p].at = "drop"
  BY DEF IInv, TypeOK, removeConnectionFromIndex, At
<1>2. RestOK' /\ UNCHANGED <<connections, groups, index, sets, entryMu, stripe>>
  BY <1>1 DEF removeConnectionFromIndex, TypeOK, RestOK
<1>3. ~Adding(p) /\ \A l \in Keys : ~Tends(p, l)
  BY <1>1 DEF Adding, Tends, SetSteps
<1>4. CASE job[p].todo = {} /\ job' = [job EXCEPT ![p].at = "unlock", ![p].key = None]
  <2>1. JobBecomes(p, "unlock", job[p].op, job[p].on, None, job[p].ref, {})
    BY <1>1, <1>4 DEF TypeOK, JobBecomes, Others, Jobs, Steps
  <2>2. JobInv(p)' /\ job'[p].ref = None
    BY <1>1, <1>2, <2>1 DEF JobInv, JobBecomes, SetSteps, DropSteps, RefSteps
  <2>3. EntryInv' /\ StripeInv'
    BY <1>1, <1>2, <2>1, EntryKept, StripeKept DEF At, JobBecomes, Holding, SetSteps, DropSteps
  <2>4. \A l \in Keys : \A c \in Members(l) : ~Leaving(p, l, c)
    BY <1>1, <1>4 DEF At, Leaving
  <2> QED BY <1>1, <1>2, <1>3, <2>1, <2>2, <2>3, <2>4, Quiet DEF JobBecomes, TypeOK
<1>5. ASSUME NEW k \in job[p].todo,
             job' = [job EXCEPT ![p].todo = @ \ {k}, ![p].key = k, ![p].ref = index[k],
                                ![p].at = IF index[k] = None THEN "drop" ELSE "dropDelete"]
      PROVE  IInv'
  <2>1. /\ k \in Keys /\ index[k] \in SetIds \cup {None}
        /\ JobBecomes(p, IF index[k] = None THEN "drop" ELSE "dropDelete", job[p].op,
                      job[p].on, k, index[k], job[p].todo \ {k})
    <3>1. k \in Keys /\ index[k] \in SetIds \cup {None} /\ job[p].todo \ {k} \in SUBSET Keys
      BY <1>1 DEF TypeOK, Jobs
    <3> QED BY <1>1, <1>5, <3>1 DEF TypeOK, JobBecomes, Others, Jobs, Steps
  <2>2. JobInv(p)'
    BY <1>1, <1>2, <2>1, Distinct DEF JobInv, JobBecomes, SetSteps, DropSteps, RefSteps
  <2>3. EntryInv' /\ StripeInv'
    BY <1>1, <1>2, <2>1, EntryKept, StripeKept DEF At, JobBecomes, Holding, SetSteps, DropSteps
  <2>4. ASSUME NEW l \in Keys, NEW c \in Members(l), Leaving(p, l, c) PROVE Leaving(p, l, c)'
    <3>1. job[p].on = c /\ l \in job[p].todo /\ index[l] # None
      BY <1>1, <2>4 DEF Leaving, At, Members
    <3> QED BY <1>1, <1>2, <2>1, <3>1 DEF JobBecomes, Leaving, Holding, At, DropSteps
  <2> QED BY <1>1, <1>2, <1>3, <2>1, <2>2, <2>3, <2>4, Quiet DEF JobBecomes, TypeOK
<1> QED BY <1>4, <1>5 DEF removeConnectionFromIndex

LEMMA DropLenKeeps ==
  ASSUME IInv, NEW p \in Procs, dropLen(p)
  PROVE  IInv'
<1>1. TypeOK /\ JobInv(p) /\ EntryInv /\ StripeInv /\ job[p] \in Jobs /\ job[p].at = "dropLen"
  BY DEF IInv, TypeOK, dropLen, At
<1>2. RestOK' /\ UNCHANGED <<connections, groups, index, sets, entryMu, stripe>>
  BY <1>1 DEF dropLen, TypeOK, RestOK
<1>3. JobBecomes(p, IF sets[job[p].ref] = {} THEN "dropLocked" ELSE "drop", job[p].op,
                 job[p].on, job[p].key, None, job[p].todo)
  BY <1>1 DEF dropLen, TypeOK, JobBecomes, Others, Jobs, Steps
<1>4. JobInv(p)' /\ ~Adding(p)
  BY <1>1, <1>2, <1>3, Distinct DEF JobInv, JobBecomes, SetSteps, DropSteps, RefSteps, Adding
<1>5. EntryInv' /\ StripeInv'
  BY <1>1, <1>2, <1>3, EntryKept, StripeKept DEF At, JobBecomes, Holding, SetSteps, DropSteps
<1>6. \A l \in Keys : \A c \in Members(l) : Leaving(p, l, c) => Leaving(p, l, c)'
  BY <1>1, <1>3 DEF JobBecomes, Leaving, Holding, At, DropSteps
<1>7. ASSUME NEW l \in Keys, index[l] # None, sets[index[l]] = {}, Tends(p, l) PROVE Tends(p, l)'
  <2>1. job[p].ref = index[l] /\ job[p].key = l
    BY <1>1, <1>7 DEF Tends, IInv, OneKey
  <2> QED BY <1>3, <1>7, <2>1 DEF JobBecomes, Tends
<1> QED BY <1>1, <1>2, <1>3, <1>4, <1>5, <1>6, <1>7, Quiet DEF JobBecomes, TypeOK

LEMMA DropLockedKeeps ==
  ASSUME IInv, NEW p \in Procs, dropLocked(p)
  PROVE  IInv'
<1> DEFINE k == job[p].key
<1>1. TypeOK /\ JobInv(p) /\ EntryInv /\ StripeInv /\ job[p] \in Jobs /\ job[p].at = "dropLocked"
  BY DEF IInv, TypeOK, dropLocked, At
<1>2. RestOK' /\ UNCHANGED <<connections, groups, index, sets, entryMu>>
  BY <1>1 DEF dropLocked, TypeOK, RestOK
<1>3. ~Adding(p) /\ k \in Keys /\ stripe[k] = None /\ job[p].ref = None
  BY <1>1 DEF dropLocked, Adding, SetSteps, JobInv, DropSteps, RefSteps
<1>4. CASE stripe' = [stripe EXCEPT ![k] = p] /\ job' = [job EXCEPT ![p].at = "dropIndex"]
  <2>1. JobBecomes(p, "dropIndex", job[p].op, job[p].on, k, job[p].ref, job[p].todo)
    BY <1>1, <1>4 DEF TypeOK, JobBecomes, Others, Jobs, Steps
  <2>2. JobInv(p)'
    BY <1>1, <1>2, <2>1, <1>3, Distinct DEF JobInv, JobBecomes, SetSteps, DropSteps, RefSteps
  <2>3. EntryInv'
    BY <1>1, <1>2, <2>1, EntryKept DEF JobBecomes, Holding, SetSteps, DropSteps
  <2>4. stripe' \in [Keys -> Procs \cup {None}] /\ stripe'[k] = p
        /\ \A l \in Keys \ {k} : stripe'[l] = stripe[l]
    BY <1>1, <1>3, <1>4 DEF TypeOK
  <2>5. StripeInv'
    <3>1. ASSUME NEW q \in Procs, At(q, "dropIndex")' PROVE stripe'[job'[q].key] = q
      <4>1. CASE q = p
        BY <2>1, <2>4, <4>1 DEF JobBecomes
      <4>2. CASE q # p
        <5>1. job'[q] = job[q] /\ job[q].at = "dropIndex" /\ JobInv(q)
          BY <2>1, <3>1, <4>2 DEF JobBecomes, Others, At, IInv
        <5>2. job[q].key \in Keys /\ stripe[job[q].key] = q /\ q # None
          BY <1>1, <5>1, Distinct DEF JobInv, DropSteps, StripeInv, At
        <5> QED BY <1>3, <2>4, <5>1, <5>2
      <4> QED BY <4>1, <4>2
    <3>2. ASSUME NEW l \in Keys, stripe'[l] # None
          PROVE  At(stripe[l], "dropIndex")' /\ job'[stripe'[l]].key = l
      <4>1. CASE l = k
        BY <2>1, <2>4, <4>1 DEF JobBecomes, At
      <4>2. CASE l # k
        <5>1. stripe[l] \in Procs /\ stripe'[l] = stripe[l] /\ job[stripe[l]].at = "dropIndex"
              /\ job[stripe[l]].key = l
          BY <1>1, <2>4, <3>2, <4>2 DEF StripeInv, TypeOK, At
        <5>2. stripe[l] # p
          BY <1>1, <5>1
        <5> QED BY <2>1, <5>1, <5>2 DEF JobBecomes, Others, At
      <4> QED BY <4>1, <4>2
    <3> QED BY <3>1, <3>2 DEF StripeInv
  <2>6. \A l \in Keys : \A c \in Members(l) : Leaving(p, l, c) => Leaving(p, l, c)'
    BY <1>1, <2>1 DEF JobBecomes, Leaving, Holding, At, DropSteps
  <2>7. \A l \in Keys : Tends(p, l) => Tends(p, l)'
    BY <1>1, <2>1 DEF JobBecomes, Tends
  <2> QED BY <1>1, <1>2, <1>3, <2>1, <2>2, <2>3, <2>4, <2>5, <2>6, <2>7, Quiet DEF JobBecomes, TypeOK
<1>5. CASE ~StillEmpty(k) /\ job' = [job EXCEPT ![p].at = "drop"] /\ UNCHANGED stripe
  <2>1. JobBecomes(p, "drop", job[p].op, job[p].on, k, job[p].ref, job[p].todo)
    BY <1>1, <1>5 DEF TypeOK, JobBecomes, Others, Jobs, Steps
  <2>2. JobInv(p)'
    BY <1>1, <1>2, <2>1, <1>3, Distinct DEF JobInv, JobBecomes, SetSteps, DropSteps, RefSteps
  <2>3. EntryInv' /\ StripeInv'
    BY <1>1, <1>2, <1>5, <2>1, EntryKept, StripeKept DEF At, JobBecomes, Holding, SetSteps, DropSteps
  <2>4. \A l \in Keys : \A c \in Members(l) : Leaving(p, l, c) => Leaving(p, l, c)'
    BY <1>1, <2>1 DEF JobBecomes, Leaving, Holding, At, DropSteps
  <2>5. \A l \in Keys : index[l] # None /\ sets[index[l]] = {} => ~Tends(p, l)
    BY <1>1, <1>5 DEF Tends, StillEmpty
  <2> QED BY <1>1, <1>2, <1>3, <1>5, <2>1, <2>2, <2>3, <2>4, <2>5, Quiet DEF JobBecomes, TypeOK
<1> QED BY <1>4, <1>5 DEF dropLocked

LEMMA EntryUnlockKeeps ==
  ASSUME IInv, NEW p \in Procs, entryUnlock(p)
  PROVE  IInv'
<1>1. TypeOK /\ JobInv(p) /\ EntryInv /\ StripeInv /\ job[p] \in Jobs /\ job[p].at = "unlock"
  BY DEF IInv, TypeOK, entryUnlock, At
<1>2. RestOK' /\ UNCHANGED <<connections, groups, index, sets, stripe>>
  BY <1>1 DEF entryUnlock, TypeOK, RestOK
<1>3. job[p].on \in Conns /\ job[p].todo = {} /\ job[p].ref = None
  BY <1>1 DEF JobInv, DropSteps, RefSteps
<1>4. /\ Others(p) /\ job' \in [Procs -> Jobs]
      /\ job'[p].todo = {} /\ job'[p].ref = None
      /\ \/ job[p].op \in {"add", "remove"} /\ job'[p].at = "count"
            /\ job'[p].op = job[p].op /\ job'[p].on = job[p].on
         \/ job[p].op = "expire" /\ job'[p].at = "nextExpired" /\ job'[p].op = "none"
         \/ job[p].op \notin {"add", "remove", "expire"} /\ job'[p].at = "idle" /\ job'[p].op = "none"
  BY <1>1, <1>3 DEF entryUnlock, TypeOK, Others, NoJob, Jobs, Steps, Ops
<1>5. JobInv(p)' /\ ~Adding(p)
  BY <1>1, <1>3, <1>4, Distinct
     DEF JobInv, SetSteps, DropSteps, RefSteps, Adding, GroupOps
<1>6. EntryInv' /\ entryMu' \in [Conns -> Procs \cup {None}]
  BY <1>1, <1>3, <1>4, EntryReleased DEF entryUnlock, Holding, SetSteps, DropSteps, TypeOK
<1>7. StripeInv'
  BY <1>1, <1>2, <1>4, StripeKept DEF At
<1>8. \A l \in Keys : (\A c \in Members(l) : ~Leaving(p, l, c)) /\ ~Tends(p, l)
  BY <1>1, <1>3 DEF Leaving, Tends, At
<1> QED BY <1>1, <1>2, <1>4, <1>5, <1>6, <1>7, <1>8, Quiet DEF TypeOK

\* A goroutine between two calls holds nothing and owes nothing.
LEMMA IdleOwesNothing ==
  ASSUME IInv, NEW p \in Procs, job[p].at \in {"idle", "nextExpired", "count", "lock"}
  PROVE  /\ ~Holding(p) /\ ~Adding(p) /\ ~At(p, "dropIndex") /\ job[p].ref = None /\ job[p].todo = {}
         /\ \A l \in Keys : ~Tends(p, l) /\ \A c \in Conns : ~Leaving(p, l, c)
BY DEF IInv, JobInv, Holding, Adding, At, Tends, Leaving, SetSteps, DropSteps, RefSteps

\* A step from such a state to another one in which p holds nothing.
LEMMA IdleStep ==
  ASSUME IInv, NEW p \in Procs, job[p].at \in {"idle", "nextExpired", "count", "lock"},
         Others(p), job' \in [Procs -> Jobs], JobInv(p)', job'[p].ref = None,
         job'[p].at \in {"idle", "nextExpired", "count", "lock", "setFor", "recheck"},
         job'[p].op = "addToGroup" => job'[p].at = "lock",
         UNCHANGED <<groups, index, sets, entryMu, stripe>>,
         connections \subseteq connections', connections' \subseteq Conns, RestOK'
  PROVE  IInv'
<1>1. TypeOK /\ EntryInv /\ StripeInv
  BY DEF IInv
<1>2. EntryInv'
  <2>1. ~Holding(p)'
    BY DEF Holding, DropSteps, SetSteps
  <2> QED BY <1>1, <2>1, IdleOwesNothing, EntryKept
<1>3. StripeInv'
  BY <1>1, IdleOwesNothing, StripeKept DEF At
<1>4. \A l \in Keys : \A c \in Members(l) : ~Leaving(p, l, c)
  BY <1>1, IdleOwesNothing, Distinct DEF TypeOK, Members
<1>5. /\ entryMu' \in [Conns -> Procs \cup {None}]
      /\ stripe' \in [Keys -> Procs \cup {None}]
  BY <1>1 DEF TypeOK
<1> QED BY <1>2, <1>3, <1>4, <1>5, IdleOwesNothing, Quiet

LEMMA AddKeeps ==
  ASSUME IInv, NEW c \in Conns, add(c)
  PROVE  IInv'
<1>1. TypeOK /\ c \in Procs /\ UserOf[c] \in Users \cup {None}
  BY Distinct DEF IInv
<1>2. JobBecomes(c, IF UserOf[c] = None THEN "recheck" ELSE "setFor", "add", c, UserOf[c], None, {})
  BY <1>1, Distinct DEF add, TypeOK, JobBecomes, Others, NoJob, Jobs, Steps, Ops
<1>3. JobInv(c)'
  BY <1>1, <1>2, Distinct DEF JobBecomes, JobInv, SetSteps, DropSteps, RefSteps
<1>4. /\ UNCHANGED <<groups, index, sets, entryMu, stripe>> /\ RestOK'
      /\ connections \subseteq connections' /\ connections' \subseteq Conns
  BY <1>1 DEF add, TypeOK, RestOK
<1> QED BY <1>1, <1>2, <1>3, <1>4, IdleStep DEF add, At, JobBecomes

LEMMA AddRecheckKeeps ==
  ASSUME IInv, NEW c \in Conns, addRecheck(c)
  PROVE  IInv'
<1>1. /\ TypeOK /\ EntryInv /\ StripeInv /\ JobInv(c) /\ job[c] \in Jobs
      /\ c \in Procs /\ UserOf[c] \in Users \cup {None}
      /\ job[c].at = "recheck" /\ entryMu[c] = None
  BY Distinct DEF IInv, addRecheck, At, TypeOK
<1>2. /\ job[c].on = c /\ job[c].op = "add" /\ job[c].ref = None /\ job[c].todo = {}
      /\ ~Holding(c)
  BY <1>1 DEF JobInv, DropSteps, RefSteps, Holding, SetSteps
<1>3. RestOK' /\ UNCHANGED <<connections, groups, index, sets, stripe>> /\ connections \subseteq Conns
  BY <1>1 DEF addRecheck, TypeOK, RestOK
<1>4. \A l \in Keys : ~Tends(c, l) /\ \A d \in Members(l) : ~Leaving(c, l, d)
  BY <1>1, <1>2 DEF Tends, Leaving
<1>5. CASE StillRegistered(c) /\ job' = [job EXCEPT ![c].at = "count"] /\ UNCHANGED entryMu
  <2>1. JobBecomes(c, "count", "add", c, job[c].key, None, {})
    BY <1>1, <1>2, <1>5 DEF TypeOK, JobBecomes, Others, Jobs, Steps
  <2>2. JobInv(c)'
    BY <1>1, <2>1, Distinct DEF JobBecomes, JobInv, SetSteps, DropSteps, RefSteps
  <2>3. EntryInv' /\ StripeInv'
    BY <1>1, <1>2, <1>3, <1>5, <2>1, EntryKept, StripeKept
       DEF At, JobBecomes, Holding, SetSteps, DropSteps
  <2> QED BY <1>1, <1>2, <1>3, <1>4, <1>5, <2>1, <2>2, <2>3, Quiet DEF JobBecomes, TypeOK, StillRegistered
<1>6. CASE /\ entryMu' = [entryMu EXCEPT ![c] = c]
           /\ job' = [job EXCEPT ![c].at = "drop", ![c].todo = UserKeys(c)]
  <2>1. UserKeys(c) \in SUBSET Keys
    BY <1>1, Distinct DEF UserKeys
  <2>2. JobBecomes(c, "drop", "add", c, job[c].key, None, UserKeys(c))
    BY <1>1, <1>2, <1>6, <2>1 DEF TypeOK, JobBecomes, Others, Jobs, Steps
  <2>3. JobInv(c)'
    BY <1>1, <2>2, Distinct DEF JobBecomes, JobInv, SetSteps, DropSteps, RefSteps
  <2>4. Holding(c)' /\ EntryInv' /\ entryMu' \in [Conns -> Procs \cup {None}]
    BY <1>1, <1>2, <1>6, <2>2, EntryTaken DEF JobBecomes, Holding, DropSteps, TypeOK
  <2>5. StripeInv' /\ stripe' \in [Keys -> Procs \cup {None}]
    BY <1>1, <1>3, <2>2, StripeKept DEF At, JobBecomes, TypeOK
  <2>6. UserOf[c] \in Users => Leaving(c, UserOf[c], c)'
    BY <2>2, <2>4, Distinct DEF JobBecomes, Leaving, UserKeys
  <2> QED BY <1>1, <1>3, <1>4, <2>2, <2>3, <2>4, <2>5, <2>6, Quiet DEF JobBecomes
<1> QED BY <1>5, <1>6 DEF addRecheck

LEMMA RemoveKeeps ==
  ASSUME IInv, NEW c \in Conns, remove(c)
  PROVE  IInv'
<1>1. TypeOK /\ c \in Procs
  BY Distinct DEF IInv
<1>2. /\ UNCHANGED <<groups, index, sets, entryMu, stripe, connections>> /\ RestOK'
      /\ connections \subseteq Conns
  BY <1>1 DEF remove, TypeOK, RestOK
<1>3. CASE UNCHANGED job
  BY <1>2, <1>3, Untouched
<1>4. CASE job' = [job EXCEPT ![c] = [NoJob EXCEPT !.op = "remove", !.on = c, !.at = "lock"]]
  <2>1. JobBecomes(c, "lock", "remove", c, None, None, {})
    BY <1>1, <1>4 DEF TypeOK, JobBecomes, Others, NoJob, Jobs, Steps, Ops
  <2>2. JobInv(c)'
    BY <1>1, <2>1, Distinct DEF JobBecomes, JobInv, SetSteps, DropSteps, RefSteps, GroupOps
  <2> QED BY <1>1, <1>2, <2>1, <2>2, IdleStep DEF remove, At, JobBecomes
<1> QED BY <1>3, <1>4 DEF remove

LEMMA CountOnlineKeeps ==
  ASSUME IInv, NEW c \in Conns, countOnline(c)
  PROVE  IInv'
<1>1. TypeOK /\ c \in Procs
  BY Distinct DEF IInv
<1>2. /\ UNCHANGED <<groups, index, sets, entryMu, stripe, connections>> /\ RestOK'
      /\ connections \subseteq Conns
  BY <1>1 DEF countOnline, TypeOK, RestOK
<1>3. JobBecomes(c, "idle", "none", None, None, None, {})
  BY <1>1 DEF countOnline, TypeOK, JobBecomes, Others, NoJob, Jobs, Steps, Ops
<1>4. JobInv(c)'
  BY <1>3 DEF JobBecomes, JobInv, SetSteps, DropSteps, RefSteps
<1> QED BY <1>1, <1>2, <1>3, <1>4, IdleStep DEF countOnline, At, JobBecomes

LEMMA GroupCallKeeps ==
  ASSUME IInv, NEW p \in Callers, NEW c \in Conns, NEW g \in Groups \cup {None}, NEW op \in GroupOps,
         op # "removeFromAllGroups" => g \in Groups, groupCall(p, c, g, op)
  PROVE  IInv'
<1>1. TypeOK /\ p \in Procs /\ g \in Keys \cup {None} /\ p \notin Conns /\ p # Heartbeat
  BY Distinct DEF IInv
<1>2. /\ UNCHANGED <<groups, index, sets, entryMu, stripe, connections>> /\ RestOK'
      /\ connections \subseteq Conns
  BY <1>1 DEF groupCall, TypeOK, RestOK
<1>3. JobBecomes(p, "lock", op, c, g, None, {})
  BY <1>1 DEF groupCall, TypeOK, JobBecomes, Others, NoJob, Jobs, Steps, Ops, GroupOps
<1>4. JobInv(p)'
  BY <1>1, <1>3 DEF JobBecomes, JobInv, SetSteps, DropSteps, RefSteps, GroupOps
<1> QED BY <1>1, <1>2, <1>3, <1>4, IdleStep DEF groupCall, At, JobBecomes

LEMMA ExpiredKeeps ==
  ASSUME IInv, expired
  PROVE  IInv'
<1>1. TypeOK /\ Heartbeat \in Procs /\ JobInv(Heartbeat) /\ job[Heartbeat] \in Jobs /\ job[Heartbeat].at = "idle"
  BY Distinct DEF IInv, TypeOK, expired, At
<1>2. /\ UNCHANGED <<groups, index, sets, entryMu, stripe, connections>> /\ RestOK'
      /\ connections \subseteq Conns
  BY <1>1 DEF expired, TypeOK, RestOK
<1>3. JobBecomes(Heartbeat, "nextExpired", "none", job[Heartbeat].on, job[Heartbeat].key, None, {})
  BY <1>1 DEF expired, TypeOK, JobBecomes, Others, Jobs, Steps, JobInv, DropSteps, RefSteps
<1>4. JobInv(Heartbeat)'
  BY <1>1, <1>3 DEF JobBecomes, JobInv, SetSteps, DropSteps, RefSteps
<1> QED BY <1>1, <1>2, <1>3, <1>4, IdleStep DEF JobBecomes

LEMMA CloseExpiredKeeps ==
  ASSUME IInv, closeExpiredIdleConnections
  PROVE  IInv'
<1>1. TypeOK /\ Heartbeat \in Procs /\ job[Heartbeat].at = "nextExpired"
  BY Distinct DEF IInv, closeExpiredIdleConnections, At
<1>2. Cardinality(expiredConns) \in Nat
  BY <1>1, RegistryConstants, FS_Subset, FS_CardinalityType DEF TypeOK
<1>3. /\ UNCHANGED <<groups, index, sets, entryMu, stripe, connections>> /\ RestOK'
      /\ connections \subseteq Conns
  BY <1>1, <1>2 DEF closeExpiredIdleConnections, TypeOK, RestOK
<1>4. JobBecomes(Heartbeat, "idle", "none", None, None, None, {})
  BY <1>1 DEF closeExpiredIdleConnections, TypeOK, JobBecomes, Others, NoJob, Jobs, Steps, Ops
<1>5. JobInv(Heartbeat)'
  BY <1>4 DEF JobBecomes, JobInv, SetSteps, DropSteps, RefSteps
<1> QED BY <1>1, <1>3, <1>4, <1>5, IdleStep DEF JobBecomes

LEMMA TouchKeeps ==
  ASSUME IInv, NEW c \in Conns, touch(c) \/ becomeIdle(c)
  PROVE  IInv'
BY Untouched DEF IInv, TypeOK, RestOK, touch, becomeIdle

-----------------------------------------------------------------------------
(***************************************************************************)
(* Steps on the indexes and the sets.                                      *)
(***************************************************************************)

\* connectionSetFor under the stripe lock: p finds a set meanwhile made for its key, or puts
\* a new one in the index, and is about to use it.
LEMMA ConnectionSetForLockedKeeps ==
  ASSUME IInv, NEW p \in Procs, connectionSetForLocked(p)
  PROVE  IInv'
<1> DEFINE k == job[p].key
<1>1. /\ TypeOK /\ JobInv(p) /\ EntryInv /\ StripeInv /\ OneKey /\ MembersInv /\ EmptyInv
      /\ job[p] \in Jobs /\ job[p].at = "setForLocked"
  BY DEF IInv, TypeOK, connectionSetForLocked, At
<1>2. k \in Keys /\ job[p].todo = {} /\ job[p].ref = None
  BY <1>1, Distinct DEF JobInv, SetSteps, DropSteps, RefSteps, TypeOK
<1>3. RestOK' /\ UNCHANGED <<connections, groups, entryMu, stripe>>
  BY <1>1 DEF connectionSetForLocked, TypeOK, RestOK
<1>4. \A l \in Keys : ~Tends(p, l) /\ \A c \in Conns : ~Leaving(p, l, c)
  BY <1>1, <1>2 DEF Leaving, Tends, At
<1>5. ASSUME NEW s \in SetIds,
             JobBecomes(p, "setInto", job[p].op, job[p].on, k, s, {})
      PROVE  JobInv(p)' /\ EntryInv' /\ StripeInv' /\ (Adding(p) => Adding(p)')
  <2>1. JobInv(p)'
    BY <1>1, <1>2, <1>3, <1>5, Distinct DEF JobBecomes, JobInv, SetSteps, DropSteps, RefSteps
  <2>2. EntryInv' /\ StripeInv'
    BY <1>1, <1>3, <1>5, EntryKept, StripeKept DEF At, JobBecomes, Holding, SetSteps, DropSteps
  <2>3. Adding(p) => Adding(p)'
    BY <1>5 DEF JobBecomes, Adding, SetSteps
  <2> QED BY <2>1, <2>2, <2>3
<1>6. CASE index[k] # None /\ job' = [job EXCEPT ![p].ref = index[k], ![p].at = "setInto"]
           /\ UNCHANGED <<index, sets>>
  <2>1. index[k] \in SetIds /\ JobBecomes(p, "setInto", job[p].op, job[p].on, k, index[k], {})
    BY <1>1, <1>2, <1>6 DEF TypeOK, JobBecomes, Others, Jobs, Steps
  <2>2. JobInv(p)' /\ EntryInv' /\ StripeInv' /\ (Adding(p) => Adding(p)')
    BY <1>5, <2>1
  <2>3. \A l \in Keys : \A c \in Members(l) : ~Leaving(p, l, c)
    BY <1>1, <1>4, Distinct DEF TypeOK, Members
  <2> QED BY <1>1, <1>2, <1>3, <1>4, <1>6, <2>1, <2>2, <2>3, Quiet DEF JobBecomes, TypeOK
<1>7. ASSUME NEW s \in FreeSets, index[k] = None,
             index' = [index EXCEPT ![k] = s], sets' = [sets EXCEPT ![s] = {}],
             job' = [job EXCEPT ![p].ref = s, ![p].at = "setInto"]
      PROVE  IInv'
  <2>1. /\ s \in SetIds /\ s # None /\ \A l \in Keys : index[l] # s
        /\ \A q \in Procs : job[q].ref # s
    BY <1>7, Distinct DEF FreeSets
  <2>2. JobBecomes(p, "setInto", job[p].op, job[p].on, k, s, {})
    BY <1>1, <1>2, <1>7, <2>1 DEF TypeOK, JobBecomes, Others, Jobs, Steps
  <2>3. JobInv(p)' /\ EntryInv' /\ StripeInv' /\ (Adding(p) => Adding(p)')
    BY <1>5, <2>1, <2>2
  <2>4. /\ index' \in [Keys -> SetIds \cup {None}] /\ sets' \in [SetIds -> SUBSET Conns]
        /\ index'[k] = s /\ sets'[s] = {}
        /\ \A l \in Keys \ {k} : index'[l] = index[l]
        /\ \A t \in SetIds \ {s} : sets'[t] = sets[t]
    BY <1>1, <1>2, <1>7, <2>1 DEF TypeOK
  <2>5. \A q \in Procs : JobInv(q)'
    BY <1>3, <2>2, <2>3, JobsKept DEF IInv, JobBecomes
  <2>6. TypeOK'
    BY <1>1, <1>3, <2>2, <2>4, <2>5 DEF TypeOK, RestOK, JobInv, RefSteps, JobBecomes
  <2>7. OneKey'
    <3>1. \A l, m \in Keys : index'[l] # None /\ index'[l] = index'[m] => l = m
      BY <1>1, <2>1, <2>4 DEF OneKey
    <3>2. ASSUME NEW q \in Procs, NEW l \in Keys, job'[q].ref # None, job'[q].ref = index'[l]
          PROVE  job'[q].key = l
      <4>1. CASE q = p
        BY <2>1, <2>2, <2>4, <3>2, <4>1 DEF JobBecomes
      <4>2. CASE q # p
        BY <1>1, <2>1, <2>2, <2>4, <3>2, <4>2 DEF JobBecomes, Others, OneKey
      <4> QED BY <4>1, <4>2
    <3> QED BY <3>1, <3>2 DEF OneKey
  <2>8. MembersInv'
    <3> SUFFICES ASSUME NEW l \in Keys, NEW c \in Members(l)'
                 PROVE  /\ l \in Users => UserOf[c] = l
                        /\ Entitled(l, c)' \/ \E q \in Procs : Leaving(q, l, c)'
      BY DEF MembersInv
    <3>1. l # k /\ index'[l] = index[l] /\ index[l] # None /\ c \in Members(l) /\ c \in Conns
      BY <1>1, <2>1, <2>4 DEF Members, TypeOK
    <3>2. Entitled(l, c) => Entitled(l, c)'
      BY <1>3, <2>2, <2>3, <3>1, Distinct DEF Entitled, Adding, JobBecomes, Others
    <3>3. \A q \in Procs : Leaving(q, l, c) => Leaving(q, l, c)'
      BY <1>4, <2>2, <3>1 DEF Leaving, JobBecomes, Others, Holding, At
    <3> QED BY <1>1, <3>1, <3>2, <3>3 DEF MembersInv
  <2>9. EmptyInv'
    <3> SUFFICES ASSUME NEW l \in Keys, index'[l] # None, sets'[index'[l]] = {}
                 PROVE  \E q \in Procs : Tends(q, l)'
      BY DEF EmptyInv
    <3>1. CASE l = k
      BY <2>2, <2>4, <3>1 DEF Tends, JobBecomes
    <3>2. CASE l # k
      <4>1. index'[l] = index[l] /\ index[l] # None /\ sets[index[l]] = {}
        BY <1>1, <2>1, <2>4, <3>2 DEF TypeOK
      <4>2. PICK q \in Procs : Tends(q, l)
        BY <1>1, <4>1 DEF EmptyInv
      <4>3. q # p /\ Tends(q, l)'
        BY <1>4, <2>2, <4>1, <4>2 DEF Tends, JobBecomes, Others
      <4> QED BY <4>3
    <3> QED BY <3>1, <3>2
  <2> QED BY <2>3, <2>5, <2>6, <2>7, <2>8, <2>9 DEF IInv
<1>8. index[k] = None => (CHOOSE s \in FreeSets : TRUE) \in FreeSets
  BY <1>1, <1>2, FreeSetExists
<1> QED BY <1>6, <1>7, <1>8 DEF connectionSetForLocked

\* dropIndex: what is taken out of the index was empty, or has been filled meanwhile by a
\* goroutine whose connection is lost to the index, but no longer in a set anyone finds.
LEMMA DropIndexKeeps ==
  ASSUME IInv, NEW p \in Procs, dropIndex(p)
  PROVE  IInv'
<1> DEFINE k == job[p].key
<1>1. /\ TypeOK /\ JobInv(p) /\ EntryInv /\ StripeInv /\ OneKey /\ MembersInv /\ EmptyInv
      /\ job[p] \in Jobs /\ job[p].at = "dropIndex"
  BY DEF IInv, TypeOK, dropIndex, At
<1>2. k \in Keys /\ job[p].ref = None /\ stripe[k] = p
  BY <1>1 DEF JobInv, DropSteps, RefSteps, StripeInv, At
<1>3. RestOK' /\ UNCHANGED <<connections, groups, entryMu, sets>>
  BY <1>1 DEF dropIndex, TypeOK, RestOK
<1>4. JobBecomes(p, "drop", job[p].op, job[p].on, k, None, job[p].todo)
  BY <1>1, <1>2 DEF dropIndex, TypeOK, JobBecomes, Others, Jobs, Steps
<1>5. /\ index' \in [Keys -> SetIds \cup {None}] /\ stripe' \in [Keys -> Procs \cup {None}]
      /\ index'[k] = None /\ stripe'[k] = None
      /\ \A l \in Keys \ {k} : index'[l] = index[l] /\ stripe'[l] = stripe[l]
  BY <1>1, <1>2 DEF dropIndex, TypeOK
<1>6. JobInv(p)'
  BY <1>1, <1>3, <1>4, Distinct DEF JobBecomes, JobInv, SetSteps, DropSteps, RefSteps
<1>7. \A q \in Procs : JobInv(q)'
  BY <1>3, <1>4, <1>6, JobsKept DEF IInv, JobBecomes
<1>8. TypeOK'
  BY <1>1, <1>3, <1>4, <1>5, <1>7 DEF TypeOK, RestOK, JobInv, RefSteps, JobBecomes
<1>9. EntryInv'
  BY <1>1, <1>3, <1>4, EntryKept DEF JobBecomes, Holding, SetSteps, DropSteps
<1>10. StripeInv'
  <2>1. ASSUME NEW q \in Procs, At(q, "dropIndex")' PROVE stripe'[job'[q].key] = q
    <3>1. q # p /\ job'[q] = job[q] /\ job[q].at = "dropIndex" /\ JobInv(q)
      BY <1>4, <2>1 DEF JobBecomes, Others, At, IInv
    <3>2. job[q].key \in Keys /\ stripe[job[q].key] = q
      BY <1>1, <3>1 DEF JobInv, DropSteps, StripeInv, At
    <3> QED BY <1>2, <1>5, <3>1, <3>2
  <2>2. ASSUME NEW l \in Keys, stripe'[l] # None
        PROVE  At(stripe[l], "dropIndex")' /\ job'[stripe'[l]].key = l
    <3>1. l # k /\ stripe'[l] = stripe[l] /\ stripe[l] \in Procs /\ job[stripe[l]].at = "dropIndex"
          /\ job[stripe[l]].key = l
      BY <1>1, <1>5, <2>2 DEF StripeInv, TypeOK, At
    <3> QED BY <1>4, <3>1 DEF JobBecomes, Others, At
  <2> QED BY <2>1, <2>2 DEF StripeInv
<1>11. OneKey'
  <2>1. \A l, m \in Keys : index'[l] # None /\ index'[l] = index'[m] => l = m
    BY <1>1, <1>5 DEF OneKey
  <2>2. \A q \in Procs, l \in Keys : job'[q].ref # None /\ job'[q].ref = index'[l] => job'[q].key = l
    BY <1>1, <1>4, <1>5 DEF JobBecomes, Others, OneKey
  <2> QED BY <2>1, <2>2 DEF OneKey
<1>12. MembersInv'
  <2> SUFFICES ASSUME NEW l \in Keys, NEW c \in Members(l)'
               PROVE  /\ l \in Users => UserOf[c] = l
                      /\ Entitled(l, c)' \/ \E q \in Procs : Leaving(q, l, c)'
    BY DEF MembersInv
  <2>1. l # k /\ index'[l] = index[l] /\ index[l] # None /\ c \in Members(l) /\ c \in Conns
    BY <1>1, <1>3, <1>5, Distinct DEF Members, TypeOK
  <2>2. Entitled(l, c) => Entitled(l, c)'
    BY <1>1, <1>3, <1>4, <2>1, Distinct DEF Entitled, Adding, JobBecomes, Others, SetSteps
  <2>3. ASSUME NEW q \in Procs, Leaving(q, l, c) PROVE Leaving(q, l, c)'
    <3>1. CASE q = p
      BY <1>1, <1>4, <2>1, <2>3, <3>1 DEF Leaving, JobBecomes, Holding, At, DropSteps
    <3>2. CASE q # p
      BY <1>4, <2>1, <2>3, <3>2 DEF Leaving, JobBecomes, Others, Holding, At
    <3> QED BY <3>1, <3>2
  <2> QED BY <1>1, <2>1, <2>2, <2>3 DEF MembersInv
<1>13. EmptyInv'
  <2> SUFFICES ASSUME NEW l \in Keys, index'[l] # None, sets'[index'[l]] = {}
               PROVE  \E q \in Procs : Tends(q, l)'
    BY DEF EmptyInv
  <2>1. l # k /\ index'[l] = index[l] /\ index[l] # None /\ sets[index[l]] = {}
    BY <1>3, <1>5
  <2>2. PICK q \in Procs : Tends(q, l)
    BY <1>1, <2>1 DEF EmptyInv
  <2>3. q # p /\ Tends(q, l)'
    BY <1>1, <1>2, <1>4, <2>1, <2>2 DEF Tends, JobBecomes, Others
  <2> QED BY <2>3
<1> QED BY <1>7, <1>8, <1>9, <1>10, <1>11, <1>12, <1>13 DEF IInv

\* setInto: the connection that enters the set is being added, or has joined the group.
LEMMA SetIntoKeeps ==
  ASSUME IInv, NEW p \in Procs, setInto(p)
  PROVE  IInv'
<1> DEFINE r == job[p].ref
           o == job[p].on
<1>1. /\ TypeOK /\ JobInv(p) /\ EntryInv /\ StripeInv /\ OneKey /\ MembersInv /\ EmptyInv
      /\ job[p] \in Jobs /\ job[p].at = "setInto"
  BY DEF IInv, TypeOK, setInto, At
<1>2. /\ r \in SetIds /\ r # None /\ o \in Conns /\ job[p].todo = {}
      /\ \/ job[p].op = "add" /\ p \in Conns /\ o = p /\ job[p].key = UserOf[p] /\ UserOf[p] \in Users
         \/ job[p].op = "addToGroup" /\ job[p].key \in groups[o] /\ job[p].key \in Groups
  BY <1>1, Distinct DEF JobInv, SetSteps, DropSteps, RefSteps, GroupOps, TypeOK, Jobs
<1>3. RestOK' /\ UNCHANGED <<connections, groups, entryMu, stripe, index>>
  BY <1>1 DEF setInto, TypeOK, RestOK
<1>4. JobBecomes(p, IF job[p].op = "add" THEN "recheck" ELSE "unlock", job[p].op, o, None, None, {})
  BY <1>1, <1>2 DEF setInto, TypeOK, JobBecomes, Others, Jobs, Steps
<1>5. /\ sets' \in [SetIds -> SUBSET Conns] /\ sets'[r] = sets[r] \cup {o}
      /\ \A t \in SetIds \ {r} : sets'[t] = sets[t]
  BY <1>1, <1>2 DEF setInto, TypeOK
<1>6. JobInv(p)' /\ (Adding(p) => Adding(p)')
  BY <1>1, <1>2, <1>4, Distinct DEF JobBecomes, JobInv, SetSteps, DropSteps, RefSteps, Adding
<1>7. \A q \in Procs : JobInv(q)'
  BY <1>3, <1>4, <1>6, JobsKept DEF IInv, JobBecomes
<1>8. TypeOK'
  BY <1>1, <1>3, <1>4, <1>5, <1>7 DEF TypeOK, RestOK, JobInv, RefSteps, JobBecomes
<1>9. EntryInv' /\ StripeInv'
  BY <1>1, <1>2, <1>3, <1>4, EntryKept, StripeKept DEF At, JobBecomes, Holding, SetSteps, DropSteps
<1>10. OneKey'
  BY <1>1, <1>3, <1>4, OneKeyKept DEF JobBecomes
<1>11. MembersInv'
  <2> SUFFICES ASSUME NEW l \in Keys, NEW c \in Members(l)'
               PROVE  /\ l \in Users => UserOf[c] = l
                      /\ Entitled(l, c)' \/ \E q \in Procs : Leaving(q, l, c)'
    BY DEF MembersInv
  <2>1. index[l] \in SetIds /\ index[l] # None /\ c \in sets'[index[l]] /\ c \in Conns
    BY <1>1, <1>3, <1>5, Distinct DEF Members, TypeOK
  <2>2. CASE c \in Members(l)
    <3>1. Entitled(l, c) => Entitled(l, c)'
      BY <1>3, <1>4, <1>6, <2>1, Distinct DEF Entitled, Adding, JobBecomes, Others
    <3>2. \A q \in Procs : Leaving(q, l, c) => Leaving(q, l, c)'
      BY <1>1, <1>2, <1>3, <1>4 DEF Leaving, JobBecomes, Others, Holding, At
    <3> QED BY <1>1, <2>2, <3>1, <3>2 DEF MembersInv
  <2>3. CASE c \notin Members(l)
    <3>1. index[l] = r /\ c = o /\ job[p].key = l
      BY <1>1, <1>2, <1>5, <2>1, <2>3 DEF Members, OneKey
    <3>2. CASE job[p].op = "add"
      BY <1>2, <1>4, <3>1, <3>2 DEF Entitled, Adding, JobBecomes
    <3>3. CASE job[p].op = "addToGroup"
      BY <1>2, <1>3, <3>1, <3>3, Distinct DEF Entitled
    <3> QED BY <1>2, <3>2, <3>3
  <2> QED BY <2>2, <2>3
<1>12. EmptyInv'
  <2> SUFFICES ASSUME NEW l \in Keys, index'[l] # None, sets'[index'[l]] = {}
               PROVE  \E q \in Procs : Tends(q, l)'
    BY DEF EmptyInv
  <2>1. index[l] \in SetIds /\ index[l] # r /\ index[l] # None /\ sets[index[l]] = {}
    BY <1>1, <1>3, <1>5 DEF TypeOK
  <2>2. PICK q \in Procs : Tends(q, l)
    BY <1>1, <2>1 DEF EmptyInv
  <2>3. q # p /\ Tends(q, l)'
    BY <1>1, <1>3, <1>4, <2>1, <2>2 DEF Tends, JobBecomes, Others
  <2> QED BY <2>3
<1> QED BY <1>7, <1>8, <1>9, <1>10, <1>11, <1>12 DEF IInv

\* dropDelete: the connection leaves the set, and p looks next whether the set is empty.
LEMMA DropDeleteKeeps ==
  ASSUME IInv, NEW p \in Procs, dropDelete(p)
  PROVE  IInv'
<1> DEFINE r == job[p].ref
           o == job[p].on
<1>1. /\ TypeOK /\ JobInv(p) /\ EntryInv /\ StripeInv /\ OneKey /\ MembersInv /\ EmptyInv
      /\ job[p] \in Jobs /\ job[p].at = "dropDelete"
  BY DEF IInv, TypeOK, dropDelete, At
<1>2. r \in SetIds /\ r # None /\ ~Adding(p)
  BY <1>1 DEF JobInv, RefSteps, TypeOK, Jobs, Adding, SetSteps
<1>3. RestOK' /\ UNCHANGED <<connections, groups, entryMu, stripe, index>>
  BY <1>1 DEF dropDelete, TypeOK, RestOK
<1>4. JobBecomes(p, "dropLen", job[p].op, o, job[p].key, r, job[p].todo)
  BY <1>1, <1>2 DEF dropDelete, TypeOK, JobBecomes, Others, Jobs, Steps
<1>5. /\ sets' \in [SetIds -> SUBSET Conns] /\ sets'[r] = sets[r] \ {o}
      /\ \A t \in SetIds \ {r} : sets'[t] = sets[t]
  BY <1>1, <1>2 DEF dropDelete, TypeOK
<1>6. JobInv(p)'
  BY <1>1, <1>2, <1>4, Distinct DEF JobBecomes, JobInv, SetSteps, DropSteps, RefSteps
<1>7. \A q \in Procs : JobInv(q)'
  BY <1>3, <1>4, <1>6, JobsKept DEF IInv, JobBecomes
<1>8. TypeOK'
  BY <1>1, <1>3, <1>4, <1>5, <1>7 DEF TypeOK, RestOK, JobInv, RefSteps, JobBecomes
<1>9. EntryInv' /\ StripeInv'
  BY <1>1, <1>3, <1>4, EntryKept, StripeKept DEF At, JobBecomes, Holding, SetSteps, DropSteps
<1>10. OneKey'
  BY <1>1, <1>3, <1>4, OneKeyKept DEF JobBecomes
<1>11. MembersInv'
  <2> SUFFICES ASSUME NEW l \in Keys, NEW c \in Members(l)'
               PROVE  /\ l \in Users => UserOf[c] = l
                      /\ Entitled(l, c)' \/ \E q \in Procs : Leaving(q, l, c)'
    BY DEF MembersInv
  <2>1. /\ index[l] \in SetIds /\ index[l] # None /\ c \in Conns
        /\ c \in Members(l) /\ ~(index[l] = r /\ c = o)
    BY <1>1, <1>3, <1>5, Distinct DEF Members, TypeOK
  <2>2. Entitled(l, c) => Entitled(l, c)'
    BY <1>2, <1>3, <1>4, <2>1, Distinct DEF Entitled, Adding, JobBecomes, Others
  <2>3. ASSUME NEW q \in Procs, Leaving(q, l, c) PROVE Leaving(q, l, c)'
    <3>1. CASE q = p
      BY <1>1, <1>4, <2>1, <2>3, <3>1 DEF Leaving, JobBecomes, Holding, At, DropSteps
    <3>2. CASE q # p
      BY <1>3, <1>4, <2>3, <3>2 DEF Leaving, JobBecomes, Others, Holding, At
    <3> QED BY <3>1, <3>2
  <2> QED BY <1>1, <2>1, <2>2, <2>3 DEF MembersInv
<1>12. EmptyInv'
  <2> SUFFICES ASSUME NEW l \in Keys, index'[l] # None, sets'[index'[l]] = {}
               PROVE  \E q \in Procs : Tends(q, l)'
    BY DEF EmptyInv
  <2>1. CASE index[l] = r
    BY <1>3, <1>4, <2>1 DEF Tends, JobBecomes
  <2>2. CASE index[l] # r
    <3>1. index[l] # None /\ sets[index[l]] = {}
      BY <1>1, <1>3, <1>5, <2>2 DEF TypeOK
    <3>2. PICK q \in Procs : Tends(q, l)
      BY <1>1, <3>1 DEF EmptyInv
    <3>3. q # p /\ Tends(q, l)'
      BY <1>1, <1>3, <1>4, <3>2 DEF Tends, JobBecomes, Others
    <3> QED BY <3>3
  <2> QED BY <2>1, <2>2
<1> QED BY <1>7, <1>8, <1>9, <1>10, <1>11, <1>12 DEF IInv
-----------------------------------------------------------------------------
(***************************************************************************)
(* Steps that take entry.mu of a connection c.  What c is entitled to and  *)
(* loses in the step is what the call then takes it out of.                *)
(***************************************************************************)
TakesLock(p, c) ==
  /\ job[p].at \in {"lock", "nextExpired"}
  /\ entryMu[c] = None /\ entryMu' = [entryMu EXCEPT ![c] = p]
  /\ Others(p) /\ job' \in [Procs -> Jobs] /\ JobInv(p)'
  /\ job'[p].on = c /\ job'[p].ref = None
  /\ \/ job'[p].at = "drop"
     \/ job'[p].at = "setFor" /\ job'[p].op = "addToGroup"
  /\ UNCHANGED <<index, sets, stripe>> /\ RestOK'
  /\ connections' \subseteq connections /\ connections \ {c} \subseteq connections'
  /\ groups' \in [Conns -> SUBSET Groups] /\ \A d \in Conns \ {c} : groups'[d] = groups[d]
  /\ \A k \in Keys : Entitled(k, c) /\ (k \in Users => UserOf[c] = k) =>
       Entitled(k, c)' \/ k \in job'[p].todo

LEMMA LockTaken ==
  ASSUME IInv, NEW p \in Procs, NEW c \in Conns, TakesLock(p, c)
  PROVE  IInv'
<1> USE DEF TakesLock
<1>1. TypeOK /\ EntryInv /\ StripeInv /\ OneKey /\ MembersInv /\ EmptyInv
  BY DEF IInv
<1>2. Holding(p)'
  BY DEF Holding, SetSteps, DropSteps
<1>3. \A q \in Procs : Holding(q) => job[q].on \in Conns \ {c}
  BY <1>1, Distinct DEF IInv, JobInv, Holding, SetSteps, DropSteps, EntryInv
<1>4. \A q \in Procs : JobInv(q)'
  BY <1>3, JobsKept DEF IInv
<1>5. entryMu' \in [Conns -> Procs \cup {None}] /\ connections' \subseteq Conns
  BY <1>1 DEF TypeOK
<1>6. TypeOK'
  BY <1>1, <1>4, <1>5 DEF TypeOK, RestOK, JobInv, RefSteps
<1>7. EntryInv'
  BY <1>1, <1>2, IdleOwesNothing, EntryTaken
<1>8. StripeInv'
  BY <1>1, IdleOwesNothing, StripeKept DEF At
<1>9. OneKey'
  BY <1>1, OneKeyKept
<1>10. MembersInv'
  <2> SUFFICES ASSUME NEW k \in Keys, NEW d \in Members(k)
               PROVE  /\ k \in Users => UserOf[d] = k
                      /\ Entitled(k, d)' \/ \E q \in Procs : Leaving(q, k, d)'
    BY DEF MembersInv, Members
  <2>1. d \in Conns /\ (k \in Users => UserOf[d] = k)
        /\ (Entitled(k, d) \/ \E q \in Procs : Leaving(q, k, d))
    BY <1>1, Distinct DEF TypeOK, Members, MembersInv
  <2>2. CASE d = c
    <3>1. Entitled(k, c)
      BY <1>3, <2>1, <2>2 DEF Leaving
    <3>2. k \in job'[p].todo => Leaving(p, k, c)'
      BY <1>2 DEF Leaving
    <3> QED BY <2>1, <2>2, <3>1, <3>2
  <2>3. CASE d # c
    <3>1. Entitled(k, d) => Entitled(k, d)'
      BY <2>1, <2>3, IdleOwesNothing, Distinct DEF Entitled, Adding, Others
    <3>2. \A q \in Procs : Leaving(q, k, d) => Leaving(q, k, d)'
      BY <2>1, IdleOwesNothing DEF Leaving, Others, Holding, At
    <3> QED BY <2>1, <3>1, <3>2
  <2> QED BY <2>2, <2>3
<1>11. EmptyInv'
  BY <1>1, IdleOwesNothing, EmptyKept
<1> QED BY <1>4, <1>6, <1>7, <1>8, <1>9, <1>10, <1>11 DEF IInv

LEMMA KeysOfEntitled ==
  ASSUME TypeOK, NEW c \in Conns
  PROVE  /\ KeysOf(c) \in SUBSET Keys
         /\ \A k \in Keys : Entitled(k, c) /\ (k \in Users => UserOf[c] = k) => k \in KeysOf(c)
BY Distinct DEF TypeOK, KeysOf, UserKeys, Entitled

LEMMA RemoveLockedKeeps ==
  ASSUME IInv, NEW c \in Conns, removeLocked(c)
  PROVE  IInv'
<1>1. TypeOK /\ c \in Procs /\ JobInv(c) /\ job[c] \in Jobs /\ job[c].at = "lock" /\ job[c].op = "remove"
  BY Distinct DEF IInv, TypeOK, removeLocked, At
<1>2. job[c].on = c /\ job[c].ref = None
  BY <1>1 DEF JobInv, RefSteps
<1>3. JobBecomes(c, "drop", "remove", c, job[c].key, None, KeysOf(c))
  BY <1>1, <1>2, KeysOfEntitled DEF removeLocked, TypeOK, JobBecomes, Others, Jobs, Steps
<1>4. JobInv(c)'
  BY <1>1, <1>3, Distinct DEF JobBecomes, JobInv, SetSteps, DropSteps, RefSteps
<1>5. /\ UNCHANGED <<index, sets, stripe, groups>> /\ RestOK' /\ groups \in [Conns -> SUBSET Groups]
      /\ connections' = connections \ {c}
      /\ entryMu[c] = None /\ entryMu' = [entryMu EXCEPT ![c] = c]
  BY <1>1 DEF removeLocked, TypeOK, RestOK
<1>6. \A k \in Keys : Entitled(k, c) /\ (k \in Users => UserOf[c] = k) =>
        Entitled(k, c)' \/ k \in job'[c].todo
  BY <1>1, <1>3, KeysOfEntitled DEF JobBecomes
<1>7. TakesLock(c, c)
  BY <1>1, <1>3, <1>4, <1>5, <1>6 DEF JobBecomes, TakesLock
<1> QED BY <1>1, <1>7, LockTaken

LEMMA ExpireOneKeeps ==
  ASSUME IInv, NEW c \in Conns, expireOne(c)
  PROVE  IInv'
<1>1. TypeOK /\ Heartbeat \in Procs /\ job[Heartbeat].at = "nextExpired"
  BY Distinct DEF IInv, expireOne, At
<1>2. UNCHANGED <<index, sets, stripe, groups>> /\ RestOK' /\ groups \in [Conns -> SUBSET Groups]
  BY <1>1 DEF expireOne, TypeOK, RestOK
<1>3. CASE UNCHANGED <<entryMu, connections, job>>
  BY <1>2, <1>3, Untouched
<1>4. CASE /\ entryMu' = [entryMu EXCEPT ![c] = Heartbeat] /\ connections' = connections \ {c}
           /\ job' = [job EXCEPT ![Heartbeat] =
                [NoJob EXCEPT !.op = "expire", !.on = c, !.at = "drop", !.todo = KeysOf(c)]]
  <2>1. JobBecomes(Heartbeat, "drop", "expire", c, None, None, KeysOf(c))
    BY <1>1, <1>4, KeysOfEntitled DEF TypeOK, JobBecomes, Others, NoJob, Jobs, Steps, Ops
  <2>2. JobInv(Heartbeat)'
    BY <1>1, <2>1, Distinct DEF JobBecomes, JobInv, SetSteps, DropSteps, RefSteps
  <2>3. \A k \in Keys : Entitled(k, c) /\ (k \in Users => UserOf[c] = k) =>
          Entitled(k, c)' \/ k \in job'[Heartbeat].todo
    BY <1>1, <2>1, KeysOfEntitled DEF JobBecomes
  <2>4. connections' \subseteq connections /\ connections \ {c} \subseteq connections' /\ entryMu[c] = None
    BY <1>4 DEF expireOne
  <2>5. TakesLock(Heartbeat, c)
    BY <1>1, <1>2, <1>4, <2>1, <2>2, <2>3, <2>4 DEF JobBecomes, TakesLock
  <2> QED BY <1>1, <2>5, LockTaken
<1> QED BY <1>3, <1>4 DEF expireOne

LEMMA GroupLockedKeeps ==
  ASSUME IInv, NEW p \in Callers, groupLocked(p)
  PROVE  IInv'
<1> DEFINE c == job[p].on
           g == job[p].key
<1>1. /\ TypeOK /\ p \in Procs /\ p \notin Conns /\ p # Heartbeat /\ JobInv(p) /\ job[p] \in Jobs
      /\ job[p].at = "lock" /\ entryMu[c] = None /\ entryMu' = [entryMu EXCEPT ![c] = p]
  BY Distinct DEF IInv, TypeOK, groupLocked, At
<1>2. /\ c \in Conns /\ job[p].ref = None /\ job[p].todo = {} /\ groups[c] \in SUBSET Groups
      /\ job[p].op \in {"addToGroup", "removeFromGroup"} => g \in Groups
  BY <1>1 DEF JobInv, RefSteps, DropSteps, TypeOK
<1>3. UNCHANGED <<index, sets, stripe, connections>> /\ RestOK'
  BY <1>1 DEF groupLocked, TypeOK, RestOK
<1>4. ASSUME NEW G \in SUBSET Groups, groups' = [groups EXCEPT ![c] = G],
             NEW todo \in SUBSET Groups, groups[c] \subseteq G \cup todo,
             \/ JobBecomes(p, "drop", job[p].op, c, g, None, todo)
             \/ JobBecomes(p, "setFor", "addToGroup", c, g, None, todo) /\ g \in G /\ todo = {}
                /\ job[p].op = "addToGroup"
      PROVE  IInv'
  <2>1. /\ groups' \in [Conns -> SUBSET Groups] /\ groups'[c] = G
        /\ \A d \in Conns \ {c} : groups'[d] = groups[d]
    BY <1>1, <1>2, <1>4 DEF TypeOK
  <2>2. JobInv(p)' /\ job'[p].todo = todo
    BY <1>1, <1>2, <1>4, <2>1, Distinct DEF JobBecomes, JobInv, SetSteps, DropSteps, RefSteps
  <2>3. ASSUME NEW k \in Keys, Entitled(k, c) PROVE Entitled(k, c)' \/ k \in todo
    BY <1>1, <1>2, <1>3, <1>4, <2>1, <2>3, Distinct DEF Entitled, Adding, JobBecomes, Others
  <2>4. \A k \in Keys : Entitled(k, c) /\ (k \in Users => UserOf[c] = k) =>
          Entitled(k, c)' \/ k \in job'[p].todo
    BY <2>2, <2>3
  <2>5. TakesLock(p, c)
    BY <1>1, <1>2, <1>3, <1>4, <2>1, <2>2, <2>4 DEF JobBecomes, TakesLock
  <2> QED BY <1>1, <1>2, <2>5, LockTaken
<1>5. CASE job[p].op = "addToGroup" /\ groups' = [groups EXCEPT ![c] = groupsJoined(c, g)]
           /\ job' = [job EXCEPT ![p].at = "setFor"]
  <2>1. JobBecomes(p, "setFor", "addToGroup", c, g, None, {})
    BY <1>1, <1>2, <1>5 DEF TypeOK, JobBecomes, Others, Jobs, Steps
  <2> DEFINE G == groups[c] \cup {g}
             none == {}
  <2>2. /\ G \in SUBSET Groups /\ none \in SUBSET Groups /\ g \in G /\ groups[c] \subseteq G \cup none
        /\ groups' = [groups EXCEPT ![c] = G] /\ none = {} /\ job[p].op = "addToGroup"
    BY <1>2, <1>5 DEF groupsJoined
  <2>3. JobBecomes(p, "setFor", "addToGroup", c, g, None, none)
    BY <2>1
  <2> HIDE DEF G, none
  <2> QED BY <1>4, <2>2, <2>3
<1>6. CASE job[p].op = "removeFromGroup" /\ groups' = [groups EXCEPT ![c] = @ \ {g}]
           /\ job' = [job EXCEPT ![p].at = "drop", ![p].todo = {g}]
  <2>1. {g} \in SUBSET Groups /\ {g} \in SUBSET Keys
    BY <1>2, <1>6, Distinct
  <2>2. JobBecomes(p, "drop", job[p].op, c, g, None, {g})
    BY <1>1, <1>2, <1>6, <2>1 DEF TypeOK, JobBecomes, Others, Jobs, Steps
  <2>3. groups[c] \ {g} \in SUBSET Groups /\ groups' = [groups EXCEPT ![c] = groups[c] \ {g}]
    BY <1>2, <1>6
  <2> QED BY <1>4, <2>1, <2>2, <2>3
<1>7. CASE job[p].op = "removeFromAllGroups" /\ groups' = [groups EXCEPT ![c] = {}]
           /\ job' = [job EXCEPT ![p].at = "drop", ![p].todo = groups[c]]
  <2>1. groups[c] \in SUBSET Keys
    BY <1>2, Distinct
  <2>2. JobBecomes(p, "drop", job[p].op, c, g, None, groups[c])
    BY <1>1, <1>2, <1>7, <2>1 DEF TypeOK, JobBecomes, Others, Jobs, Steps
  <2> QED BY <1>2, <1>4, <1>7, <2>2
<1> QED BY <1>5, <1>6, <1>7 DEF groupLocked
-----------------------------------------------------------------------------
LEMMA IInvInit == Init => IInv
<1> SUFFICES ASSUME Init PROVE IInv
  OBVIOUS
<1> USE Distinct DEF Init, newConnectionRegistry, NoJob
<1>1. TypeOK
  BY DEF TypeOK, Jobs, Steps, Ops
<1>2. \A p \in Procs : JobInv(p)
  BY DEF JobInv, SetSteps, DropSteps, RefSteps
<1>3. EntryInv /\ StripeInv
  BY DEF EntryInv, StripeInv, Holding, At, SetSteps, DropSteps
<1>4. OneKey /\ MembersInv /\ EmptyInv
  BY DEF OneKey, MembersInv, Members, EmptyInv
<1> QED BY <1>1, <1>2, <1>3, <1>4 DEF IInv

LEMMA IInvNext == IInv /\ [Next]_vars => IInv'
<1> SUFFICES ASSUME IInv, [Next]_vars PROVE IInv'
  OBVIOUS
<1>1. ASSUME NEW p \in Procs, IndexStep(p) PROVE IInv'
  BY <1>1, ConnectionSetForKeeps, ConnectionSetForLockedKeeps, SetIntoKeeps,
     RemoveConnectionFromIndexKeeps, DropDeleteKeeps, DropLenKeeps, DropLockedKeeps,
     DropIndexKeeps, EntryUnlockKeeps DEF IndexStep
<1>2. ASSUME NEW c \in Conns, ServeStep(c) \/ touch(c) \/ becomeIdle(c) PROVE IInv'
  BY <1>2, AddKeeps, AddRecheckKeeps, RemoveKeeps, RemoveLockedKeeps, CountOnlineKeeps,
     TouchKeeps DEF ServeStep
<1>3. ASSUME NEW p \in Callers, NEW c \in Conns, NEW g \in Groups,
             addToGroup(p, c, g) \/ removeFromGroup(p, c, g)
      PROVE  IInv'
  BY <1>3, GroupCallKeeps DEF addToGroup, removeFromGroup, GroupOps
<1>4. ASSUME NEW p \in Callers, NEW c \in Conns, removeFromAllGroups(p, c) PROVE IInv'
  BY <1>4, GroupCallKeeps DEF removeFromAllGroups, GroupOps
<1>5. CASE expired \/ HeartbeatStep
  BY <1>5, ExpiredKeeps, ExpireOneKeeps, CloseExpiredKeeps DEF HeartbeatStep
<1>6. CASE UNCHANGED vars
  BY <1>6, Untouched DEF vars, IInv, TypeOK, RestOK
<1> QED BY <1>1, <1>2, <1>3, <1>4, <1>5, <1>6, GroupLockedKeeps DEF Next

LEMMA IInvHolds == Spec => []IInv
BY IInvInit, IInvNext, PTL DEF Spec
-----------------------------------------------------------------------------

\* The locks of a state that satisfies the invariant: a holder of a stripe waits for nothing,
\* a holder of entry.mu only for a stripe, and everybody else only for these two.
LEMMA SomeoneRuns == IInv => NoDeadlock
<1> SUFFICES ASSUME IInv, NEW p \in Procs, ~At(p, "idle")
             PROVE  \E q \in Procs : ~At(q, "idle") /\ ~Blocked(q)
  BY DEF NoDeadlock, Quiescent
<1>1. TypeOK /\ EntryInv /\ StripeInv /\ \A q \in Procs : JobInv(q)
  BY DEF IInv
<1>2. ASSUME NEW k \in Keys, stripe[k] # None PROVE ~At(stripe[k], "idle") /\ ~Blocked(stripe[k])
  BY <1>1, <1>2 DEF StripeInv, At, Blocked
<1>3. ASSUME \A k \in Keys : stripe[k] = None, NEW c \in Conns, entryMu[c] # None
      PROVE  ~At(entryMu[c], "idle") /\ ~Blocked(entryMu[c])
  <2>1. entryMu[c] \in Procs /\ Holding(entryMu[c]) /\ JobInv(entryMu[c])
    BY <1>1, <1>3 DEF TypeOK, EntryInv
  <2> QED BY <1>1, <1>3, <2>1, Distinct DEF Holding, JobInv, At, Blocked, SetSteps, DropSteps, TypeOK
<1>4. ASSUME \A k \in Keys : stripe[k] = None, \A c \in Conns : entryMu[c] = None PROVE ~Blocked(p)
  <2>1. JobInv(p) /\ candidates \subseteq Conns /\ groups \in [Conns -> SUBSET Groups]
    BY <1>1 DEF TypeOK
  <2>2. job[p].at \in {"lock", "recheck"} => job[p].on \in Conns
    BY <2>1 DEF JobInv
  <2>3. job[p].at \in {"setForLocked", "dropLocked"} => job[p].key \in Keys
    BY <2>1, Distinct DEF JobInv, SetSteps, DropSteps
  <2> QED BY <1>4, <2>1, <2>2, <2>3 DEF Blocked, At
<1> QED BY <1>1, <1>2, <1>3, <1>4 DEF TypeOK

\* Every variable keeps its type and no call goes through a nil *connectionSet: the pointer
\* that connectionSetFor and removeConnectionFromIndex hand on is set where it is used.
THEOREM RegistryTypes == Spec => []TypeOK
<1>1. IInv => TypeOK
  BY DEF IInv
<1> QED BY <1>1, IInvHolds, PTL

\* Whatever add, remove, expired and the group operations do at the same time, the set of a
\* user names no connection that has left the registry, except inside the call that is
\* adding it or taking it out.
THEOREM UserSetsNameRegistered == Spec => []UserSetsRegistered
<1>1. IInv => UserSetsRegistered
  <2> SUFFICES ASSUME IInv, NEW u \in Users, NEW c \in Members(u), entryMu[c] = None, job[c].op # "add"
               PROVE  c \in connections
    BY DEF UserSetsRegistered
  <2>1. u \in Keys /\ (Entitled(u, c) \/ \E p \in Procs : Leaving(p, u, c))
    BY Distinct DEF IInv, MembersInv
  <2>2. \A p \in Procs : ~Leaving(p, u, c)
    BY Distinct DEF IInv, EntryInv, Leaving
  <2> QED BY <2>1, <2>2 DEF Entitled, Adding
<1> QED BY <1>1, IInvHolds, PTL

\* The set of a group names only connections whose entry.groups has the group, whenever
\* nobody holds entry.mu of the connection.
THEOREM GroupSetsNameMembers == Spec => []MembersJoined
<1>1. IInv => MembersJoined
  <2> SUFFICES ASSUME IInv, NEW g \in Groups, NEW c \in Members(g), entryMu[c] = None
               PROVE  g \in groups[c]
    BY DEF MembersJoined
  <2>1. g \in Keys /\ g \notin Users /\ (Entitled(g, c) \/ \E p \in Procs : Leaving(p, g, c))
    BY Distinct DEF IInv, MembersInv
  <2>2. \A p \in Procs : ~Leaving(p, g, c)
    BY Distinct DEF IInv, EntryInv, Leaving
  <2> QED BY <2>1, <2>2 DEF Entitled
<1> QED BY <1>1, IInvHolds, PTL

\* No emptied set is left in an index: as long as one is there, some call is about to fill it
\* or to delete its key.
THEOREM EmptySetsAreDeleted == Spec => []NoEmptySets
<1>1. IInv => NoEmptySets
  BY DEF IInv, EmptyInv, NoEmptySets, Quiescent, At, Tends
<1> QED BY <1>1, IInvHolds, PTL

\* entry.mu and the stripe locks never leave every registry call waiting.
THEOREM RegistryDeadlockFree == Spec => []NoDeadlock
BY SomeoneRuns, IInvHolds, PTL
=============================================================================
