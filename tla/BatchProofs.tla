---------------------------- MODULE BatchProofs -----------------------------
(***************************************************************************)
(* What Batch guarantees for any connections, requests and number of       *)
(* workers: the snapshot is exact, every matched connection has exactly    *)
(* one result, results is not used after it was closed, and the slice is   *)
(* not read after it went back to the pool.                                *)
(***************************************************************************)
EXTENDS Batch, FiniteSetTheorems, SequenceTheorems, TLAPS

(***************************************************************************)
(* The inductive invariant.                                                *)
(***************************************************************************)

\* TypeOK without the channel's capacity and the suffix, with the type of the request.
Types ==
  /\ mode \in {"send", "close"} /\ ctxDone \in BOOLEAN
  /\ caller \in {"called", "total", "next", "range", "counting", "returned"}
  /\ request \in [by : {"ids", "users", "set"}, keys : Seq(Keys \cup {None})]
  /\ registered \subseteq Conns /\ before \subseteq Conns /\ seen \subseteq Conns
  /\ unseen \subseteq Conns /\ pos \in 1 .. Len(request.keys) + 1 /\ total \in Nat
  /\ matched \in Seq(Conns) /\ todo \in Seq(Conns)
  /\ producer \in {"none", "range", "offer", "reject", "wait", "done"}
  /\ offered \in Conns \cup {None}
  /\ worker \in [Workers -> {"none", "idle", "busy", "report", "done"}]
  /\ hand \in [Workers -> Conns \cup {None}]
  /\ outcome \in [Workers -> {"none", "nil", "error"}]
  /\ jobsClosed \in BOOLEAN /\ resultsClosed \in BOOLEAN /\ released \in BOOLEAN
  /\ results \in Seq({"nil", "error"})
  /\ succeeded \in Nat /\ failed \in Nat /\ samples \in 0 .. maxSendErrorSamples

\* The producer goes through the slice from its front.
TailInv ==
  /\ Len(todo) <= Len(matched)
  /\ \A i \in 1 .. Len(todo) : todo[i] = matched[i + (Len(matched) - Len(todo))]

\* What has not been started is untouched, and the goroutines end in order.
PhaseInv ==
  /\ Taking => producer = "none" /\ ~released
  /\ producer = "none" =>
       /\ todo = <<>> /\ results = <<>> /\ succeeded = 0 /\ failed = 0 /\ ~resultsClosed
       /\ \A w \in Workers : worker[w] = "none"
  /\ released /\ producer # "none" => resultsClosed
  /\ resultsClosed => producer = "done"
  /\ producer = "done" => WorkersDone
  /\ offered # None <=> producer \in {"offer", "reject"}

WorkerInv(w) ==
  /\ hand[w] # None <=> worker[w] \in {"busy", "report"}
  /\ outcome[w] # "none" <=> worker[w] = "report"

Capacity == Len(results) <= Cardinality(Started)

\* The connections of the i-th key that have been registered since the call began.
Stayed(i) ==
  IF request.keys[i] = None THEN {} ELSE MembersOf[request.keys[i]] \cap before \cap registered

SnapshotInv ==
  /\ Range(matched) \subseteq seen /\ seen \subseteq Targets
  /\ seen \cap before \cap registered \subseteq Range(matched)
  /\ caller \in {"called", "total"} => matched = <<>> /\ seen = {}
  /\ caller = "called" => pos = 1
  /\ caller = "total" /\ total = 0 => \A i \in 1 .. pos - 1 : Stayed(i) = {}
  /\ caller \in {"next", "range"} => \A i \in 1 .. pos - 1 : Stayed(i) \subseteq seen
  /\ caller = "range" => More /\ Stayed(pos) \subseteq seen \cup unseen

IInv ==
  /\ Types /\ TailInv /\ PhaseInv /\ Capacity /\ ResultsAddUp
  /\ \A w \in Workers : WorkerInv(w)
  /\ IsInjective(matched) /\ (Taking => SnapshotInv)
-----------------------------------------------------------------------------
(***************************************************************************)
(* The operators of the model.                                             *)
(***************************************************************************)

\* A set as a sequence without repetitions that has all its elements.
LEMMA SetToSeqLists ==
  ASSUME NEW S, IsFiniteSet(S)
  PROVE  /\ SetToSeq(S) \in Seq(S) /\ IsInjective(SetToSeq(S))
         /\ Range(SetToSeq(S)) = S
<1> DEFINE n == Cardinality(S)
           f == SetToSeq(S)
<1>1. n \in Nat /\ ExistsBijection(1 .. n, S)
  BY FS_CardinalityType
<1>2. f \in [1 .. n -> S] /\ IsInjective(f)
  <2>1. \E g \in [1 .. n -> S] : IsInjective(g)
    BY <1>1 DEF ExistsBijection, Bijection, Injection
  <2> QED BY <2>1 DEF SetToSeq
<1>3. ASSUME NEW x \in S, x \notin Range(f) PROVE FALSE
  <2>1. f \in Injection(1 .. n, S \ {x})
    BY <1>2, <1>3 DEF Injection, Range
  <2>2. IsFiniteSet(S \ {x}) /\ Cardinality(S \ {x}) = n - 1
    BY FS_RemoveElement
  <2>3. IsFiniteSet(1 .. n) /\ Cardinality(1 .. n) = n
    BY <1>1, FS_Interval
  <2>4. n <= n - 1
    BY <2>1, <2>2, <2>3, FS_Injection
  <2> QED BY <1>1, <2>4
<1>4. Range(f) \subseteq S
  BY <1>2 DEF Range
<1>5. f \in Seq(S)
  BY <1>1, <1>2
<1> QED BY <1>2, <1>3, <1>4, <1>5

LEMMA InjectiveConcat ==
  ASSUME NEW S, NEW s \in Seq(S), NEW t \in Seq(S), IsInjective(s), IsInjective(t),
         Range(s) \cap Range(t) = {}
  PROVE  IsInjective(s \o t)
<1> DEFINE u == s \o t
           m == Len(s)
           n == Len(t)
<1>1. /\ DOMAIN s = 1 .. m /\ DOMAIN t = 1 .. n /\ m \in Nat /\ n \in Nat
      /\ DOMAIN u = 1 .. m + n
      /\ \A i \in 1 .. m + n : u[i] = IF i <= m THEN s[i] ELSE t[i - m]
  BY ConcatProperties, LenProperties
<1> HIDE DEF u, m, n
<1> SUFFICES ASSUME NEW a \in 1 .. m + n, NEW b \in 1 .. m + n, u[a] = u[b]
             PROVE  a = b
  BY <1>1 DEF IsInjective, u
<1>2. /\ u[a] = IF a <= m THEN s[a] ELSE t[a - m]
      /\ u[b] = IF b <= m THEN s[b] ELSE t[b - m]
  BY <1>1
<1>3. CASE a <= m /\ b <= m
  <2>1. s[a] = s[b]
    BY <1>2, <1>3
  <2>2. a \in DOMAIN s /\ b \in DOMAIN s
    BY <1>1, <1>3
  <2> QED BY <2>1, <2>2 DEF IsInjective
<1>4. CASE ~(a <= m) /\ ~(b <= m)
  <2>1. t[a - m] = t[b - m]
    BY <1>2, <1>4
  <2>2. a - m \in DOMAIN t /\ b - m \in DOMAIN t
    BY <1>1, <1>4
  <2>3. a - m = b - m
    BY <2>1, <2>2 DEF IsInjective
  <2> QED BY <1>1, <2>3
<1>5. CASE a <= m /\ ~(b <= m)
  <2>1. s[a] = t[b - m]
    BY <1>2, <1>5
  <2>2. a \in DOMAIN s /\ b - m \in DOMAIN t
    BY <1>1, <1>5
  <2> QED BY <2>1, <2>2 DEF Range
<1>6. CASE ~(a <= m) /\ b <= m
  <2>1. s[b] = t[a - m]
    BY <1>2, <1>6
  <2>2. b \in DOMAIN s /\ a - m \in DOMAIN t
    BY <1>1, <1>6
  <2> QED BY <2>1, <2>2 DEF Range
<1> QED BY <1>3, <1>4, <1>5, <1>6

LEMMA InjectiveAppend ==
  ASSUME NEW S, NEW s \in Seq(S), NEW e \in S, IsInjective(s), e \notin Range(s)
  PROVE  IsInjective(Append(s, e)) /\ Range(Append(s, e)) = Range(s) \cup {e}
<1> DEFINE t == <<e>>
<1>1. t \in Seq(S) /\ IsInjective(t) /\ Range(t) = {e}
  BY DEF IsInjective, Range
<1>2. Append(s, e) = s \o t
  BY AppendIsConcat
<1> HIDE DEF t
<1>3. IsInjective(s \o t)
  BY <1>1, InjectiveConcat
<1>4. Range(s \o t) = Range(s) \cup {e}
  BY <1>1, RangeConcatenation
<1> QED BY <1>2, <1>3, <1>4, Zenon

\* The types, the rest of the slice and the capacity make up TypeOK.
LEMMA TypesComplete == Types /\ TailInv /\ Capacity => TypeOK
<1> SUFFICES ASSUME Types, TailInv, Capacity PROVE TypeOK
  OBVIOUS
<1> DEFINE m == Len(matched)
           n == Len(todo)
           r == Reverse(todo)
           q == Reverse(matched)
<1>1. m \in Nat /\ n \in Nat /\ n <= m /\ todo \in [1 .. n -> Conns] /\ matched \in [1 .. m -> Conns]
  BY LenProperties DEF Types, TailInv
<1>2. r \in Seq(Conns) /\ Len(r) = n /\ \A i \in 1 .. n : r[i] = todo[(n - i) + 1]
  BY <1>1 DEF Reverse
<1>3. q \in Seq(Conns) /\ Len(q) = m /\ \A i \in 1 .. m : q[i] = matched[(m - i) + 1]
  BY <1>1 DEF Reverse
<1>4. ASSUME NEW i \in 1 .. n PROVE r[i] = q[i]
  <2> DEFINE j == (n - i) + 1
  <2>1. j \in 1 .. n /\ j + (m - n) = (m - i) + 1 /\ i \in 1 .. m
    BY <1>1
  <2>2. todo[j] = matched[j + (m - n)]
    BY <2>1 DEF TailInv
  <2>3. r[i] = todo[j] /\ q[i] = matched[(m - i) + 1]
    <3> HIDE DEF m, n, r, q
    <3> QED BY <1>2, <1>3, <2>1
  <2> QED BY <2>1, <2>2, <2>3
<1>5. SubSeq(r, 1, n) = SubSeq(q, 1, n)
  <2>1. \A i \in 1 .. n : r[i] \in Conns /\ q[i] \in Conns
    BY <1>1, <1>2, <1>3, ElementOfSeq
  <2>2. SubSeq(r, 1, n) \in Seq(Conns) /\ SubSeq(q, 1, n) \in Seq(Conns)
        /\ Len(SubSeq(r, 1, n)) = n /\ Len(SubSeq(q, 1, n)) = n
        /\ \A i \in 1 .. n : SubSeq(r, 1, n)[i] = r[i] /\ SubSeq(q, 1, n)[i] = q[i]
    BY <1>1, <2>1, SubSeqProperties
  <2> QED BY <1>4, <2>2, SeqEqual
<1>6. IsSuffix(todo, matched)
  BY <1>1, <1>2, <1>3, <1>5 DEF IsSuffix, IsPrefix
<1> QED BY <1>6 DEF Types, Capacity, TypeOK

LEMMA OneOrNone == \A x : Cardinality({x} \ {None}) = IF x = None THEN 0 ELSE 1
<1> SUFFICES ASSUME NEW x PROVE Cardinality({x} \ {None}) = IF x = None THEN 0 ELSE 1
  OBVIOUS
<1>1. x = None => {x} \ {None} = {}
  OBVIOUS
<1>2. x # None => {x} \ {None} = {x}
  OBVIOUS
<1> QED BY <1>1, <1>2, FS_EmptySet, FS_Singleton

LEMMA SomeWorkers == \A W : W \subseteq Workers => IsFiniteSet(W) /\ Cardinality(W) \in Nat
BY BatchConstants, FS_Subset, FS_CardinalityType

LEMMA Counts ==
  ASSUME Types
  PROVE  /\ IsFiniteSet(Started) /\ Cardinality(Started) \in Nat
         /\ IsFiniteSet(Held) /\ Cardinality(Held) \in Nat
         /\ Len(todo) \in Nat /\ Len(matched) \in Nat /\ Len(results) \in Nat /\ Len(request.keys) \in Nat
         /\ succeeded \in Nat /\ failed \in Nat /\ Cardinality({offered} \ {None}) \in Nat
<1>1. Started \subseteq Workers /\ Held \subseteq Workers
  BY DEF Started, Held
<1>2. /\ Len(todo) \in Nat /\ Len(matched) \in Nat /\ Len(results) \in Nat /\ Len(request.keys) \in Nat
      /\ succeeded \in Nat /\ failed \in Nat
  BY LenProperties DEF Types
<1>3. Cardinality({offered} \ {None}) \in Nat
  <2>1. Cardinality({offered} \ {None}) = IF offered = None THEN 0 ELSE 1
    BY OneOrNone, Zenon
  <2> QED BY <2>1
<1> QED BY <1>1, <1>2, <1>3, SomeWorkers
-----------------------------------------------------------------------------
(***************************************************************************)
(* Taking the snapshot.                                                    *)
(***************************************************************************)

\* Nothing has been started yet, so that only the snapshot has to be looked at.
LEMMA StillTaking ==
  ASSUME IInv, Taking, Types', IsInjective(matched'), (Taking => SnapshotInv)',
         UNCHANGED <<jobVars, workVars, resultVars, countVars, released>>,
         caller' \in {"called", "total", "next", "range", "returned"}
  PROVE  IInv'
<1>1. producer = "none" /\ todo = <<>> /\ PhaseInv /\ ~released
  BY DEF IInv, PhaseInv
<1>2. PhaseInv'
  BY <1>1 DEF PhaseInv, Taking, WorkersDone, Started, jobVars, workVars, resultVars, countVars
<1>3. TailInv'
  <2>1. Len(matched') \in Nat /\ Len(todo') = 0
    BY <1>1, LenProperties, EmptySeq DEF Types, jobVars
  <2> QED BY <2>1 DEF TailInv
<1>4. Capacity' /\ ResultsAddUp' /\ \A w \in Workers : WorkerInv(w)'
  BY <1>1 DEF IInv, Capacity, Started, ResultsAddUp, WorkerInv, jobVars, workVars, resultVars
<1> QED BY <1>2, <1>3, <1>4 DEF IInv

LEMMA Pick ==
  ASSUME Types, Taking
  PROVE  /\ pos \in Nat /\ Len(request.keys) \in Nat
         /\ More => /\ Key \in Keys \cup {None}
                    /\ Key # None => MembersOf[Key] \in SUBSET Conns /\ MembersOf[Key] \subseteq Targets
                    /\ Stayed(pos) = IF Key = None THEN {} ELSE MembersOf[Key] \cap before \cap registered
         /\ \A i \in 1 .. Len(request.keys) : Stayed(i) \subseteq Targets
<1>1. /\ pos \in Nat /\ Len(request.keys) \in Nat /\ pos >= 1
      /\ DOMAIN request.keys = 1 .. Len(request.keys)
      /\ \A i \in 1 .. Len(request.keys) : request.keys[i] \in Keys \cup {None}
  BY LenProperties, ElementOfSeq DEF Types
<1>2. More => pos \in 1 .. Len(request.keys)
  BY <1>1 DEF More
<1>3. \A i \in 1 .. Len(request.keys) : request.keys[i] # None =>
        MembersOf[request.keys[i]] \subseteq Targets /\ MembersOf[request.keys[i]] \in SUBSET Conns
  BY <1>1, BatchConstants DEF Targets, Range
<1> QED BY <1>1, <1>2, <1>3 DEF Key, Stayed

LEMMA ChangeKeeps ==
  ASSUME IInv, NEW c \in Conns, change(c)
  PROVE  IInv'
<1>1. Types /\ Taking /\ SnapshotInv /\ IsInjective(matched)
  BY DEF IInv, change
<1>2. UNCHANGED <<mode, ctxDone, request, before, caller, pos, total, seen, unseen, matched, jobVars,
                  workVars, resultVars, countVars, released>>
  BY DEF change, pickVars
<1>3. registered' \subseteq Conns /\ before \cap registered' \subseteq before \cap registered
  BY <1>1 DEF change, Types
<1>4. Types'
  BY <1>1, <1>2, <1>3 DEF Types, jobVars, workVars, resultVars, countVars
<1>5. \A i : Stayed(i)' \subseteq Stayed(i)
  BY <1>2, <1>3 DEF Stayed
<1>6. SnapshotInv'
  BY <1>1, <1>2, <1>3, <1>5 DEF SnapshotInv, Targets, More
<1>7. caller' \in {"called", "total", "next", "range"} /\ IsInjective(matched')
  BY <1>1, <1>2 DEF Taking
<1> QED BY <1>1, <1>2, <1>4, <1>6, <1>7, StillTaking

LEMMA RefuseKeeps ==
  ASSUME IInv, refuseInvalid \/ refuseShuttingDown
  PROVE  IInv'
<1>1. Types /\ Taking /\ IsInjective(matched) /\ ~Taking'
  BY DEF IInv, refuseInvalid, refuseShuttingDown, Taking
<1>2. /\ UNCHANGED <<mode, ctxDone, request, registered, before, pos, total, seen, unseen, matched,
                     jobVars, workVars, resultVars, countVars, released>>
      /\ caller' = "returned"
  BY DEF refuseInvalid, refuseShuttingDown, aimVars, pickVars
<1>3. Types'
  BY <1>1, <1>2 DEF Types, jobVars, workVars, resultVars, countVars
<1> QED BY <1>1, <1>2, <1>3, StillTaking

LEMMA CallKeeps ==
  ASSUME IInv, call
  PROVE  IInv'
<1>1. Types /\ Taking /\ SnapshotInv /\ IsInjective(matched)
  BY DEF IInv, call, Taking
<1>2. /\ UNCHANGED <<mode, ctxDone, request, registered, before, pos, total, seen, unseen, matched,
                     jobVars, workVars, resultVars, countVars, released>>
      /\ caller = "called" /\ caller' \in {"total", "next"}
  BY DEF call, pickVars
<1>3. Types'
  BY <1>1, <1>2 DEF Types, jobVars, workVars, resultVars, countVars
<1>4. SnapshotInv'
  BY <1>1, <1>2 DEF SnapshotInv, Targets
<1> QED BY <1>1, <1>2, <1>3, <1>4, StillTaking

LEMMA CountUserKeeps ==
  ASSUME IInv, countUser
  PROVE  IInv'
<1> DEFINE n == IF Key = None THEN 0 ELSE Cardinality(MembersOf[Key] \cap registered)
<1>1. Types /\ Taking /\ SnapshotInv /\ IsInjective(matched) /\ caller = "total" /\ More
  BY DEF IInv, countUser, Taking
<1>2. /\ UNCHANGED <<mode, ctxDone, request, registered, before, caller, seen, unseen, matched, jobVars,
                     workVars, resultVars, countVars, released>>
      /\ total' = total + n /\ pos' = pos + 1
  BY DEF countUser
<1>3. n \in Nat /\ (n = 0 => Stayed(pos) = {})
  <2>1. CASE Key = None
    BY <1>1, <2>1, Pick
  <2>2. CASE Key # None
    <3>1. IsFiniteSet(MembersOf[Key] \cap registered)
      BY <1>1, BatchConstants, FS_Subset DEF Types
    <3>2. n \in Nat /\ (n = 0 => MembersOf[Key] \cap registered = {})
      BY <2>2, <3>1, FS_CardinalityType, FS_EmptySet
    <3> QED BY <1>1, <2>2, <3>2, Pick
  <2> QED BY <2>1, <2>2
<1> HIDE DEF n
<1>4. Types'
  BY <1>1, <1>2, <1>3, Pick DEF Types, More, jobVars, workVars, resultVars, countVars
<1>5. SnapshotInv'
  <2>1. pos \in Nat /\ \A i : Stayed(i)' = Stayed(i)
    BY <1>1, <1>2, Pick DEF Stayed
  <2>2. total' = 0 => \A i \in 1 .. pos' - 1 : Stayed(i)' = {}
    <3> SUFFICES ASSUME total' = 0, NEW i \in 1 .. pos PROVE Stayed(i) = {}
      BY <1>2, <2>1
    <3>1. total = 0 /\ n = 0
      BY <1>1, <1>2, <1>3 DEF Types
    <3>2. i = pos \/ i \in 1 .. pos - 1
      BY <2>1
    <3> QED BY <1>1, <1>3, <3>1, <3>2 DEF SnapshotInv
  <2> QED BY <1>1, <1>2, <2>2 DEF SnapshotInv, Targets
<1> QED BY <1>1, <1>2, <1>4, <1>5, StillTaking

LEMMA CountedUsersKeeps ==
  ASSUME IInv, countedUsers
  PROVE  IInv'
<1>1. Types /\ Taking /\ SnapshotInv /\ IsInjective(matched) /\ caller = "total"
  BY DEF IInv, countedUsers, Taking
<1>2. /\ UNCHANGED <<mode, ctxDone, request, registered, before, total, seen, unseen, matched, jobVars,
                     workVars, resultVars, countVars, released>>
      /\ pos' = IF total = 0 THEN pos ELSE 1
      /\ caller' = "next"
  BY DEF countedUsers, NothingToSend
<1>3. Types'
  BY <1>1, <1>2, Pick DEF Types, jobVars, workVars, resultVars, countVars
<1>4. SnapshotInv'
  BY <1>1, <1>2 DEF SnapshotInv, Targets, Stayed
<1> QED BY <1>1, <1>2, <1>3, <1>4, StillTaking

LEMMA LookUpKeeps ==
  ASSUME IInv, lookUp
  PROVE  IInv'
<1> DEFINE cs == IF Key = None THEN {} ELSE Fresh(MembersOf[Key])
           new == SetToSeq(cs \cap registered)
<1>1. Types /\ Taking /\ SnapshotInv /\ IsInjective(matched) /\ caller = "next" /\ More
  BY DEF IInv, lookUp, Taking
<1>2. /\ UNCHANGED <<mode, ctxDone, request, registered, before, caller, total, unseen, jobVars,
                     workVars, resultVars, countVars, released>>
      /\ seen' = seen \cup cs /\ matched' = matched \o new /\ pos' = pos + 1
  BY DEF lookUp
<1>3. /\ cs \subseteq Conns \ seen /\ cs \subseteq Targets /\ Stayed(pos) \subseteq seen \cup cs
  BY <1>1, Pick DEF Fresh
<1>4. /\ new \in Seq(Conns) /\ IsInjective(new) /\ Range(new) = cs \cap registered
  <2>1. IsFiniteSet(cs \cap registered) /\ cs \cap registered \subseteq Conns
    BY <1>3, BatchConstants, FS_Subset
  <2> HIDE DEF cs
  <2>2. new \in Seq(cs \cap registered) /\ IsInjective(new) /\ Range(new) = cs \cap registered
    BY <2>1, SetToSeqLists
  <2> HIDE DEF new
  <2> QED BY <2>1, <2>2, SeqMonotonic
<1> HIDE DEF cs, new
<1>5. matched' \in Seq(Conns) /\ Range(matched') = Range(matched) \cup (cs \cap registered)
  BY <1>1, <1>2, <1>4, ConcatProperties, RangeConcatenation DEF Types
<1>6. IsInjective(matched')
  <2>1. Range(matched) \cap Range(new) = {}
    BY <1>1, <1>3, <1>4 DEF SnapshotInv
  <2> QED BY <1>1, <1>2, <1>4, <2>1, InjectiveConcat DEF Types
<1>7. Types'
  BY <1>1, <1>2, <1>3, <1>5, Pick DEF Types, More, jobVars, workVars, resultVars, countVars
<1>8. SnapshotInv'
  <2>1. pos \in Nat /\ \A i : Stayed(i)' = Stayed(i)
    BY <1>1, <1>2, Pick DEF Stayed
  <2>2. ASSUME NEW i \in 1 .. pos' - 1 PROVE Stayed(i)' \subseteq seen'
    <3>1. i = pos \/ i \in 1 .. pos - 1
      BY <1>2, <2>1
    <3> QED BY <1>1, <1>2, <1>3, <2>1, <3>1 DEF SnapshotInv
  <2> QED BY <1>1, <1>2, <1>3, <1>5, <2>2 DEF SnapshotInv, Targets
<1> QED BY <1>1, <1>2, <1>6, <1>7, <1>8, StillTaking

LEMMA BeginRangeKeeps ==
  ASSUME IInv, beginRange
  PROVE  IInv'
<1>1. Types /\ Taking /\ SnapshotInv /\ IsInjective(matched) /\ caller = "next" /\ More
  BY DEF IInv, beginRange, Taking
<1>2. /\ UNCHANGED <<mode, ctxDone, request, registered, before, pos, total, seen, matched, jobVars,
                     workVars, resultVars, countVars, released>>
      /\ caller' = "range"
      /\ unseen' = IF Key = None THEN {} ELSE Fresh(MembersOf[Key] \cap registered)
  BY DEF beginRange
<1>3. unseen' \subseteq Conns /\ Stayed(pos) \subseteq seen \cup unseen'
  BY <1>1, <1>2, Pick DEF Fresh
<1>4. Types'
  BY <1>1, <1>2, <1>3 DEF Types, jobVars, workVars, resultVars, countVars
<1>5. SnapshotInv'
  BY <1>1, <1>2, <1>3 DEF SnapshotInv, Targets, Stayed, More
<1> QED BY <1>1, <1>2, <1>4, <1>5, StillTaking

LEMMA VisitKeeps ==
  ASSUME IInv, NEW c \in Conns, visit(c)
  PROVE  IInv'
<1>1. Types /\ Taking /\ SnapshotInv /\ IsInjective(matched) /\ caller = "range" /\ More
  BY DEF IInv, visit, Taking, SnapshotInv
<1>2. /\ UNCHANGED <<mode, ctxDone, request, registered, before, caller, pos, total, jobVars,
                     workVars, resultVars, countVars, released>>
      /\ Key # None /\ c \in MembersOf[Key] /\ c \notin seen
      /\ matched' = Append(matched, c) /\ seen' = seen \cup {c} /\ unseen' = unseen \ {c}
  BY DEF visit, Fresh
<1>3. c \in Targets
  BY <1>1, <1>2, Pick
<1>4. /\ matched' \in Seq(Conns) /\ IsInjective(matched') /\ Range(matched') = Range(matched) \cup {c}
  BY <1>1, <1>2, AppendProperties, InjectiveAppend DEF Types, SnapshotInv
<1>5. Types'
  BY <1>1, <1>2, <1>4 DEF Types, jobVars, workVars, resultVars, countVars
<1>6. SnapshotInv'
  <2>1. \A i : Stayed(i)' = Stayed(i)
    BY <1>2 DEF Stayed
  <2> QED BY <1>1, <1>2, <1>3, <1>4, <2>1 DEF SnapshotInv, Targets, More
<1> QED BY <1>1, <1>2, <1>4, <1>5, <1>6, StillTaking

LEMMA EndRangeKeeps ==
  ASSUME IInv, endRange
  PROVE  IInv'
<1>1. Types /\ Taking /\ SnapshotInv /\ IsInjective(matched) /\ caller = "range" /\ More
  BY DEF IInv, endRange, Taking, SnapshotInv
<1>2. /\ UNCHANGED <<mode, ctxDone, request, registered, before, total, seen, matched, jobVars,
                     workVars, resultVars, countVars, released>>
      /\ unseen \cap registered = {}
      /\ caller' = "next" /\ pos' = pos + 1 /\ unseen' = {}
  BY DEF endRange
<1>3. Types'
  BY <1>1, <1>2, Pick DEF Types, More, jobVars, workVars, resultVars, countVars
<1>4. SnapshotInv'
  <2>1. pos \in Nat /\ (\A i : Stayed(i)' = Stayed(i)) /\ Stayed(pos) \subseteq seen
    BY <1>1, <1>2, Pick DEF Stayed, SnapshotInv
  <2>2. ASSUME NEW i \in 1 .. pos' - 1 PROVE Stayed(i)' \subseteq seen'
    <3>1. i = pos \/ i \in 1 .. pos - 1
      BY <1>2, <2>1
    <3> QED BY <1>1, <1>2, <2>1, <3>1 DEF SnapshotInv
  <2> QED BY <1>1, <1>2, <2>2 DEF SnapshotInv, Targets
<1> QED BY <1>1, <1>2, <1>3, <1>4, StillTaking

-----------------------------------------------------------------------------
(***************************************************************************)
(* The workers and the producer start.                                     *)
(***************************************************************************)
LEMMA StartKeeps ==
  ASSUME IInv, start
  PROVE  IInv'
<1>1. /\ Types /\ Taking /\ PhaseInv /\ IsInjective(matched) /\ (\A w \in Workers : WorkerInv(w))
      /\ producer = "none" /\ todo = <<>> /\ offered = None
      /\ results = <<>> /\ succeeded = 0 /\ failed = 0 /\ ~resultsClosed /\ ~released
      /\ \A w \in Workers : worker[w] = "none"
  BY DEF IInv, start, Taken, Taking, PhaseInv
<1>2. /\ UNCHANGED <<mode, ctxDone, unseen, matched, offered, jobsClosed, hand, outcome, resultVars,
                     countVars>>
      /\ registered' = {} /\ before' = {} /\ seen' = {} /\ total' = 0
      /\ request' = [request EXCEPT !.keys = <<>>] /\ pos' = 1
  BY DEF start
<1>3. /\ request' \in [by : {"ids", "users", "set"}, keys : Seq(Keys \cup {None})]
      /\ pos' \in 1 .. Len(request'.keys) + 1
  <2> DEFINE none == <<>>
  <2>1. none \in Seq(Keys \cup {None}) /\ Len(none) = 0
    BY EmptySeq
  <2>2. request'.by = request.by /\ request'.keys = none
        /\ request' \in [by : {"ids", "users", "set"}, keys : Seq(Keys \cup {None})]
    <3> HIDE DEF none
    <3>1. request' = [request EXCEPT !.keys = none]
      BY <1>2 DEF none
    <3> QED BY <1>1, <2>1, <3>1 DEF Types
  <2> QED BY <1>2, <2>1, <2>2
<1>4. Len(matched) \in Nat
  BY <1>1, LenProperties DEF Types
<1>5. CASE caller' = "returned" /\ released' = TRUE /\ UNCHANGED <<todo, producer, worker>>
  <2>1. Types'
    BY <1>1, <1>2, <1>3, <1>5 DEF Types, resultVars, countVars
  <2>2. PhaseInv' /\ ~Taking'
    BY <1>1, <1>2, <1>5 DEF PhaseInv, Taking, WorkersDone, Started, resultVars, countVars
  <2>3. TailInv' /\ Capacity' /\ ResultsAddUp' /\ \A w \in Workers : WorkerInv(w)'
    BY <1>1, <1>2, <1>4, <1>5 DEF IInv, TailInv, Capacity, Started, ResultsAddUp, WorkerInv, resultVars
  <2> QED BY <1>1, <1>2, <2>1, <2>2, <2>3 DEF IInv
<1>6. ASSUME NEW ws \in SUBSET Workers, caller' = "counting", todo' = matched, producer' = "range",
             worker' = [w \in Workers |-> IF w \in ws THEN "idle" ELSE "none"], UNCHANGED released
      PROVE  IInv'
  <2>1. Types'
    BY <1>1, <1>2, <1>3, <1>6 DEF Types, resultVars, countVars
  <2>2. PhaseInv' /\ ~Taking'
    BY <1>1, <1>2, <1>6 DEF PhaseInv, Taking, resultVars, countVars
  <2>3. TailInv'
    BY <1>2, <1>4, <1>6 DEF TailInv
  <2>4. \A w \in Workers : WorkerInv(w)'
    BY <1>1, <1>2, <1>6 DEF WorkerInv
  <2>5. Capacity'
    <3>1. Started' \subseteq Workers
      BY DEF Started
    <3>2. Len(results') = 0 /\ Cardinality(Started') \in Nat
      BY <1>1, <1>2, <3>1, SomeWorkers DEF resultVars
    <3> QED BY <3>2 DEF Capacity
  <2>6. ResultsAddUp'
    <3>1. Held' = {}
      BY <1>1, <1>2 DEF Held, WorkerInv
    <3>2. Cardinality(Held') = 0 /\ Cardinality({offered'} \ {None}) = 0
      BY <1>1, <1>2, <3>1, FS_EmptySet
    <3>3. /\ matched' = matched /\ todo' = matched /\ Len(results') = 0
          /\ succeeded' = 0 /\ failed' = 0
      BY <1>1, <1>2, <1>6 DEF resultVars, countVars
    <3> QED BY <1>4, <3>2, <3>3 DEF ResultsAddUp
  <2> QED BY <1>1, <1>2, <2>1, <2>2, <2>3, <2>4, <2>5, <2>6 DEF IInv
<1> QED BY <1>5, <1>6 DEF start, kSubset
-----------------------------------------------------------------------------
(***************************************************************************)
(* The goroutines at work.                                                 *)
(***************************************************************************)

\* The snapshot stays as it is.
LEMMA SnapshotKept ==
  ASSUME IInv, UNCHANGED aimVars, caller' = caller \/ caller' = "returned"
  PROVE  IsInjective(matched') /\ (Taking => SnapshotInv)'
<1>1. UNCHANGED <<request, registered, before, pos, total, seen, unseen, matched>>
  BY DEF aimVars, pickVars
<1>2. CASE Taking'
  <2>1. caller' = caller /\ Taking
    BY <1>2 DEF Taking
  <2>2. SnapshotInv /\ IsInjective(matched)
    BY <2>1 DEF IInv
  <2> QED BY <1>1, <2>1, <2>2 DEF SnapshotInv, Targets, Stayed, More
<1>3. CASE ~Taking'
  BY <1>1, <1>3 DEF IInv
<1> QED BY <1>2, <1>3

\* A step that neither starts a worker nor moves a connection between the places in
\* which ResultsAddUp looks for it.
LEMMA PlacesKept ==
  ASSUME IInv, UNCHANGED <<aimVars, todo, offered, hand, results, succeeded, failed>>,
         Started' = Started, producer # "none" \/ producer' = "none"
  PROVE  TailInv' /\ Capacity' /\ ResultsAddUp'
<1>1. UNCHANGED matched /\ Held' = Held
  BY DEF aimVars, pickVars, Held
<1> QED BY <1>1 DEF IInv, TailInv, Capacity, ResultsAddUp

LEMMA CancelKeeps ==
  ASSUME IInv, cancel
  PROVE  IInv'
<1>1. UNCHANGED <<mode, aimVars, caller, jobVars, workVars, resultVars, countVars, released>> /\ ctxDone' = TRUE
  BY DEF cancel
<1>2. Types'
  BY <1>1 DEF IInv, Types, aimVars, pickVars, jobVars, workVars, resultVars, countVars
<1>3. PhaseInv' /\ Started' = Started
  BY <1>1 DEF IInv, PhaseInv, Taking, WorkersDone, Started, jobVars, workVars, resultVars, countVars
<1>4. \A w \in Workers : WorkerInv(w)'
  BY <1>1 DEF IInv, WorkerInv, workVars
<1>5. TailInv' /\ Capacity' /\ ResultsAddUp'
  BY <1>1, <1>3, PlacesKept DEF jobVars, workVars, resultVars, countVars
<1> QED BY <1>1, <1>2, <1>3, <1>4, <1>5, SnapshotKept DEF IInv

LEMMA RangeNextKeeps ==
  ASSUME IInv, rangeNext
  PROVE  IInv'
<1>1. /\ Types /\ PhaseInv /\ TailInv /\ Capacity /\ ResultsAddUp /\ producer = "range" /\ todo # <<>>
      /\ offered = None
  BY DEF IInv, rangeNext, PhaseInv
<1>2. /\ UNCHANGED <<mode, ctxDone, aimVars, caller, jobsClosed, workVars, resultVars, countVars, released>>
      /\ todo' = Tail(todo) /\ offered' = Head(todo) /\ producer' = "offer"
  BY DEF rangeNext
<1>3. /\ Head(todo) \in Conns /\ Tail(todo) \in Seq(Conns) /\ Len(Tail(todo)) = Len(todo) - 1
      /\ \A i \in 1 .. Len(Tail(todo)) : Tail(todo)[i] = todo[i + 1]
  BY <1>1, HeadTailProperties DEF Types
<1>4. offered' \in Conns /\ offered' # None
  BY <1>2, <1>3, BatchConstants
<1>5. Types'
  BY <1>1, <1>2, <1>3, <1>4 DEF Types, aimVars, pickVars, workVars, resultVars, countVars
<1>6. PhaseInv' /\ Started' = Started
  BY <1>1, <1>2, <1>4 DEF PhaseInv, Taking, WorkersDone, Started, workVars, resultVars, countVars
<1>7. \A w \in Workers : WorkerInv(w)'
  BY <1>2 DEF IInv, WorkerInv, workVars
<1>8. UNCHANGED matched
  BY <1>2 DEF aimVars, pickVars
<1>9. TailInv'
  <2> DEFINE n == Len(todo)
             m == Len(matched)
  <2>1. n \in Nat /\ m \in Nat /\ n <= m /\ Len(todo') = n - 1
    BY <1>1, <1>2, <1>3, Counts DEF TailInv
  <2>2. ASSUME NEW i \in 1 .. n - 1 PROVE todo'[i] = matched[i + (m - (n - 1))]
    <3>1. todo'[i] = todo[i + 1]
      BY <1>2, <1>3
    <3>2. i + 1 \in 1 .. n /\ (i + 1) + (m - n) = i + (m - (n - 1))
      BY <2>1
    <3>3. todo[i + 1] = matched[(i + 1) + (m - n)]
      BY <1>1, <3>2 DEF TailInv
    <3> QED BY <3>1, <3>2, <3>3
  <2> HIDE DEF n, m
  <2>3. Len(matched') = m
    BY <1>8 DEF m
  <2> QED BY <1>8, <2>1, <2>2, <2>3 DEF TailInv
<1>10. Capacity'
  BY <1>1, <1>2, <1>6 DEF Capacity, resultVars
<1>11. ResultsAddUp'
  <2>1. Held' = Held /\ results' = results /\ succeeded' = succeeded /\ failed' = failed
    BY <1>2 DEF Held, workVars, resultVars, countVars
  <2>2. Cardinality({offered} \ {None}) = 0 /\ Cardinality({offered'} \ {None}) = 1
    BY <1>1, <1>4, OneOrNone
  <2>3. Len(todo') = Len(todo) - 1
    BY <1>2, <1>3
  <2> QED BY <1>1, <1>8, <2>1, <2>2, <2>3, Counts DEF ResultsAddUp
<1> QED BY <1>2, <1>5, <1>6, <1>7, <1>9, <1>10, <1>11, SnapshotKept DEF IInv

LEMMA HandOverKeeps ==
  ASSUME IInv, NEW w \in Workers, handOver(w)
  PROVE  IInv'
<1>1. /\ Types /\ PhaseInv /\ TailInv /\ Capacity /\ ResultsAddUp /\ (\A v \in Workers : WorkerInv(v))
      /\ producer = "offer" /\ worker[w] = "idle" /\ offered # None
  BY DEF IInv, handOver, PhaseInv
<1>2. /\ UNCHANGED <<mode, ctxDone, aimVars, caller, todo, jobsClosed, outcome, resultVars, countVars, released>>
      /\ worker' = [worker EXCEPT ![w] = "busy"] /\ hand' = [hand EXCEPT ![w] = offered]
      /\ producer' = "range" /\ offered' = None
  BY DEF handOver
<1>3. Types'
  BY <1>1, <1>2 DEF Types, aimVars, pickVars, resultVars, countVars
<1>4. Started' = Started /\ \A v \in Workers : WorkerInv(v)'
  BY <1>1, <1>2 DEF Types, Started, WorkerInv
<1>5. PhaseInv'
  BY <1>1, <1>2 DEF PhaseInv, Taking, resultVars, countVars
<1>6. UNCHANGED matched
  BY <1>2 DEF aimVars, pickVars
<1>7. TailInv' /\ Capacity'
  BY <1>1, <1>2, <1>4, <1>6 DEF TailInv, Capacity, resultVars
<1>8. ResultsAddUp'
  <2>1. w \notin Held /\ Held' = Held \cup {w}
    BY <1>1, <1>2 DEF Held, WorkerInv, Types
  <2>2. Cardinality(Held') = Cardinality(Held) + 1
    BY <1>1, <2>1, Counts, FS_AddElement
  <2>3. Cardinality({offered} \ {None}) = 1 /\ Cardinality({offered'} \ {None}) = 0
    BY <1>1, <1>2, OneOrNone
  <2>4. todo' = todo /\ results' = results /\ succeeded' = succeeded /\ failed' = failed
    BY <1>2 DEF resultVars, countVars
  <2> QED BY <1>1, <1>6, <2>2, <2>3, <2>4, Counts DEF ResultsAddUp
<1> QED BY <1>2, <1>3, <1>4, <1>5, <1>7, <1>8, SnapshotKept DEF IInv

LEMMA RejectKeeps ==
  ASSUME IInv, reject
  PROVE  IInv'
<1>1. /\ Types /\ PhaseInv /\ TailInv /\ Capacity /\ ResultsAddUp /\ producer = "reject" /\ offered # None
      /\ Len(results) < Cardinality(Started)
  BY DEF IInv, reject, PhaseInv, ResultsRoom
<1>2. /\ UNCHANGED <<mode, ctxDone, aimVars, caller, todo, jobsClosed, workVars, resultsClosed, countVars, released>>
      /\ results' = Append(results, "error") /\ producer' = "range" /\ offered' = None
  BY DEF reject
<1>3. results' \in Seq({"nil", "error"}) /\ Len(results') = Len(results) + 1
  BY <1>1, <1>2, AppendProperties DEF Types
<1>4. Types'
  BY <1>1, <1>2, <1>3 DEF Types, aimVars, pickVars, workVars, countVars
<1>5. PhaseInv' /\ Started' = Started
  BY <1>1, <1>2 DEF PhaseInv, Taking, Started, workVars, countVars
<1>6. \A w \in Workers : WorkerInv(w)'
  BY <1>2 DEF IInv, WorkerInv, workVars
<1>7. UNCHANGED matched
  BY <1>2 DEF aimVars, pickVars
<1>8. TailInv' /\ Capacity'
  BY <1>1, <1>2, <1>3, <1>5, <1>7, Counts DEF TailInv, Capacity
<1>9. ResultsAddUp'
  <2>1. Held' = Held /\ todo' = todo /\ succeeded' = succeeded /\ failed' = failed
    BY <1>2 DEF Held, workVars, countVars
  <2>2. Cardinality({offered} \ {None}) = 1 /\ Cardinality({offered'} \ {None}) = 0
    BY <1>1, <1>2, OneOrNone
  <2> QED BY <1>1, <1>3, <1>7, <2>1, <2>2, Counts DEF ResultsAddUp
<1> QED BY <1>2, <1>4, <1>5, <1>6, <1>8, <1>9, SnapshotKept DEF IInv

\* giveUp, closeJobs and closeResults: the producer moves on without a connection.
LEMMA ProducerMovesKeeps ==
  ASSUME IInv, giveUp \/ closeJobs \/ closeResults
  PROVE  IInv'
<1>1. Types /\ PhaseInv
  BY DEF IInv
<1>2. /\ UNCHANGED <<mode, ctxDone, aimVars, caller, todo, offered, workVars, results, countVars, released>>
      /\ jobsClosed' \in BOOLEAN /\ resultsClosed' \in BOOLEAN
      /\ \/ producer = "offer" /\ producer' = "reject" /\ UNCHANGED resultsClosed
         \/ producer = "range" /\ producer' = "wait" /\ UNCHANGED resultsClosed
         \/ producer = "wait" /\ producer' = "done" /\ resultsClosed' = TRUE /\ WorkersDone
  BY <1>1 DEF giveUp, closeJobs, closeResults, jobVars, resultVars, Types
<1>3. Types'
  BY <1>1, <1>2 DEF Types, aimVars, pickVars, workVars, countVars
<1>4. Started' = Started /\ (WorkersDone' <=> WorkersDone)
  BY <1>2 DEF Started, WorkersDone, workVars
<1>5. PhaseInv'
  BY <1>1, <1>2, <1>4 DEF PhaseInv, Taking, workVars, countVars
<1>6. \A w \in Workers : WorkerInv(w)'
  BY <1>2 DEF IInv, WorkerInv, workVars
<1>7. TailInv' /\ Capacity' /\ ResultsAddUp'
  BY <1>2, <1>4, PlacesKept DEF workVars, countVars
<1> QED BY <1>2, <1>3, <1>5, <1>6, <1>7, SnapshotKept DEF IInv

LEMMA WorkKeeps ==
  ASSUME IInv, NEW w \in Workers, work(w) \/ workerEnds(w)
  PROVE  IInv'
<1>1. Types /\ PhaseInv /\ \A v \in Workers : WorkerInv(v)
  BY DEF IInv
<1>2. /\ UNCHANGED <<mode, ctxDone, aimVars, caller, jobVars, hand, resultVars, countVars, released>>
      /\ \/ /\ worker[w] = "busy" /\ worker' = [worker EXCEPT ![w] = "report"]
            /\ \E res \in {"nil", "error"} : outcome' = [outcome EXCEPT ![w] = res]
         \/ worker[w] = "idle" /\ worker' = [worker EXCEPT ![w] = "done"] /\ UNCHANGED outcome
  BY DEF work, workerEnds
<1>3. Types'
  <2>1. /\ worker' \in [Workers -> {"none", "idle", "busy", "report", "done"}]
        /\ outcome' \in [Workers -> {"none", "nil", "error"}]
    BY <1>1, <1>2 DEF Types
  <2> QED BY <1>1, <1>2, <2>1 DEF Types, aimVars, pickVars, jobVars, resultVars, countVars
<1>4. Started' = Started /\ \A v \in Workers : WorkerInv(v)'
  BY <1>1, <1>2 DEF Types, Started, WorkerInv
<1>5. producer \notin {"none", "done"}
  BY <1>1, <1>2 DEF PhaseInv, WorkersDone, Started
<1>6. PhaseInv'
  BY <1>1, <1>2, <1>5 DEF PhaseInv, Taking, jobVars, resultVars, countVars
<1>7. TailInv' /\ Capacity' /\ ResultsAddUp'
  BY <1>2, <1>4, <1>5, PlacesKept DEF jobVars, resultVars, countVars
<1> QED BY <1>2, <1>3, <1>4, <1>6, <1>7, SnapshotKept DEF IInv

LEMMA ReportKeeps ==
  ASSUME IInv, NEW w \in Workers, report(w)
  PROVE  IInv'
<1>1. /\ Types /\ PhaseInv /\ TailInv /\ Capacity /\ ResultsAddUp /\ (\A v \in Workers : WorkerInv(v))
      /\ worker[w] = "report" /\ Len(results) < Cardinality(Started)
  BY DEF IInv, report, ResultsRoom
<1>2. /\ UNCHANGED <<mode, ctxDone, aimVars, caller, jobVars, resultsClosed, countVars, released>>
      /\ results' = Append(results, outcome[w]) /\ worker' = [worker EXCEPT ![w] = "idle"]
      /\ hand' = [hand EXCEPT ![w] = None] /\ outcome' = [outcome EXCEPT ![w] = "none"]
  BY DEF report
<1>3. results' \in Seq({"nil", "error"}) /\ Len(results') = Len(results) + 1
  <2>1. outcome[w] \in {"nil", "error"}
    BY <1>1 DEF Types, WorkerInv
  <2> QED BY <1>1, <1>2, <2>1, AppendProperties DEF Types
<1>4. Types'
  BY <1>1, <1>2, <1>3 DEF Types, aimVars, pickVars, jobVars, countVars
<1>5. Started' = Started /\ \A v \in Workers : WorkerInv(v)'
  BY <1>1, <1>2 DEF Types, Started, WorkerInv
<1>6. producer \notin {"none", "done"}
  BY <1>1 DEF PhaseInv, WorkersDone, Started
<1>7. PhaseInv'
  BY <1>1, <1>2, <1>6 DEF PhaseInv, Taking, jobVars, countVars
<1>8. UNCHANGED matched
  BY <1>2 DEF aimVars, pickVars
<1>9. TailInv' /\ Capacity'
  BY <1>1, <1>2, <1>3, <1>5, <1>8, Counts DEF TailInv, Capacity, jobVars
<1>10. ResultsAddUp'
  <2>1. w \in Held /\ Held' = Held \ {w}
    BY <1>1, <1>2 DEF Held, WorkerInv, Types
  <2>2. Cardinality(Held') = Cardinality(Held) - 1
    BY <1>1, <2>1, Counts, FS_RemoveElement
  <2>3. todo' = todo /\ offered' = offered /\ succeeded' = succeeded /\ failed' = failed
    BY <1>2 DEF jobVars, countVars
  <2> QED BY <1>1, <1>3, <1>6, <1>8, <2>2, <2>3, Counts DEF ResultsAddUp
<1> QED BY <1>2, <1>4, <1>5, <1>7, <1>9, <1>10, SnapshotKept DEF IInv

LEMMA CountKeeps ==
  ASSUME IInv, count
  PROVE  IInv'
<1>1. /\ Types /\ PhaseInv /\ TailInv /\ Capacity /\ ResultsAddUp /\ caller = "counting" /\ results # <<>>
      /\ producer # "none"
  BY DEF IInv, count, PhaseInv
<1>2. /\ UNCHANGED <<mode, ctxDone, aimVars, caller, jobVars, workVars, resultsClosed, released>>
      /\ results' = Tail(results)
      /\ \/ succeeded' = succeeded + 1 /\ UNCHANGED <<failed, samples>>
         \/ /\ failed' = failed + 1 /\ UNCHANGED succeeded
            /\ samples' = IF samples < maxSendErrorSamples THEN samples + 1 ELSE samples
  BY DEF count
<1>3. results' \in Seq({"nil", "error"}) /\ Len(results') = Len(results) - 1
  BY <1>1, <1>2, HeadTailProperties DEF Types
<1>4. Types'
  <2>1. succeeded' \in Nat /\ failed' \in Nat /\ samples' \in 0 .. maxSendErrorSamples
    BY <1>1, <1>2, BatchConstants DEF Types
  <2> QED BY <1>1, <1>2, <1>3, <2>1 DEF Types, aimVars, pickVars, jobVars, workVars
<1>5. PhaseInv' /\ Started' = Started
  BY <1>1, <1>2 DEF PhaseInv, Taking, WorkersDone, Started, jobVars, workVars
<1>6. \A w \in Workers : WorkerInv(w)'
  BY <1>2 DEF IInv, WorkerInv, workVars
<1>7. UNCHANGED <<matched, todo, offered>> /\ Held' = Held
  BY <1>2 DEF aimVars, pickVars, jobVars, Held, workVars
<1>8. TailInv' /\ Capacity'
  BY <1>1, <1>3, <1>5, <1>7, Counts DEF TailInv, Capacity
<1>9. ResultsAddUp'
  <2> DEFINE o == Cardinality({offered} \ {None})
             h == Cardinality(Held)
  <2>1. /\ succeeded \in Nat /\ failed \in Nat /\ o \in Nat /\ h \in Nat
        /\ Len(todo) \in Nat /\ Len(results) \in Nat
    BY <1>1, Counts
  <2>2. succeeded' + failed' = succeeded + failed + 1 /\ succeeded' \in Nat /\ failed' \in Nat
    BY <1>2, <2>1
  <2>3. Len(matched) = Len(todo) + o + h + Len(results) + succeeded + failed
    BY <1>1 DEF ResultsAddUp
  <2>4. o' = o /\ h' = h /\ matched' = matched /\ todo' = todo
    BY <1>7
  <2> HIDE DEF o, h
  <2>5. Len(matched) = Len(todo) + o + h + Len(results') + succeeded' + failed'
    <3> DEFINE n == Len(results)
               a == Len(todo) + o + h
               s == succeeded'
               f == failed'
    <3>1. a \in Nat /\ n \in Nat /\ Len(results') = n - 1 /\ s \in Nat /\ f \in Nat
      BY <1>3, <2>1, <2>2
    <3>2. Len(matched) = a + n + succeeded + failed /\ s + f = succeeded + failed + 1
      BY <2>2, <2>3
    <3> HIDE DEF a, n, s, f
    <3>3. Len(matched) = a + (n - 1) + s + f
      BY <2>1, <3>1, <3>2
    <3> QED BY <3>1, <3>3 DEF a, s, f
  <2>6. Len(matched') = Len(todo') + o' + h' + Len(results') + succeeded' + failed'
    BY <2>4, <2>5
  <2> QED BY <2>6 DEF ResultsAddUp, o, h
<1> QED BY <1>2, <1>4, <1>5, <1>6, <1>8, <1>9, SnapshotKept DEF IInv

LEMMA ReleaseKeeps ==
  ASSUME IInv, release
  PROVE  IInv'
<1>1. Types /\ PhaseInv /\ resultsClosed /\ caller = "counting"
  BY DEF IInv, release, AllResults
<1>2. /\ UNCHANGED <<mode, ctxDone, aimVars, jobVars, workVars, resultVars, countVars>>
      /\ caller' = "returned" /\ released' = TRUE
  BY DEF release
<1>3. Types'
  BY <1>1, <1>2 DEF Types, aimVars, pickVars, jobVars, workVars, resultVars, countVars
<1>4. PhaseInv' /\ Started' = Started
  BY <1>1, <1>2 DEF PhaseInv, Taking, WorkersDone, Started, jobVars, workVars, resultVars, countVars
<1>5. \A w \in Workers : WorkerInv(w)'
  BY <1>2 DEF IInv, WorkerInv, workVars
<1>6. TailInv' /\ Capacity' /\ ResultsAddUp'
  BY <1>2, <1>4, PlacesKept DEF jobVars, workVars, resultVars, countVars
<1> QED BY <1>2, <1>3, <1>4, <1>5, <1>6, SnapshotKept DEF IInv
-----------------------------------------------------------------------------
LEMMA IInvInit == Init => IInv
<1> SUFFICES ASSUME Init PROVE IInv
  OBVIOUS
<1>1. Types
  <2>1. request \in [by : {"ids", "users", "set"}, keys : Seq(Keys \cup {None})]
    BY BatchConstants DEF Init
  <2>2. pos \in 1 .. Len(request.keys) + 1
    BY <2>1, LenProperties DEF Init
  <2>3. matched \in Seq(Conns) /\ todo \in Seq(Conns) /\ results \in Seq({"nil", "error"})
    BY EmptySeq DEF Init
  <2>4. samples \in 0 .. maxSendErrorSamples
    BY BatchConstants DEF Init
  <2> QED BY <2>1, <2>2, <2>3, <2>4 DEF Init, Types
<1>2. PhaseInv /\ \A w \in Workers : WorkerInv(w)
  BY DEF Init, PhaseInv, WorkerInv, WorkersDone, Started
<1>3. TailInv /\ ResultsAddUp /\ IsInjective(matched) /\ Range(matched) = {}
  BY EmptySeq DEF Init, TailInv, ResultsAddUp, IsInjective, Range
<1>4. Capacity
  BY <1>1, Counts, EmptySeq DEF Init, Capacity
<1>5. SnapshotInv
  BY <1>3 DEF Init, SnapshotInv
<1> QED BY <1>1, <1>2, <1>3, <1>4, <1>5 DEF IInv

LEMMA IInvNext == IInv /\ [Next]_vars => IInv'
<1> SUFFICES ASSUME IInv, [Next]_vars PROVE IInv'
  OBVIOUS
<1>1. CASE ProducerStep
  BY <1>1, RangeNextKeeps, HandOverKeeps, RejectKeeps, ProducerMovesKeeps DEF ProducerStep
<1>2. CASE SnapshotStep
  BY <1>2, CallKeeps, CountUserKeeps, CountedUsersKeeps, LookUpKeeps, BeginRangeKeeps, EndRangeKeeps,
     VisitKeeps DEF SnapshotStep
<1>3. CASE CallerStep
  BY <1>2, <1>3, RefuseKeeps, StartKeeps, CountKeeps, ReleaseKeeps DEF CallerStep
<1>4. ASSUME NEW w \in Workers, WorkerStep(w) PROVE IInv'
  BY <1>4, WorkKeeps, ReportKeeps DEF WorkerStep
<1>5. CASE UNCHANGED vars
  <2>1. /\ UNCHANGED <<mode, ctxDone, caller, aimVars, jobVars, workVars, resultVars, countVars, released>>
        /\ UNCHANGED <<request, registered, before, pos, total, seen, unseen, matched>>
    BY <1>5 DEF vars, aimVars, pickVars
  <2>2. Types' /\ PhaseInv' /\ Started' = Started /\ \A w \in Workers : WorkerInv(w)'
    BY <2>1 DEF IInv, Types, PhaseInv, Taking, WorkersDone, Started, WorkerInv, jobVars, workVars,
                resultVars, countVars
  <2>3. TailInv' /\ Capacity' /\ ResultsAddUp'
    BY <2>1, <2>2, PlacesKept DEF jobVars, workVars, resultVars, countVars
  <2> QED BY <2>1, <2>2, <2>3, SnapshotKept DEF IInv
<1> QED BY <1>1, <1>3, <1>4, <1>5, CancelKeeps, ChangeKeeps DEF Next

LEMMA IInvHolds == Spec => []IInv
BY IInvInit, IInvNext, PTL DEF Spec
-----------------------------------------------------------------------------
\* Every variable keeps its type, the producer reads the slice from its front to its end,
\* and results never holds more than one result of every worker.
THEOREM BatchTypes == Spec => []TypeOK
<1>1. IInv => TypeOK
  BY TypesComplete DEF IInv
<1> QED BY <1>1, IInvHolds, PTL

\* Neither a worker nor the producer sends on results after it was closed.
THEOREM ClosedChannelUnused == Spec => []NoSendOnClosedChannel
<1>1. IInv => NoSendOnClosedChannel
  BY DEF IInv, PhaseInv, WorkersDone, Started, NoSendOnClosedChannel
<1> QED BY <1>1, IInvHolds, PTL

\* The pooled slice is released only when the producer goroutine has read it to its end.
THEOREM SliceUnreadAfterRelease == Spec => []NoReadAfterRelease
<1>1. IInv => NoReadAfterRelease
  BY DEF IInv, PhaseInv, NoReadAfterRelease
<1> QED BY <1>1, IInvHolds, PTL

\* Sent (or Closed) and Failed add up to Matched: a matched connection is always in
\* exactly one place on its way to being counted.
THEOREM EveryMatchIsCounted == Spec => []ResultsAddUp
<1>1. IInv => ResultsAddUp
  BY DEF IInv
<1> QED BY <1>1, IInvHolds, PTL

\* The snapshot of ids, users, a group or all connections names each connection once, only
\* those asked for, and all of those that stayed registered while it was taken.
THEOREM SnapshotIsExact == Spec => []SnapshotExact
<1>1. IInv => SnapshotExact
  <2> SUFFICES ASSUME IInv, Taken
               PROVE  /\ Range(matched) \subseteq Targets
                      /\ Targets \cap before \cap registered \subseteq Range(matched)
    BY DEF IInv, SnapshotExact
  <2>1. Types /\ Taking /\ SnapshotInv /\ caller = "next" /\ ~More
    BY DEF IInv, Taken, Taking
  <2>2. pos = Len(request.keys) + 1 /\ Len(request.keys) \in Nat
    BY <2>1, LenProperties DEF Types, More
  <2>3. DOMAIN request.keys = 1 .. Len(request.keys)
    BY <2>1, LenProperties DEF Types
  <2>4. ASSUME NEW c \in Targets \cap before \cap registered PROVE c \in seen
    <3>1. PICK k \in Range(request.keys) \ {None} : c \in MembersOf[k]
      BY DEF Targets
    <3>2. PICK i \in 1 .. Len(request.keys) : request.keys[i] = k
      BY <2>3, <3>1 DEF Range
    <3>3. c \in Stayed(i)
      BY <2>4, <3>1, <3>2 DEF Stayed
    <3>4. i \in 1 .. pos - 1
      BY <2>2
    <3> QED BY <2>1, <3>3, <3>4 DEF SnapshotInv
  <2> QED BY <2>1, <2>4 DEF SnapshotInv
<1> QED BY <1>1, IInvHolds, PTL
=============================================================================
