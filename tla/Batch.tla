------------------------------- MODULE Batch --------------------------------
(***************************************************************************)
(* One batch send or batch close (batch_send.go, batch_close.go) and the   *)
(* snapshot it works on (registry.go): the calling goroutine collects the  *)
(* connections of ids, users, a group or all while the registry changes; a *)
(* producer goroutine hands them to a bounded number of workers over an    *)
(* unbuffered channel; the caller counts their results and gives the slice *)
(* back to the pool.  SendRaw is the subject of Connection and here        *)
(* returns nil or an error; how the indexes follow the registry is that of *)
(* Registry, here a connection is in all its sets or in none.              *)
(***************************************************************************)
EXTENDS Naturals, FiniteSets, SequencesExt

CONSTANTS
  Conns,               \* the connections of the handler
  Workers,             \* one per unit of h.sendConcurrency, normalized to > 0
  maxSendErrorSamples, \* errors kept for the joined error
  Keys,                \* connection ids, user ids, groups, and the one of all connections
  MembersOf,           \* the connections of each key while they are registered
  Requests,            \* calls: what is named, "ids", "users" or "set", and the keys
  None                 \* no connection; as a key, the empty string

ASSUME BatchConstants ==
  /\ IsFiniteSet(Conns) /\ IsFiniteSet(Workers) /\ Workers # {}
  /\ maxSendErrorSamples \in Nat /\ None \notin Conns \cup Keys
  /\ MembersOf \in [Keys -> SUBSET Conns]
  /\ Requests \subseteq [by : {"ids", "users", "set"}, keys : Seq(Keys \cup {None})]
  /\ \A r \in Requests : /\ r.by = "ids" => \A k \in Range(r.keys) \ {None} : Cardinality(MembersOf[k]) = 1
                         /\ r.by = "set" => Len(r.keys) = 1

VARIABLES
  mode,          \* "send" or "close"
  ctxDone,       \* the caller's context is done
  request,       \* what the call names
  registered,    \* the connections that are registered
  before,        \* history: those that were when the call began
  caller,        \* the calling goroutine: "called", "total", "next", "range", "counting", "returned"
  pos,           \* the key it is at
  total,         \* userSnapshotPooled: connections counted
  seen,          \* keys of connections looked at
  unseen,        \* connections the Range under way will still come to
  matched,       \* the slice of the snapshot
  todo,          \* what the producer has not taken from the slice yet
  producer,      \* "none", "range", "offer", "reject", "wait", "done"
  offered,       \* the connection the producer has taken last
  worker,        \* each worker: "none", "idle", "busy", "report", "done"
  hand,          \* the connection each worker works on
  outcome,       \* the result each worker is about to report
  jobsClosed,    \* jobs is closed
  results,       \* contents of the buffered channel results
  resultsClosed, \* results is closed
  succeeded,     \* result.Sent or result.Closed
  failed,        \* result.Failed
  samples,       \* len(samples)
  released       \* the slice is back in the pool

jobVars == <<todo, producer, offered, jobsClosed>>
workVars == <<worker, hand, outcome>>
resultVars == <<results, resultsClosed>>
countVars == <<succeeded, failed, samples>>
pickVars == <<pos, total, seen, unseen, matched>>
aimVars == <<request, registered, before, pickVars>>
vars == <<mode, ctxDone, request, registered, before, caller, pickVars, jobVars, workVars, resultVars,
          countVars, released>>

Init ==
  /\ mode \in {"send", "close"} /\ ctxDone = FALSE
  /\ request \in Requests /\ (mode = "close" => request.by # "set")
  /\ registered \in SUBSET Conns /\ before = registered
  /\ caller = "called" /\ pos = 1 /\ total = 0 /\ seen = {} /\ unseen = {}
  /\ matched = <<>> /\ todo = <<>>
  /\ producer = "none" /\ offered = None
  /\ worker = [w \in Workers |-> "none"]
  /\ hand = [w \in Workers |-> None] /\ outcome = [w \in Workers |-> "none"]
  /\ jobsClosed = FALSE /\ results = <<>> /\ resultsClosed = FALSE
  /\ succeeded = 0 /\ failed = 0 /\ samples = 0
  /\ released = FALSE

Started == {w \in Workers : worker[w] # "none"}

\* Mutant: results takes any number of results.
ResultsRoom_Unbounded == TRUE

\* results is made with room for one result of every worker.
ResultsRoom == Len(results) < Cardinality(Started)
-----------------------------------------------------------------------------
\* prepareBatchPayload fails: no codec, an invalid frame or too large a payload.
refuseInvalid ==
  /\ caller = "called" /\ mode = "send"
  /\ caller' = "returned"
  /\ UNCHANGED <<mode, ctxDone, aimVars, jobVars, workVars, resultVars, countVars, released>>

\* The handler is shutting down.
refuseShuttingDown ==
  /\ caller = "called"
  /\ caller' = "returned"
  /\ UNCHANGED <<mode, ctxDone, aimVars, jobVars, workVars, resultVars, countVars, released>>

-----------------------------------------------------------------------------
(***************************************************************************)
(* The snapshot.                                                           *)
(***************************************************************************)
Taking == caller \in {"called", "total", "next", "range"}

\* Connections come and go; one that was there before does not come back.  The call does
\* not see what happens later.
change(c) ==
  /\ Taking
  /\ \/ c \notin before \cup registered /\ registered' = registered \cup {c}
     \/ c \in registered /\ registered' = registered \ {c}
  /\ UNCHANGED <<mode, ctxDone, request, before, caller, pickVars, jobVars, workVars, resultVars,
                 countVars, released>>

Key == request.keys[pos]
More == pos <= Len(request.keys)

\* Only a list of users is gone through twice.
call ==
  /\ caller = "called"
  /\ caller' = IF request.by = "users" /\ Len(request.keys) > 1 THEN "total" ELSE "next"
  /\ UNCHANGED <<mode, ctxDone, request, registered, before, pickVars, jobVars, workVars, resultVars,
                 countVars, released>>

countUser ==
  /\ caller = "total" /\ More
  /\ total' = total + (IF Key = None THEN 0 ELSE Cardinality(MembersOf[Key] \cap registered))
  /\ pos' = pos + 1
  /\ UNCHANGED <<mode, ctxDone, request, registered, before, caller, seen, unseen, matched, jobVars,
                 workVars, resultVars, countVars, released>>

\* Mutant: the first user without connections ends the snapshot.
NothingToSend_AnyEmpty == total < Len(request.keys)

NothingToSend == total = 0

countedUsers ==
  /\ caller = "total" /\ ~More
  /\ pos' = IF NothingToSend THEN pos ELSE 1
  /\ caller' = "next"
  /\ UNCHANGED <<mode, ctxDone, request, registered, before, total, seen, unseen, matched, jobVars,
                 workVars, resultVars, countVars, released>>

\* Mutant: keys named twice are taken twice.
Fresh_Always(cs) == cs

Fresh(cs) == cs \ seen

\* connectionSnapshotPooled: one id.
lookUp ==
  /\ caller = "next" /\ More /\ request.by = "ids"
  /\ LET cs == IF Key = None THEN {} ELSE Fresh(MembersOf[Key]) IN
       /\ seen' = seen \cup cs
       /\ matched' = matched \o SetToSeq(cs \cap registered)
  /\ pos' = pos + 1
  /\ UNCHANGED <<mode, ctxDone, request, registered, before, caller, total, unseen, jobVars,
                 workVars, resultVars, countVars, released>>

\* The Range over the set of a user, a group or the registry begins.
beginRange ==
  /\ caller = "next" /\ More /\ request.by # "ids"
  /\ caller' = "range"
  /\ unseen' = IF Key = None THEN {} ELSE Fresh(MembersOf[Key] \cap registered)
  /\ UNCHANGED <<mode, ctxDone, request, registered, before, pos, total, seen, matched, jobVars,
                 workVars, resultVars, countVars, released>>

\* It comes to every connection that stays, to some that come late, to none twice.
visit(c) ==
  /\ caller = "range" /\ Key # None /\ c \in Fresh(MembersOf[Key] \cap registered)
  /\ matched' = Append(matched, c)
  /\ seen' = seen \cup {c} /\ unseen' = unseen \ {c}
  /\ UNCHANGED <<mode, ctxDone, request, registered, before, caller, pos, total, jobVars,
                 workVars, resultVars, countVars, released>>

endRange ==
  /\ caller = "range" /\ unseen \cap registered = {}
  /\ caller' = "next" /\ pos' = pos + 1 /\ unseen' = {}
  /\ UNCHANGED <<mode, ctxDone, request, registered, before, total, seen, matched, jobVars,
                 workVars, resultVars, countVars, released>>

Taken == caller = "next" /\ ~More

\* sendConnections, closeConnections: nothing matched, or the workers and the producer.
\* What the snapshot was taken from is forgotten.
start ==
  /\ Taken
  /\ \/ /\ matched = <<>>
        /\ caller' = "returned" /\ released' = TRUE
        /\ UNCHANGED <<todo, producer, worker>>
     \/ /\ matched # <<>>
        /\ caller' = "counting"
        /\ todo' = matched /\ producer' = "range"
        /\ \E ws \in kSubset(Min({Cardinality(Workers), Len(matched)}), Workers) :
             worker' = [w \in Workers |-> IF w \in ws THEN "idle" ELSE "none"]
        /\ UNCHANGED released
  /\ registered' = {} /\ before' = {} /\ seen' = {} /\ total' = 0
  /\ request' = [request EXCEPT !.keys = <<>>] /\ pos' = 1
  /\ UNCHANGED <<mode, ctxDone, unseen, matched, offered, jobsClosed, hand, outcome, resultVars,
                 countVars>>

cancel ==
  /\ ~ctxDone /\ ctxDone' = TRUE
  /\ UNCHANGED <<mode, aimVars, caller, jobVars, workVars, resultVars, countVars, released>>
-----------------------------------------------------------------------------
(***************************************************************************)
(* The producer goroutine.                                                 *)
(***************************************************************************)
rangeNext ==
  /\ producer = "range" /\ todo # <<>>
  /\ todo' = Tail(todo) /\ offered' = Head(todo)
  /\ producer' = "offer"
  /\ UNCHANGED <<mode, ctxDone, aimVars, caller, jobsClosed, workVars, resultVars, countVars, released>>

\* jobs <- conn, received by an idle worker.
handOver(w) ==
  /\ producer = "offer" /\ worker[w] = "idle"
  /\ worker' = [worker EXCEPT ![w] = "busy"] /\ hand' = [hand EXCEPT ![w] = offered]
  /\ producer' = "range" /\ offered' = None
  /\ UNCHANGED <<mode, ctxDone, aimVars, caller, todo, jobsClosed, outcome, resultVars, countVars, released>>

\* Only a batch close looks at the context here; when a worker is idle too, the
\* select takes either branch.
giveUp ==
  /\ producer = "offer" /\ mode = "close" /\ ctxDone
  /\ producer' = "reject"
  /\ UNCHANGED <<mode, ctxDone, aimVars, caller, todo, offered, jobsClosed, workVars, resultVars,
                 countVars, released>>

\* Mutant: a connection the producer gives up is not reported.
reject_Silent ==
  /\ producer = "reject"
  /\ producer' = "range" /\ offered' = None
  /\ UNCHANGED <<mode, ctxDone, aimVars, caller, todo, jobsClosed, workVars, resultVars, countVars, released>>

reject ==
  /\ producer = "reject" /\ ResultsRoom
  /\ results' = Append(results, "error")
  /\ producer' = "range" /\ offered' = None
  /\ UNCHANGED <<mode, ctxDone, aimVars, caller, todo, jobsClosed, workVars, resultsClosed, countVars, released>>

\* Mutant: jobs is left open.
closeJobs_Missing ==
  /\ producer = "range" /\ todo = <<>>
  /\ producer' = "wait"
  /\ UNCHANGED <<mode, ctxDone, aimVars, caller, todo, offered, jobsClosed, workVars, resultVars,
                 countVars, released>>

closeJobs ==
  /\ producer = "range" /\ todo = <<>>
  /\ jobsClosed' = TRUE
  /\ producer' = "wait"
  /\ UNCHANGED <<mode, ctxDone, aimVars, caller, todo, offered, workVars, resultVars, countVars, released>>

\* Mutant: results is closed as soon as jobs is.
WorkersDone_NotAwaited == TRUE

\* wg.Wait returns.
WorkersDone == \A w \in Started : worker[w] = "done"

closeResults ==
  /\ producer = "wait" /\ WorkersDone
  /\ resultsClosed' = TRUE
  /\ producer' = "done"
  /\ UNCHANGED <<mode, ctxDone, aimVars, caller, todo, offered, jobsClosed, workVars, results,
                 countVars, released>>
-----------------------------------------------------------------------------
(***************************************************************************)
(* The workers.                                                            *)
(***************************************************************************)
\* SendRaw, or closeContext and closeNow unless the context is done.
work(w) ==
  /\ worker[w] = "busy"
  /\ \E res \in IF mode = "close" /\ ctxDone THEN {"error"} ELSE {"nil", "error"} :
       outcome' = [outcome EXCEPT ![w] = res]
  /\ worker' = [worker EXCEPT ![w] = "report"]
  /\ UNCHANGED <<mode, ctxDone, aimVars, caller, jobVars, hand, resultVars, countVars, released>>

report(w) ==
  /\ worker[w] = "report" /\ ResultsRoom
  /\ results' = Append(results, outcome[w])
  /\ worker' = [worker EXCEPT ![w] = "idle"]
  /\ hand' = [hand EXCEPT ![w] = None] /\ outcome' = [outcome EXCEPT ![w] = "none"]
  /\ UNCHANGED <<mode, ctxDone, aimVars, caller, jobVars, resultsClosed, countVars, released>>

\* range jobs ends, and the deferred wg.Done.
workerEnds(w) ==
  /\ worker[w] = "idle" /\ jobsClosed
  /\ worker' = [worker EXCEPT ![w] = "done"]
  /\ UNCHANGED <<mode, ctxDone, aimVars, caller, jobVars, hand, outcome, resultVars, countVars, released>>
-----------------------------------------------------------------------------
(***************************************************************************)
(* The calling goroutine.                                                  *)
(***************************************************************************)
count ==
  /\ caller = "counting" /\ results # <<>>
  /\ results' = Tail(results)
  /\ \/ /\ Head(results) = "nil"
        /\ succeeded' = succeeded + 1
        /\ UNCHANGED <<failed, samples>>
     \/ /\ Head(results) = "error"
        /\ failed' = failed + 1
        /\ samples' = IF samples < maxSendErrorSamples THEN samples + 1 ELSE samples
        /\ UNCHANGED succeeded
  /\ UNCHANGED <<mode, ctxDone, aimVars, caller, jobVars, workVars, resultsClosed, released>>

\* Mutant: the caller returns when its context is done.
AllResults_UntilCancelled == results = <<>> /\ (resultsClosed \/ ctxDone)

\* range results ends.
AllResults == results = <<>> /\ resultsClosed

\* The result, and the deferred snapshot.release, which clears the slice.
release ==
  /\ caller = "counting" /\ AllResults
  /\ caller' = "returned" /\ released' = TRUE
  /\ UNCHANGED <<mode, ctxDone, aimVars, jobVars, workVars, resultVars, countVars>>
-----------------------------------------------------------------------------
ProducerStep ==
  \/ rangeNext
  \/ \E w \in Workers : handOver(w)
  \/ giveUp \/ reject \/ closeJobs \/ closeResults

WorkerStep(w) == work(w) \/ report(w) \/ workerEnds(w)

SnapshotStep ==
  \/ call \/ countUser \/ countedUsers \/ lookUp \/ beginRange \/ endRange
  \/ \E c \in Conns : visit(c)

CallerStep == refuseInvalid \/ refuseShuttingDown \/ SnapshotStep \/ start \/ count \/ release

Next ==
  \/ ProducerStep \/ CallerStep \/ cancel
  \/ \E w \in Workers : WorkerStep(w)
  \/ \E c \in Conns : change(c)

(***************************************************************************)
(* The goroutines are scheduled, and SendRaw and closeNow return: Send     *)
(* never waits for room in the queue.                                      *)
(***************************************************************************)
Fairness ==
  /\ WF_vars(ProducerStep) /\ WF_vars(CallerStep)
  /\ \A w \in Workers : WF_vars(WorkerStep(w))

Spec == Init /\ [][Next]_vars /\ Fairness
-----------------------------------------------------------------------------
(***************************************************************************)
(* Properties.                                                             *)
(***************************************************************************)

\* Every variable has its type, and results respects its capacity.
TypeOK ==
  /\ mode \in {"send", "close"} /\ ctxDone \in BOOLEAN
  /\ caller \in {"called", "total", "next", "range", "counting", "returned"}
  /\ registered \subseteq Conns /\ before \subseteq Conns /\ seen \subseteq Conns
  /\ unseen \subseteq Conns /\ pos \in 1 .. Len(request.keys) + 1 /\ total \in Nat
  /\ matched \in Seq(Conns) /\ IsSuffix(todo, matched)
  /\ producer \in {"none", "range", "offer", "reject", "wait", "done"}
  /\ offered \in Conns \cup {None}
  /\ worker \in [Workers -> {"none", "idle", "busy", "report", "done"}]
  /\ hand \in [Workers -> Conns \cup {None}]
  /\ outcome \in [Workers -> {"none", "nil", "error"}]
  /\ jobsClosed \in BOOLEAN /\ resultsClosed \in BOOLEAN /\ released \in BOOLEAN
  /\ results \in Seq({"nil", "error"}) /\ Len(results) <= Cardinality(Started)
  /\ succeeded \in Nat /\ failed \in Nat /\ samples \in 0 .. maxSendErrorSamples

\* Nobody sends on results after it was closed, which would panic: a worker or the
\* producer with a result in hand keeps closeResults waiting.
NoSendOnClosedChannel ==
  resultsClosed => /\ producer # "reject"
                   /\ \A w \in Workers : worker[w] \notin {"busy", "report"}

\* The slice goes back to the pool, where another batch may take and overwrite it,
\* only after the producer goroutine has read its last connection from it.
NoReadAfterRelease == released => producer \in {"none", "wait", "done"}

Held == {w \in Workers : hand[w] # None}

\* Every matched connection is in exactly one place: in the slice, offered, in a
\* worker's hand, in results or counted.  So when the call returns, Sent (or Closed)
\* and Failed add up to Matched, however the context is cancelled meanwhile.
ResultsAddUp ==
  producer # "none" =>
    Len(matched) = Len(todo) + Cardinality({offered} \ {None})
                   + Cardinality(Held) + Len(results) + succeeded + failed

Targets == UNION {MembersOf[k] : k \in Range(request.keys) \ {None}}

\* The snapshot names no connection twice and no stranger, and it names every connection
\* asked for that was registered all the while, however ids and users are repeated or
\* empty and whoever comes and goes between the two passes and during each Range.
SnapshotExact ==
  /\ IsInjective(matched)
  /\ Taken => Range(matched) \subseteq Targets /\ Targets \cap before \cap registered \subseteq Range(matched)

\* The call returns: producer, workers and caller never wait for each other in a
\* circle, with results full, the context cancelled or fewer workers than connections.
BatchReturns == <>(caller = "returned")
=============================================================================
