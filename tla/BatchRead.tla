----------------------------- MODULE BatchRead -----------------------------
(* MultiRead: a batch of reads that is issued to callbacks of a Reader (src/reader.cpp, with *)
(* the readers of factory.cpp), to libaio (io/async_io) or to io_uring (io/uring_io), and      *)
(* waited for.  The kernel and the thread pool of a reader complete reads in any order, and      *)
(* any read may fail.  The contexts of libaio and io_uring come from a pool and go back to it.  *)
EXTENDS Integers, FiniteSets

CONSTANTS Caller,       \* threads that read
          Ctx,          \* contexts there may be at once
          MaxReads,     \* ranges of a call, at most, of each thread
          BatchSize,    \* DEFAULT_REQUEST_COUNT, RING_SIZE
          MaxReadCalls, \* calls per thread
          LateThrows    \* whether a call may be left by an exception with reads under way that
                        \* use its locals or its caller's buffer

ASSUME BatchReadAssumption ==
  /\ MaxReads \in [Caller -> Nat \ {0}] /\ BatchSize \in Nat \ {0} /\ MaxReadCalls \in Nat
  /\ LateThrows \in BOOLEAN

VARIABLES io,      \* the kind of I/O object
          direct,  \* direct_read_: reads go to buffers of the I/O object, not of the caller
          call,    \* the call each thread is in, or the outcome of its last
          filled,  \* the ranges whose destination holds their data
          tasks,   \* reads given to AsyncRead whose callback has not run
          where,   \* where each context is
          ring     \* what a context holds

readVars == <<io, direct, call, filled, tasks, where, ring>>

Request == UNION {{c} \X (1 .. MaxReads[c]) : c \in Caller}
Clean == [prepared |-> {}, inflight |-> {}, done |-> {}]
NoCall == [pc |-> "idle", calls |-> 0, count |-> 0, next |-> 1, last |-> 0, left |-> 0,
           failed |-> FALSE, ctx |-> {}, outcome |-> "none"]

BatchReadInit ==
  /\ io \in {"pool_reader", "func_reader", "aio", "uring"}
  /\ direct \in BOOLEAN /\ (io = "uring" \/ direct = (io = "aio"))
  /\ call = [c \in Caller |-> NoCall]
  /\ filled = [c \in Caller |-> {}]
  /\ tasks = {}
  /\ where = [x \in Ctx |-> "none"] /\ ring = [x \in Ctx |-> Clean]

IsReader == io \in {"pool_reader", "func_reader"}
IsKernel == io \in {"aio", "uring"}

(* The call is left: by return with its result, or by an exception. *)
Ended(c, outcome) ==
  [NoCall EXCEPT !.calls = call[c].calls, !.count = call[c].count, !.outcome = outcome]
Leave(c, outcome) == call' = [call EXCEPT ![c] = Ended(c, outcome)]

Entered(c, n, pc) ==
  [NoCall EXCEPT !.pc = pc, !.calls = call[c].calls + 1, !.count = n, !.left = n]

MayCall(c) == call[c].pc = "idle" /\ call[c].calls < MaxReadCalls

-----------------------------------------------------------------------------
(* Reader::MultiRead. *)

(* The promise of an empty batch is never set: callers ask for one range at least. *)
EnterReader(c, n) ==
  /\ IsReader /\ MayCall(c) /\ n > 0
  /\ call' = [call EXCEPT ![c] = Entered(c, n, "issue")]
  /\ filled' = [filled EXCEPT ![c] = {}]
  /\ UNCHANGED <<io, direct, tasks, where, ring>>

(* LocalFileReader enqueues the read; ReadFuncReader makes it and calls back. *)
Issue(c) ==
  LET i == call[c].next IN
  /\ call[c].pc = "issue" /\ i <= call[c].count
  /\ \/ /\ io = "pool_reader"
        /\ tasks' = tasks \cup {<<c, i>>}
        /\ call' = [call EXCEPT ![c].next = i + 1]
        /\ UNCHANGED filled
     \/ /\ io = "func_reader"
        /\ \E ok \in BOOLEAN :
             /\ filled' = [filled EXCEPT ![c] = IF ok THEN @ \cup {i} ELSE @]
             /\ call' = [call EXCEPT ![c].next = i + 1, ![c].left = @ - 1,
                                     ![c].failed = @ \/ ~ok]
        /\ UNCHANGED tasks
  /\ UNCHANGED <<io, direct, where, ring>>

(* A range beyond Size(): the exception leaves the locals the callbacks refer to. *)
IssueThrows(c) ==
  /\ call[c].pc = "issue" /\ call[c].next <= call[c].count
  /\ io = "func_reader" \/ call[c].next = 1 \/ LateThrows
  /\ Leave(c, "thrown")
  /\ UNCHANGED <<io, direct, filled, tasks, where, ring>>

(* A worker of the reader's pool reads and calls back. *)
Callback(r, ok) ==
  LET c == r[1] IN
  /\ r \in tasks /\ tasks' = tasks \ {r}
  /\ filled' = [filled EXCEPT ![c] = IF ok THEN @ \cup {r[2]} ELSE @]
  /\ call' = [call EXCEPT ![c].left = @ - 1, ![c].failed = @ \/ ~ok]
  /\ UNCHANGED <<io, direct, where, ring>>

(* The future is ready when the last callback has set the promise. *)
PromiseIsSet(c) == call[c].left = 0

AwaitReads(c) ==
  /\ call[c].pc = "issue" /\ call[c].next > call[c].count
  /\ PromiseIsSet(c)
  /\ Leave(c, IF call[c].failed THEN "false" ELSE "true")
  /\ UNCHANGED <<io, direct, filled, tasks, where, ring>>

-----------------------------------------------------------------------------
(* The pool of contexts, and what a call does with its own. *)

Held(c) == CHOOSE x \in call[c].ctx : TRUE

(* TakeOne: one of the pool, or a new one where the sub-pool is empty. *)
TakeOne(c, n, x) ==
  /\ where[x] = "pool" \/ (where[x] = "none" /\ x = CHOOSE y \in Ctx : where[y] = "none")
  /\ where' = [where EXCEPT ![x] = "held"]
  /\ call' = [call EXCEPT ![c] = [Entered(c, n, "prepare") EXCEPT !.ctx = {x}]]

ReturnOne(c) == where' = [where EXCEPT ![Held(c)] = "pool"] /\ UNCHANGED ring
Abandon(c) == where' = [where EXCEPT ![Held(c)] = "lost"] /\ UNCHANGED ring

(* Drop, and the end of the last reference: the context is destroyed, with what it holds. *)
Drop(c) ==
  /\ where' = [where EXCEPT ![Held(c)] = "none"]
  /\ ring' = [ring EXCEPT ![Held(c)] = Clean]

EnterKernel(c, n) ==
  /\ IsKernel /\ MayCall(c)
  /\ filled' = [filled EXCEPT ![c] = {}]
  /\ \/ /\ io = "aio" \/ n > 0
        /\ \E x \in Ctx : TakeOne(c, n, x)
     \/ /\ io = "uring" /\ n = 0
        /\ call' = [call EXCEPT ![c] = [Entered(c, n, "idle") EXCEPT !.outcome = "true"]]
        /\ UNCHANGED where
  /\ UNCHANGED <<io, direct, tasks, ring>>

(* Without a ring UringIO reads one range after the other; out of bounds it reads none. *)
ReadInTurn(c, n) ==
  /\ io = "uring" /\ MayCall(c) /\ n > 0
  /\ \E done \in 0 .. n :
       /\ filled' = [filled EXCEPT ![c] = 1 .. done]
       /\ call' = [call EXCEPT ![c] = [Entered(c, n, "idle") EXCEPT
                                         !.outcome = IF done = n THEN "true" ELSE "false"]]
  /\ UNCHANGED <<io, direct, tasks, where, ring>>

Batch(c) ==
  {<<c, i>> : i \in call[c].next .. (IF call[c].next + BatchSize - 1 < call[c].count
                                     THEN call[c].next + BatchSize - 1 ELSE call[c].count)}

Prepare(c) ==
  /\ call[c].pc = "prepare" /\ call[c].next <= call[c].count
  /\ \/ /\ ring' = [ring EXCEPT ![Held(c)].prepared = Batch(c)]
        /\ call' = [call EXCEPT ![c].pc = "submit"]
        /\ UNCHANGED where
     \/ io = "uring" /\ Drop(c) /\ Leave(c, "thrown")   \* no memory, no entry
  /\ UNCHANGED <<io, direct, filled, tasks>>

(* The first k go to the kernel, after as many attempts as it takes.  libaio keeps nothing of  *)
(* the others, the ring does.                                                               *)
Submit(c, k) ==
  LET batch == ring[Held(c)].prepared
      sent == {r \in batch : r[2] < call[c].next + k}
  IN  /\ call[c].pc = "submit" /\ k \in 0 .. Cardinality(batch)
      /\ ring' = [ring EXCEPT ![Held(c)].inflight = sent,
                              ![Held(c)].prepared = IF io = "uring" THEN batch \ sent ELSE {}]
      /\ call' = [call EXCEPT ![c].last = call[c].next + Cardinality(batch) - 1,
                              ![c].pc = IF sent = batch THEN "wait" ELSE "drain"]
      /\ UNCHANGED <<io, direct, filled, tasks, where>>

SubmitFails(c) ==
  /\ call[c].pc = "submit"
  /\ IF io = "uring" THEN Drop(c)
     ELSE /\ where' = [where EXCEPT ![Held(c)] = "pool"]
          /\ ring' = [ring EXCEPT ![Held(c)] = Clean]
  /\ Leave(c, "thrown")
  /\ UNCHANGED <<io, direct, filled, tasks>>

(* The kernel ends a read, with its data or with less. *)
Complete(x, r, ok) ==
  /\ r \in ring[x].inflight
  /\ ring' = [ring EXCEPT ![x].inflight = @ \ {r}, ![x].done = @ \cup {<<r, ok>>}]
  /\ UNCHANGED <<io, direct, call, filled, tasks, where>>

(* io_uring_wait_cqe gives one completion, whose result is looked at. *)
ReapOne(c) ==
  /\ io = "uring" /\ call[c].pc = "wait"
  /\ \E e \in ring[Held(c)].done :
       /\ ring' = [ring EXCEPT ![Held(c)].done = @ \ {e}]
       /\ filled' = [filled EXCEPT ![e[1][1]] = IF e[2] THEN @ \cup {e[1][2]} ELSE @]
       /\ call' = [call EXCEPT ![c].failed = @ \/ ~e[2]]
  /\ UNCHANGED <<io, direct, tasks, where>>

(* io_getevents gives all of them at once, whose results are not looked at. *)
ReapAll(c) ==
  LET x == Held(c) IN
  /\ io = "aio" /\ call[c].pc = "wait" /\ ring[x].inflight = {} /\ ring[x].done # {}
  /\ ring' = [ring EXCEPT ![x].done = {}]
  /\ filled' = [filled EXCEPT ![c] = @ \cup {e[1][2] : e \in {d \in ring[x].done : d[2]}}]
  /\ UNCHANGED <<io, direct, call, tasks, where>>

(* Variant: as many as were prepared. *)
AllPreparedReaped(c) == ring[Held(c)] = Clean

(* As many completions were seen as reads were submitted. *)
AllReaped(c) == ring[Held(c)].inflight = {} /\ ring[Held(c)].done = {}

(* The batch is over: the next, or an exception for a read that failed. *)
EndBatch(c) ==
  /\ call[c].pc = "wait" /\ AllReaped(c)
  /\ IF call[c].failed THEN ReturnOne(c) /\ Leave(c, "thrown")
     ELSE call' = [call EXCEPT ![c].next = call[c].last + 1, ![c].pc = "prepare"]
          /\ UNCHANGED <<where, ring>>
  /\ UNCHANGED <<io, direct, filled, tasks>>

(* io_getevents or io_uring_wait_cqe fails for good.  The ring is drained. *)
WaitFails(c) ==
  /\ call[c].pc = "wait" \/ (io = "aio" /\ call[c].pc = "drain")
  /\ ~AllReaped(c)
  /\ IF io = "uring" THEN call' = [call EXCEPT ![c].pc = "drain"] /\ UNCHANGED <<where, ring>>
     ELSE Drop(c) /\ Leave(c, "thrown")
  /\ UNCHANGED <<io, direct, filled, tasks>>

DrainOne(c) ==
  /\ call[c].pc = "drain"
  /\ \E e \in ring[Held(c)].done : ring' = [ring EXCEPT ![Held(c)].done = @ \ {e}]
  /\ UNCHANGED <<io, direct, call, filled, tasks, where>>

(* Variant: the guard's destructor puts the ring back. *)
GiveContextBack(c) == ReturnOne(c)

(* What becomes of a context that could not be given all its reads, or not be waited on.     *)
GiveUpContext(c) == IF io = "uring" THEN Abandon(c) ELSE ReturnOne(c)

EndDrain(c) ==
  /\ call[c].pc = "drain"
  /\ AllReaped(c) \/ (io = "uring" /\ (direct \/ LateThrows))   \* or waiting fails again
  /\ GiveUpContext(c) /\ Leave(c, "thrown")
  /\ UNCHANGED <<io, direct, filled, tasks>>

(* Every batch is over. *)
ReturnTrue(c) ==
  /\ call[c].pc = "prepare" /\ call[c].next > call[c].count
  /\ ReturnOne(c) /\ Leave(c, "true")
  /\ UNCHANGED <<io, direct, filled, tasks>>

-----------------------------------------------------------------------------
Enter(c) == \E n \in 0 .. MaxReads[c] : EnterReader(c, n) \/ EnterKernel(c, n) \/ ReadInTurn(c, n)

ReadStep(c) ==
  \/ Issue(c) \/ IssueThrows(c) \/ AwaitReads(c)
  \/ Prepare(c) \/ (\E k \in 0 .. BatchSize : Submit(c, k)) \/ SubmitFails(c)
  \/ ReapOne(c) \/ ReapAll(c) \/ EndBatch(c) \/ WaitFails(c)
  \/ DrainOne(c) \/ EndDrain(c) \/ ReturnTrue(c)

ReadEnds(r) ==
  \E ok \in BOOLEAN : Callback(r, ok) \/ (\E x \in Ctx : Complete(x, r, ok))

BatchReadNext ==
  \/ \E c \in Caller : Enter(c) \/ ReadStep(c)
  \/ \E r \in Request : ReadEnds(r)

BatchReadSpec == BatchReadInit /\ [][BatchReadNext]_readVars

(* Threads go on, and every read ends. *)
BatchReadFairSpec ==
  /\ BatchReadSpec
  /\ \A c \in Caller : WF_readVars(ReadStep(c))
  /\ \A r \in Request : WF_readVars(ReadEnds(r))

-----------------------------------------------------------------------------
(* A context in the pool holds nothing of an earlier call: no read that is prepared, under     *)
(* way, or ended and not seen.  The next call would take them for its own, through pointers to  *)
(* objects that are gone.                                                                   *)
PooledContextsAreClean == \A x \in Ctx : where[x] = "pool" => ring[x] = Clean

(* No read outlives its call where it uses what the call leaves behind: the counter and the     *)
(* promise of MultiRead, or the caller's buffer.                                             *)
NoReadOutlivesItsCall ==
  /\ \A r \in tasks : call[r[1]].pc = "issue"
  /\ \A x \in Ctx : ~direct /\ ring[x].inflight # {} => where[x] = "held"

(* True means that every range was read, whatever failed and was retried on the way.  AsyncIO    *)
(* does not look at the results of its events, and is left out.                               *)
TrueMeansRead ==
  \A c \in Caller : call[c].outcome = "true" /\ io # "aio" => filled[c] = 1 .. call[c].count

(* A batch of reads is settled when its call ends.                                             *)
BatchesAreSettled == PooledContextsAreClean /\ NoReadOutlivesItsCall /\ TrueMeansRead

(* Every call of MultiRead ends: each read calls back once, and no call waits for another's      *)
(* reads or for more reads than were submitted.                                              *)
ReadsReturn == \A c \in Caller : []<>(call[c].pc = "idle")

=============================================================================
