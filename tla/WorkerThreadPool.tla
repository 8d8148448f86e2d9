-------------------------- MODULE WorkerThreadPool --------------------------
(***************************************************************************)
(* The pool of scoring threads: a queue of batches, POOL_SIZE slots, and   *)
(* the handlers of a thread's message, error and exit events.  All of them *)
(* and dispatch run on the event loop, one at a time; a thread computes    *)
(* and dies whenever it likes.                                             *)
(*                                                                         *)
(* slot.busy and slot.current change together, so current stands for both; *)
(* a batch is posted once, so the batch stands for its taskId.  A slot is  *)
(* known by its thread.  An empty batch is answered at once and left out,  *)
(* as is a thread's exit with code 0, which no code of the thread causes.  *)
(***************************************************************************)
EXTENDS Naturals, Sequences, FiniteSets

CONSTANTS
    MAX_TASKS,      \* bound on the batches ever submitted
    POOL_SIZE,
    MAX_THREADS,    \* bound on the threads ever spawned
    None

Positions == 1..POOL_SIZE
Tasks     == 1..MAX_TASKS       \* numbered as they are submitted
Threads   == 1..MAX_THREADS     \* numbered as they are spawned

ASSUME PoolAssumption ==
    /\ POOL_SIZE \in Nat \ {0}
    /\ MAX_THREADS \in Nat /\ MAX_THREADS >= POOL_SIZE
    /\ MAX_TASKS \in Nat /\ None \notin Nat

VARIABLES
    queue,
    slots,          \* the thread in each slot
    current,        \* slot.current of each thread's slot
    shuttingDown,
    thread,         \* what a thread is up to
    inbox,          \* the batch posted to a thread
    answer,         \* its answer on the way back
    outcome         \* of each batch's promise

vars == <<queue, slots, current, shuttingDown, thread, inbox, answer, outcome>>

Settled   == {"resolved", "rejected"}
Answers   == [task : Tasks, outcome : Settled]

\* "failed": an uncaught error, whose event is due; "quit": the exit event is due.
ThreadStates == {"spare", "up", "failed", "quit", "gone"}

TypeOK ==
    /\ queue \in Seq(Tasks)
    /\ slots \in [Positions -> Threads]
    /\ current \in [Threads -> Tasks \cup {None}]
    /\ shuttingDown \in BOOLEAN
    /\ thread \in [Threads -> ThreadStates]
    /\ inbox \in [Threads -> Tasks \cup {None}]
    /\ answer \in [Threads -> Answers \cup {None}]
    /\ outcome \in [Tasks -> {"new", "waiting"} \cup Settled]

Pooled(t) == \E p \in Positions : slots[p] = t

Init ==
    /\ queue = <<>>
    /\ slots = [p \in Positions |-> p]
    /\ current = [t \in Threads |-> None]
    /\ shuttingDown = FALSE
    /\ thread = [t \in Threads |-> IF t \in Positions THEN "up" ELSE "spare"]
    /\ inbox = [t \in Threads |-> None]
    /\ answer = [t \in Threads |-> None]
    /\ outcome = [k \in Tasks |-> "new"]

-----------------------------------------------------------------------------
(***************************************************************************)
(* The event loop.                                                         *)
(***************************************************************************)
\* dispatch: the free slots, in order, take the batches at the queue's head.  q, s
\* and c are the queue, the slots and current as the calling handler leaves them.
Rank(s, c, p)   == Cardinality({x \in 1..p : c[s[x]] = None})
Takers(q, s, c) == {p \in Positions : c[s[p]] = None /\ Rank(s, c, p) <= Len(q)}

Dispatch(q, s, c) ==
    LET Taking(t) == {p \in Takers(q, s, c) : s[p] = t}
        Posted(f) == [t \in Threads |->
                        IF Taking(t) = {} THEN f[t]
                        ELSE q[Rank(s, c, CHOOSE p \in Taking(t) : TRUE)]]
    IN  /\ current' = Posted(c)
        /\ inbox' = Posted(inbox)
        /\ queue' = SubSeq(q, Cardinality(Takers(q, s, c)) + 1, Len(q))

\* scoreBatch.
Submit(k) ==
    /\ outcome[k] = "new" /\ \A j \in 1..(k - 1) : outcome[j] # "new"
    /\ IF shuttingDown
         THEN /\ outcome' = [outcome EXCEPT ![k] = "rejected"]
              /\ UNCHANGED <<queue, current, inbox>>
         ELSE /\ outcome' = [outcome EXCEPT ![k] = "waiting"]
              /\ Dispatch(Append(queue, k), slots, current)
    /\ UNCHANGED <<slots, shuttingDown, thread, answer>>

\* The slot is free again.
Freed(t) == [current EXCEPT ![t] = None]

\* Mutant: the handler does not look for more work.
OnMessageUndispatched(t) ==
    /\ answer[t] # None
    /\ answer' = [answer EXCEPT ![t] = None]
    /\ IF current[t] = answer[t].task
         THEN /\ outcome' = [outcome EXCEPT ![current[t]] = answer[t].outcome]
              /\ current' = Freed(t)
              /\ UNCHANGED <<queue, inbox>>
         ELSE UNCHANGED <<queue, current, inbox, outcome>>
    /\ UNCHANGED <<slots, shuttingDown, thread>>

\* An answer to anything but the slot's current batch is dropped.
OnMessage(t) ==
    /\ answer[t] # None
    /\ answer' = [answer EXCEPT ![t] = None]
    /\ IF current[t] = answer[t].task
         THEN /\ outcome' = [outcome EXCEPT ![current[t]] = answer[t].outcome]
              /\ IF shuttingDown
                   THEN current' = Freed(t) /\ UNCHANGED <<queue, inbox>>
                   ELSE Dispatch(queue, slots, Freed(t))
         ELSE UNCHANGED <<queue, current, inbox, outcome>>
    /\ UNCHANGED <<slots, shuttingDown, thread>>

\* current?.task.reject.
RejectCurrent(t) ==
    outcome' = [k \in Tasks |-> IF k = current[t] THEN "rejected" ELSE outcome[k]]

\* replaceSlot: nothing while the pool shuts down or for a slot already replaced.
\* The dead thread goes on to the given state.
ReplaceSlot(dead, state) ==
    \/ /\ ~shuttingDown /\ Pooled(dead)
       /\ \E n \in Threads :
            /\ thread[n] = "spare" /\ \A m \in 1..(n - 1) : thread[m] # "spare"
            /\ slots' = [p \in Positions |-> IF slots[p] = dead THEN n ELSE slots[p]]
            /\ thread' = [thread EXCEPT ![dead] = state, ![n] = "up"]
       /\ Dispatch(queue, slots', Freed(dead))
    \/ /\ shuttingDown \/ ~Pooled(dead)
       /\ thread' = [thread EXCEPT ![dead] = state]
       /\ current' = Freed(dead)
       /\ UNCHANGED <<queue, slots, inbox>>

OnError(t) ==
    /\ thread[t] = "failed"
    /\ RejectCurrent(t)
    /\ ReplaceSlot(t, "quit")
    /\ UNCHANGED <<shuttingDown, answer>>

\* Mutant: only the error handler respawns.
OnExitUnreplaced(t) ==
    /\ thread[t] = "quit" /\ answer[t] = None
    /\ RejectCurrent(t)
    /\ thread' = [thread EXCEPT ![t] = "gone"]
    /\ current' = Freed(t)
    /\ UNCHANGED <<queue, slots, inbox, shuttingDown, answer>>

\* Node drains a thread's messages before it reports the exit.
OnExit(t) ==
    /\ thread[t] = "quit" /\ answer[t] = None
    /\ \/ /\ shuttingDown
          /\ thread' = [thread EXCEPT ![t] = "gone"]
          /\ UNCHANGED <<queue, slots, current, inbox, outcome>>
       \/ /\ ~shuttingDown
          /\ RejectCurrent(t)
          /\ ReplaceSlot(t, "gone")
    /\ UNCHANGED <<shuttingDown, answer>>

\* Mutant: the queue is dropped with its promises.
ShutdownUnrejected ==
    /\ ~shuttingDown
    /\ shuttingDown' = TRUE
    /\ queue' = <<>>
    /\ UNCHANGED <<slots, current, thread, inbox, answer, outcome>>

\* shutdown, up to the await of the terminations.  What a thread is working on is
\* left alone.
Shutdown ==
    /\ ~shuttingDown
    /\ shuttingDown' = TRUE
    /\ queue' = <<>>
    /\ outcome' = [k \in Tasks |->
                     IF \E n \in 1..Len(queue) : queue[n] = k THEN "rejected"
                                                              ELSE outcome[k]]
    /\ UNCHANGED <<slots, current, thread, inbox, answer>>

-----------------------------------------------------------------------------
(***************************************************************************)
(* The threads.                                                            *)
(***************************************************************************)
\* The batch is scored, or an error in it is caught and sent back.
Compute(t) ==
    /\ thread[t] = "up" /\ inbox[t] # None
    /\ \E o \in Settled : answer' = [answer EXCEPT ![t] = [task |-> inbox[t], outcome |-> o]]
    /\ inbox' = [inbox EXCEPT ![t] = None]
    /\ UNCHANGED <<queue, slots, current, shuttingDown, thread, outcome>>

\* Bound: enough threads are left to replace the threads that are down.
CanRespawn ==
    Cardinality({n \in Threads : thread[n] = "spare"})
        > Cardinality({p \in Positions : thread[slots[p]] # "up"})

\* An uncaught error, out of memory, or a module that does not load.
Fail(t) ==
    /\ thread[t] = "up" /\ CanRespawn
    /\ thread' = [thread EXCEPT ![t] = "failed"]
    /\ UNCHANGED <<queue, slots, current, shuttingDown, inbox, answer, outcome>>

\* The thread ends without an error event, or is terminated by shutdown.
Quit(t) ==
    /\ thread[t] = "up" /\ (shuttingDown \/ CanRespawn)
    /\ thread' = [thread EXCEPT ![t] = "quit"]
    /\ UNCHANGED <<queue, slots, current, shuttingDown, inbox, answer, outcome>>

-----------------------------------------------------------------------------
Event(t) == OnMessage(t) \/ OnError(t) \/ OnExit(t)

Next ==
    \/ \E k \in Tasks : Submit(k)
    \/ \E t \in Threads : Event(t) \/ Compute(t) \/ Fail(t) \/ Quit(t)
    \/ Shutdown

Spec == Init /\ [][Next]_vars

-----------------------------------------------------------------------------
(***************************************************************************)
(* Properties.                                                             *)
(***************************************************************************)
\* The pool does not shrink: until it shuts down each slot holds a thread of its
\* own whose death, if it died, is still to be reported.
PoolStaysFull ==
    ~shuttingDown =>
        /\ \A p, q \in Positions : slots[p] = slots[q] => p = q
        /\ \A p \in Positions : thread[slots[p]] \notin {"spare", "gone"}

\* Nothing waits in the queue beside a free slot.
NoIdleWhileQueued ==
    queue # <<>> => \A p \in Positions : current[slots[p]] # None

Copies(k) ==
    Cardinality({n \in 1..Len(queue) : queue[n] = k})
        + Cardinality({p \in Positions : current[slots[p]] = k})

\* A batch that waits is in the queue or in one slot, once; any other in neither.
\* None is lost between the queue, a dying thread and its replacement, and shutdown
\* rejects what is queued.
TaskInOnePlace ==
    \A k \in Tasks : Copies(k) = IF outcome[k] = "waiting" THEN 1 ELSE 0
=============================================================================
