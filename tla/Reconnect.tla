----------------------------- MODULE Reconnect -----------------------------
(***************************************************************************)
(* A connection to a database node that threads share: the reconnecting    *)
(* wrapper of jepsen.reconnect, as jepsen.control.retry uses it to run     *)
(* commands over SSH, and the limit on concurrent commands of              *)
(* jepsen.control.sshj.                                                    *)
(*                                                                         *)
(* The read lock is held by the threads in readers.  What runs under the   *)
(* write lock excludes every reader and every other writer, so it is one   *)
(* step, taken when there are no readers.                                  *)
(***************************************************************************)
EXTENDS Integers, FiniteSets

CONSTANTS Threads,           \* the threads that share the wrapper
          None,              \* nil
          Retries,           \* jepsen.control.retry/retries
          ConcurrencyLimit,  \* jepsen.control.sshj/concurrency-limit
          MaxConns           \* bound: connections that can be opened

ASSUME ReconnectAssumption ==
    /\ None \notin Nat
    /\ Retries \in Nat
    /\ ConcurrencyLimit \in Nat \ {0}
    /\ MaxConns \in Nat \ {0}

VARIABLES conn,     \* the atom :conn of the wrapper
          open,     \* the connections :open has returned that are open
          opened,   \* how many were ever opened: their names are 1 .. opened
          readers,  \* holders of the read lock
          pc,       \* where each thread is
          c,        \* its binding of the connection in with-conn
          tries,    \* how often it may still retry
          why,      \* the exception it will throw
          kind,     \* a command, or a transfer of files
          faulted,  \* auxiliary: connections a body has failed on
          broken,   \* auxiliary: connections that could not be replaced
          tried     \* auxiliary: what each call has failed on

vars == <<conn, open, opened, readers, pc, c, tries, why, kind, faulted, broken, tried>>
aux  == <<faulted, broken, tried>>

Conns == 1 .. MaxConns

\* connect: wrapper, then open!.
Init ==
    /\ conn = 1 /\ open = {1} /\ opened = 1
    /\ readers = {}
    /\ pc = [t \in Threads |-> "idle"]
    /\ c = [t \in Threads |-> None]
    /\ tries = [t \in Threads |-> Retries]
    /\ why = [t \in Threads |-> "nothing"]
    /\ kind = [t \in Threads |-> "command"]
    /\ faulted = {} /\ broken = {}
    /\ tried = [t \in Threads |-> {}]

Goto(t, label) == pc' = [pc EXCEPT ![t] = label]

-----------------------------------------------------------------------------
(* open! and close!. *)

\* open!: a noop when there is a connection, or the :open function returned nil
\* or threw.  What it threw for it may have left open, as an SSH client that
\* failed to authenticate; nobody has a handle on that, and it is not counted.
OpenWrapper(t) ==
    /\ pc[t] = "idle"
    /\ readers = {}
    /\ conn = None
    /\ opened < MaxConns
    /\ opened' = opened + 1
    /\ open' = open \cup {opened'}
    /\ conn' = opened'
    /\ UNCHANGED <<readers, pc, c, tries, why, kind, aux>>

\* close!.  If the :close function throws, the atom keeps the connection,
\* closed or not.
CloseWrapper(t) ==
    /\ pc[t] = "idle"
    /\ readers = {}
    /\ conn # None
    /\ \/ open' = open \ {conn} /\ conn' \in {None, conn}
       \/ UNCHANGED <<open, conn>>
    /\ UNCHANGED <<opened, readers, pc, c, tries, why, kind, aux>>

-----------------------------------------------------------------------------
(* execute!, upload!, download!: with-conn inside with-retry.  A transfer of   *)
(* files is one body; the commands some run beside it are not told apart.      *)

\* with-conn: take the read lock and bind the connection.
Enter(t) ==
    /\ readers' = readers \cup {t}
    /\ c' = [c EXCEPT ![t] = conn]
    /\ Goto(t, "permit")

Call(t) ==
    /\ pc[t] = "idle"
    /\ Enter(t)
    /\ \E k \in {"command", "transfer"} : kind' = [kind EXCEPT ![t] = k]
    /\ UNCHANGED <<conn, open, opened, tries, why, aux>>

Running(x) == {u \in Threads : pc[u] = "body" /\ c[u] = x /\ kind[u] = "command"}

\* .acquire of the connection's semaphore, by a command; nil has no semaphore.
Permit(t) ==
    /\ pc[t] = "permit"
    /\ \/ kind[t] = "transfer" \/ c[t] = None
       \/ Cardinality(Running(c[t])) < ConcurrencyLimit
    /\ Goto(t, "body")
    /\ UNCHANGED <<conn, open, opened, readers, c, tries, why, kind, aux>>

\* Back in the caller, without the lock: the locals of the call are gone.
Leave(t) ==
    /\ readers' = readers \ {t}
    /\ c' = [c EXCEPT ![t] = None]
    /\ tries' = [tries EXCEPT ![t] = Retries]
    /\ why' = [why EXCEPT ![t] = "nothing"]
    /\ kind' = [kind EXCEPT ![t] = "command"]
    /\ tried' = [tried EXCEPT ![t] = {}]
    /\ Goto(t, "idle")

\* The body returns.
Return(t) ==
    /\ pc[t] = "body"
    /\ c[t] \in open
    /\ Leave(t)
    /\ UNCHANGED <<conn, open, opened, faulted, broken>>

\* The body, the wait for a permit or the sleep before a retry is interrupted:
\* nothing is reopened.
Interrupted(t) ==
    /\ pc[t] \in {"permit", "body", "retry"}
    /\ Leave(t)
    /\ UNCHANGED <<conn, open, opened, faulted, broken>>

\* Mutant: the read lock is kept.
ThrowsKeepingLock(t) ==
    /\ pc[t] = "body"
    /\ why' = [why EXCEPT ![t] = IF c[t] = None THEN "other" ELSE "ssh-failed"]
    /\ Goto(t, "failed")
    /\ faulted' = faulted \cup {c[t]}
    /\ tried' = [tried EXCEPT ![t] = @ \cup {c[t]}]
    /\ UNCHANGED <<conn, open, opened, readers, c, tries, kind, broken>>

\* The body throws, and the read lock is released.  On nil there is no such
\* method; a connection that is closed is :ssh-failed; an open one may break.
Throws(t) ==
    /\ pc[t] = "body"
    /\ \E e \in {"ssh-failed", "other"} :
          /\ c[t] = None => e = "other"
          /\ c[t] # None /\ c[t] \notin open => e = "ssh-failed"
          /\ why' = [why EXCEPT ![t] = e]
    /\ readers' = readers \ {t}
    /\ Goto(t, "failed")
    /\ faulted' = faulted \cup {c[t]}
    /\ tried' = [tried EXCEPT ![t] = @ \cup {c[t]}]
    /\ UNCHANGED <<conn, open, opened, c, tries, kind, broken>>

\* Mutants: whichever connection the wrapper has now is taken for the broken one;
\* a connection that is still open is taken to have recovered.
IsMineAlways(t) == TRUE
IsMineAndClosed(t) == c[t] = conn /\ conn \notin open

\* identical?: nobody has reopened the connection yet.
IsMine(t) == c[t] = conn

\* Mutant: readers may be using the connection.
CanWriteAnyway == TRUE

\* The write lock is free.
CanWrite == readers = {}

\* Mutant: the old connection is not closed.
ClosedForgotten == open

\* The connections still open once reopen! has closed the current one.
ClosedCurrent == open \ {conn}

\* reopen!: close, open, and put the new connection in the atom.
Reopen(t) ==
    /\ pc[t] = "failed"
    /\ CanWrite
    /\ IsMine(t)
    /\ opened < MaxConns
    /\ opened' = opened + 1
    /\ open' = ClosedCurrent \cup {opened'}
    /\ conn' = opened'
    /\ Goto(t, "relock")
    /\ UNCHANGED <<readers, c, tries, why, kind, aux>>

\* :close or :open throws, or :open returns nil: the atom keeps the connection,
\* and the exception is dropped, unless it is an interrupt.
ReopenFails(t) ==
    /\ pc[t] = "failed"
    /\ CanWrite
    /\ IsMine(t)
    /\ open' \in {open, ClosedCurrent}
    /\ broken' = broken \cup {conn}
    /\ why' \in {why, [why EXCEPT ![t] = "interrupt"]}
    /\ Goto(t, "relock")
    /\ UNCHANGED <<conn, opened, readers, c, tries, kind, faulted, tried>>

\* Another thread was first.
NoNeedToReopen(t) ==
    /\ pc[t] = "failed"
    /\ CanWrite
    /\ ~IsMine(t)
    /\ Goto(t, "relock")
    /\ UNCHANGED <<conn, open, opened, readers, c, tries, why, kind, aux>>

\* Mutant: retries are not counted.
RethrowUncounted(t) ==
    /\ pc[t] = "relock"
    /\ \/ /\ why[t] = "ssh-failed" /\ tries[t] > 0
          /\ UNCHANGED tries
          /\ c' = [c EXCEPT ![t] = None]
          /\ Goto(t, "retry")
          /\ UNCHANGED <<readers, why, kind, tried>>
       \/ /\ why[t] # "ssh-failed" \/ tries[t] = 0
          /\ Leave(t)
    /\ UNCHANGED <<conn, open, opened, faulted, broken>>

\* The read lock is taken and released again, and the exception leaves
\* with-conn.  with-retry catches it, or it leaves execute!.
Rethrow(t) ==
    /\ pc[t] = "relock"
    /\ \/ /\ why[t] = "ssh-failed" /\ tries[t] > 0
          /\ tries' = [tries EXCEPT ![t] = @ - 1]
          /\ c' = [c EXCEPT ![t] = None]
          /\ Goto(t, "retry")
          /\ UNCHANGED <<readers, why, kind, tried>>
       \/ /\ why[t] # "ssh-failed" \/ tries[t] = 0
          /\ Leave(t)
    /\ UNCHANGED <<conn, open, opened, faulted, broken>>

\* Slept long enough.
Retry(t) ==
    /\ pc[t] = "retry"
    /\ Enter(t)
    /\ UNCHANGED <<conn, open, opened, tries, why, kind, aux>>

\* The steps a thread in a call takes by itself.
Proceed(t) ==
    \/ Permit(t) \/ Return(t) \/ Throws(t)
    \/ Reopen(t) \/ ReopenFails(t) \/ NoNeedToReopen(t)
    \/ Rethrow(t) \/ Retry(t)

Next ==
    \E t \in Threads :
        OpenWrapper(t) \/ CloseWrapper(t) \/ Call(t) \/ Proceed(t) \/ Interrupted(t)

Spec == Init /\ [][Next]_vars

\* Bodies end, and neither lock nor semaphore passes a thread over for ever: the
\* semaphore is fair, and a reader queues behind a waiting writer.
FairSpec == Spec /\ \A t \in Threads : SF_vars(Proceed(t))
============================================================================
