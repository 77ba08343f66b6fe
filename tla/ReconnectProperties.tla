------------------------ MODULE ReconnectProperties ------------------------
(* What the threads that share a reconnecting wrapper may rely on. *)
EXTENDS Reconnect

(* Every variable has its type; the read lock is held in a body only. *)
TypeOK ==
    /\ conn \in Conns \cup {None}
    /\ open \subseteq Conns
    /\ opened \in Conns
    /\ readers = {t \in Threads : pc[t] \in {"permit", "body"}}
    /\ pc \in [Threads -> {"idle", "permit", "body", "failed", "relock", "retry"}]
    /\ c \in [Threads -> Conns \cup {None}]
    /\ tries \in [Threads -> 0 .. Retries]
    /\ why \in [Threads -> {"nothing", "ssh-failed", "other", "interrupt"}]
    /\ kind \in [Threads -> {"command", "transfer"}]
    /\ faulted \subseteq Conns \cup {None}
    /\ broken \subseteq Conns \cup {None}
    /\ tried \in [Threads -> SUBSET (Conns \cup {None})]

(* Of the connections :open has returned at most one is open, and close! can   *)
(* reach it: reopen! and close! lose none, whichever of :open and :close fail. *)
OnlyCurrentIsOpen == open \subseteq {conn}

\* t is running a command on a connection, or about to.
Using(t) == pc[t] \in {"permit", "body"}

(* No connection is closed while a body uses it: a thread that reopens waits *)
(* for every other one that has it bound.                                    *)
NoneClosedInUse ==
    [][\A t \in Threads : (Using(t) /\ Using(t)' /\ c[t] \in open) => c[t] \in open']_vars

(* Only a connection that a body has failed on is closed, unless by close!: *)
(* a late failure on the old connection does not cost the others the new.   *)
OnlyFailedAreReplaced ==
    [][\A x \in open \ open' :
          x \in faulted \/ \E t \in Threads : CloseWrapper(t)]_vars

(* A retry never runs on a connection the same call has already failed on,  *)
(* unless that connection could not be reopened: with-conn reopens before   *)
(* with-retry starts again, and nobody brings an old connection back.       *)
RetriesUseAnotherConn ==
    \A t \in Threads : Using(t) /\ c[t] \in tried[t] => c[t] \in broken

(* Commands on one connection never exceed the limit, and wait for a permit *)
(* with the read lock held; still every call ends.                          *)
CallsEnd == \A t \in Threads : pc[t] # "idle" ~> pc[t] = "idle"
============================================================================
