-------------------------- MODULE ReconnectProofs --------------------------
(***************************************************************************)
(* Proofs about the reconnecting wrapper, for any number of threads,       *)
(* retries, permits and connections.                                       *)
(***************************************************************************)
EXTENDS ReconnectProperties, TLAPS

(* Names of connections are handed out once. *)
NamesAreFresh ==
    /\ open \cup ({conn} \ {None}) \subseteq 1 .. opened
    /\ \A t \in Threads : {c[t]} \cup tried[t] \subseteq (1 .. opened) \cup {None}

(* A thread that waits for the write lock has failed on the connection it *)
(* has bound, and one whose connection was nil will not retry.            *)
FailedForAReason ==
    \A t \in Threads :
       /\ pc[t] = "failed" => c[t] \in faulted
       /\ None \in tried[t] => pc[t] \in {"failed", "relock"} /\ why[t] # "ssh-failed"

\* What t failed on earlier is no longer the current connection, or could not be
\* replaced.  While t waits to reopen c[t], that one is not counted.
Left(t) ==
    \A x \in tried[t] \ {None} :
       x = conn /\ ~(pc[t] = "failed" /\ x = c[t]) => x \in broken

(* The inductive invariant. *)
WrapperInv ==
    /\ TypeOK
    /\ OnlyCurrentIsOpen
    /\ NamesAreFresh
    /\ FailedForAReason
    /\ \A t \in Threads : Left(t)
    /\ RetriesUseAnotherConn

-----------------------------------------------------------------------------
(* Init establishes the invariant. *)
LEMMA InvInitially == Init => WrapperInv
<1> SUFFICES ASSUME Init PROVE WrapperInv
  OBVIOUS
<1> USE ReconnectAssumption
<1>1. TypeOK
  BY DEF Init, TypeOK, Conns
<1>2. OnlyCurrentIsOpen /\ NamesAreFresh
  BY DEF Init, OnlyCurrentIsOpen, NamesAreFresh
<1>3. FailedForAReason /\ \A t \in Threads : Left(t)
  BY DEF Init, FailedForAReason, Left
<1>4. RetriesUseAnotherConn
  BY DEF Init, RetriesUseAnotherConn, Using
<1> QED
  BY <1>1, <1>2, <1>3, <1>4 DEF WrapperInv

(* Every step keeps the types: the read lock is held exactly in the bodies. *)
LEMMA TypesStep == WrapperInv /\ [Next]_vars => TypeOK'
<1> SUFFICES ASSUME WrapperInv, [Next]_vars PROVE TypeOK'
  OBVIOUS
<1> USE ReconnectAssumption DEF WrapperInv, TypeOK, Conns
<1>1. CASE UNCHANGED vars
  BY <1>1 DEF vars
<1>2. ASSUME NEW t \in Threads, OpenWrapper(t) PROVE TypeOK'
  BY <1>2 DEF OpenWrapper, aux
<1>3. ASSUME NEW t \in Threads, CloseWrapper(t) PROVE TypeOK'
  BY <1>3 DEF CloseWrapper, aux
<1>4. ASSUME NEW t \in Threads, Call(t) PROVE TypeOK'
  BY <1>4 DEF Call, Enter, Goto, aux
<1>5. ASSUME NEW t \in Threads, Permit(t) PROVE TypeOK'
  BY <1>5 DEF Permit, Goto, aux
<1>6. ASSUME NEW t \in Threads, Return(t) PROVE TypeOK'
  BY <1>6 DEF Return, Leave, Goto
<1>7. ASSUME NEW t \in Threads, Throws(t) PROVE TypeOK'
  <2>1. why' \in [Threads -> {"nothing", "ssh-failed", "other", "interrupt"}]
    BY <1>7 DEF Throws
  <2>2. /\ readers' = {u \in Threads : pc'[u] \in {"permit", "body"}}
        /\ pc' \in [Threads -> {"idle", "permit", "body", "failed", "relock", "retry"}]
    BY <1>7 DEF Throws, Goto
  <2>3. c[t] \in Conns \cup {None}
    BY DEF Conns
  <2>4. faulted' \subseteq Conns \cup {None}
    BY <1>7, <2>3 DEF Throws
  <2>5. tried' \in [Threads -> SUBSET (Conns \cup {None})]
    BY <1>7, <2>3 DEF Throws
  <2> QED
    BY <1>7, <2>1, <2>2, <2>4, <2>5 DEF Throws
<1>8. ASSUME NEW t \in Threads, Interrupted(t) PROVE TypeOK'
  BY <1>8 DEF Interrupted, Leave, Goto
<1>9. ASSUME NEW t \in Threads, Reopen(t) PROVE TypeOK'
  BY <1>9 DEF Reopen, ClosedCurrent, Goto, aux
<1>10. ASSUME NEW t \in Threads, ReopenFails(t) PROVE TypeOK'
  BY <1>10 DEF ReopenFails, ClosedCurrent, Goto
<1>11. ASSUME NEW t \in Threads, NoNeedToReopen(t) PROVE TypeOK'
  BY <1>11 DEF NoNeedToReopen, Goto, aux
<1>12. ASSUME NEW t \in Threads, Rethrow(t) PROVE TypeOK'
  BY <1>12 DEF Rethrow, Leave, Goto
<1>13. ASSUME NEW t \in Threads, Retry(t) PROVE TypeOK'
  BY <1>13 DEF Retry, Enter, Goto, aux
<1> QED
  BY <1>1, <1>2, <1>3, <1>4, <1>5, <1>6, <1>7, <1>8, <1>9, <1>10, <1>11, <1>12,
     <1>13 DEF Next, Proceed

(* No step leaves a second connection open, and names of new connections are *)
(* new: reopen! closes the current one first, under the write lock.          *)
LEMMA OpenStep == WrapperInv /\ [Next]_vars /\ TypeOK' => (OnlyCurrentIsOpen /\ NamesAreFresh)'
<1> SUFFICES ASSUME WrapperInv, [Next]_vars, TypeOK' PROVE (OnlyCurrentIsOpen /\ NamesAreFresh)'
  OBVIOUS
<1> USE ReconnectAssumption DEF WrapperInv, TypeOK, OnlyCurrentIsOpen, NamesAreFresh, Conns
<1>1. CASE UNCHANGED vars
  BY <1>1 DEF vars
<1>2. ASSUME NEW t \in Threads, OpenWrapper(t) PROVE (OnlyCurrentIsOpen /\ NamesAreFresh)'
  BY <1>2 DEF OpenWrapper, aux
<1>3. ASSUME NEW t \in Threads, CloseWrapper(t) PROVE (OnlyCurrentIsOpen /\ NamesAreFresh)'
  BY <1>3 DEF CloseWrapper, aux
<1>4. ASSUME NEW t \in Threads, Call(t) PROVE (OnlyCurrentIsOpen /\ NamesAreFresh)'
  BY <1>4 DEF Call, Enter, Goto, aux
<1>5. ASSUME NEW t \in Threads, Permit(t) PROVE (OnlyCurrentIsOpen /\ NamesAreFresh)'
  BY <1>5 DEF Permit, Goto, aux
<1>6. ASSUME NEW t \in Threads, Return(t) PROVE (OnlyCurrentIsOpen /\ NamesAreFresh)'
  BY <1>6 DEF Return, Leave, Goto
<1>7. ASSUME NEW t \in Threads, Throws(t) PROVE (OnlyCurrentIsOpen /\ NamesAreFresh)'
  BY <1>7 DEF Throws, Goto
<1>8. ASSUME NEW t \in Threads, Interrupted(t) PROVE (OnlyCurrentIsOpen /\ NamesAreFresh)'
  BY <1>8 DEF Interrupted, Leave, Goto
<1>9. ASSUME NEW t \in Threads, Reopen(t) PROVE (OnlyCurrentIsOpen /\ NamesAreFresh)'
  BY <1>9 DEF Reopen, ClosedCurrent, IsMine, Goto, aux
<1>10. ASSUME NEW t \in Threads, ReopenFails(t) PROVE (OnlyCurrentIsOpen /\ NamesAreFresh)'
  BY <1>10 DEF ReopenFails, ClosedCurrent, IsMine, Goto
<1>11. ASSUME NEW t \in Threads, NoNeedToReopen(t) PROVE (OnlyCurrentIsOpen /\ NamesAreFresh)'
  BY <1>11 DEF NoNeedToReopen, IsMine, Goto, aux
<1>12. ASSUME NEW t \in Threads, Rethrow(t) PROVE (OnlyCurrentIsOpen /\ NamesAreFresh)'
  BY <1>12 DEF Rethrow, Leave, Goto
<1>13. ASSUME NEW t \in Threads, Retry(t) PROVE (OnlyCurrentIsOpen /\ NamesAreFresh)'
  BY <1>13 DEF Retry, Enter, Goto, aux
<1> QED
  BY <1>1, <1>2, <1>3, <1>4, <1>5, <1>6, <1>7,
     <1>8, <1>9, <1>10, <1>11, <1>12, <1>13 DEF Next, Proceed

(* A thread that failed on nil throws something with-retry does not catch. *)
LEMMA FailedStep == WrapperInv /\ [Next]_vars /\ TypeOK' => FailedForAReason'
<1> SUFFICES ASSUME WrapperInv, [Next]_vars, TypeOK' PROVE FailedForAReason'
  OBVIOUS
<1> USE ReconnectAssumption DEF WrapperInv, TypeOK, FailedForAReason, NamesAreFresh
<1>1. CASE UNCHANGED vars
  BY <1>1 DEF vars
<1>2. ASSUME NEW t \in Threads, OpenWrapper(t) PROVE FailedForAReason'
  BY <1>2 DEF OpenWrapper, aux
<1>3. ASSUME NEW t \in Threads, CloseWrapper(t) PROVE FailedForAReason'
  BY <1>3 DEF CloseWrapper, aux
<1>4. ASSUME NEW t \in Threads, Call(t) PROVE FailedForAReason'
  BY <1>4 DEF Call, Enter, Goto, aux
<1>5. ASSUME NEW t \in Threads, Permit(t) PROVE FailedForAReason'
  BY <1>5 DEF Permit, Goto, aux
<1>6. ASSUME NEW t \in Threads, Return(t) PROVE FailedForAReason'
  BY <1>6 DEF Return, Leave, Goto
<1>7. ASSUME NEW t \in Threads, Throws(t) PROVE FailedForAReason'
  BY <1>7 DEF Throws, Goto
<1>8. ASSUME NEW t \in Threads, Interrupted(t) PROVE FailedForAReason'
  BY <1>8 DEF Interrupted, Leave, Goto
<1>9. ASSUME NEW t \in Threads, Reopen(t) PROVE FailedForAReason'
  BY <1>9 DEF Reopen, ClosedCurrent, IsMine, Goto, aux
<1>10. ASSUME NEW t \in Threads, ReopenFails(t) PROVE FailedForAReason'
  BY <1>10 DEF ReopenFails, ClosedCurrent, IsMine, Goto
<1>11. ASSUME NEW t \in Threads, NoNeedToReopen(t) PROVE FailedForAReason'
  BY <1>11 DEF NoNeedToReopen, IsMine, Goto, aux
<1>12. ASSUME NEW t \in Threads, Rethrow(t) PROVE FailedForAReason'
  BY <1>12 DEF Rethrow, Leave, Goto
<1>13. ASSUME NEW t \in Threads, Retry(t) PROVE FailedForAReason'
  BY <1>13 DEF Retry, Enter, Goto, aux
<1> QED
  BY <1>1, <1>2, <1>3, <1>4, <1>5, <1>6, <1>7,
     <1>8, <1>9, <1>10, <1>11, <1>12, <1>13 DEF Next, Proceed

(* A connection a call has left is not the current one again. *)
LEMMA LeftStep == WrapperInv /\ [Next]_vars /\ TypeOK' => \A u \in Threads : Left(u)'
<1> SUFFICES ASSUME WrapperInv, [Next]_vars, TypeOK' PROVE \A u \in Threads : Left(u)'
  OBVIOUS
<1> USE ReconnectAssumption DEF WrapperInv, TypeOK, FailedForAReason, NamesAreFresh, Left
<1>1. CASE UNCHANGED vars
  BY <1>1 DEF vars
<1>2. ASSUME NEW t \in Threads, OpenWrapper(t) PROVE \A u \in Threads : Left(u)'
  BY <1>2 DEF OpenWrapper, aux
<1>3. ASSUME NEW t \in Threads, CloseWrapper(t) PROVE \A u \in Threads : Left(u)'
  BY <1>3 DEF CloseWrapper, aux
<1>4. ASSUME NEW t \in Threads, Call(t) PROVE \A u \in Threads : Left(u)'
  BY <1>4 DEF Call, Enter, Goto, aux
<1>5. ASSUME NEW t \in Threads, Permit(t) PROVE \A u \in Threads : Left(u)'
  BY <1>5 DEF Permit, Goto, aux
<1>6. ASSUME NEW t \in Threads, Return(t) PROVE \A u \in Threads : Left(u)'
  BY <1>6 DEF Return, Leave, Goto
<1>7. ASSUME NEW t \in Threads, Throws(t) PROVE \A u \in Threads : Left(u)'
  BY <1>7 DEF Throws, Goto
<1>8. ASSUME NEW t \in Threads, Interrupted(t) PROVE \A u \in Threads : Left(u)'
  BY <1>8 DEF Interrupted, Leave, Goto
<1>9. ASSUME NEW t \in Threads, Reopen(t) PROVE \A u \in Threads : Left(u)'
  BY <1>9 DEF Reopen, ClosedCurrent, IsMine, Goto, aux
<1>10. ASSUME NEW t \in Threads, ReopenFails(t) PROVE \A u \in Threads : Left(u)'
  BY <1>10 DEF ReopenFails, ClosedCurrent, IsMine, Goto
<1>11. ASSUME NEW t \in Threads, NoNeedToReopen(t) PROVE \A u \in Threads : Left(u)'
  BY <1>11 DEF NoNeedToReopen, IsMine, Goto, aux
<1>12. ASSUME NEW t \in Threads, Rethrow(t) PROVE \A u \in Threads : Left(u)'
  BY <1>12 DEF Rethrow, Leave, Goto
<1>13. ASSUME NEW t \in Threads, Retry(t) PROVE \A u \in Threads : Left(u)'
  BY <1>13 DEF Retry, Enter, Goto, aux
<1> QED
  BY <1>1, <1>2, <1>3, <1>4, <1>5, <1>6, <1>7,
     <1>8, <1>9, <1>10, <1>11, <1>12, <1>13 DEF Next, Proceed

(* A retry binds the current connection, which its call has not failed on. *)
LEMMA RetriesStep == WrapperInv /\ [Next]_vars /\ TypeOK' => RetriesUseAnotherConn'
<1> SUFFICES ASSUME WrapperInv, [Next]_vars, TypeOK' PROVE RetriesUseAnotherConn'
  OBVIOUS
<1> USE ReconnectAssumption DEF WrapperInv, TypeOK, FailedForAReason, NamesAreFresh, Left, RetriesUseAnotherConn, Using
<1>1. CASE UNCHANGED vars
  BY <1>1 DEF vars
<1>2. ASSUME NEW t \in Threads, OpenWrapper(t) PROVE RetriesUseAnotherConn'
  BY <1>2 DEF OpenWrapper, aux
<1>3. ASSUME NEW t \in Threads, CloseWrapper(t) PROVE RetriesUseAnotherConn'
  BY <1>3 DEF CloseWrapper, aux
<1>4. ASSUME NEW t \in Threads, Call(t) PROVE RetriesUseAnotherConn'
  BY <1>4 DEF Call, Enter, Goto, aux
<1>5. ASSUME NEW t \in Threads, Permit(t) PROVE RetriesUseAnotherConn'
  BY <1>5 DEF Permit, Goto, aux
<1>6. ASSUME NEW t \in Threads, Return(t) PROVE RetriesUseAnotherConn'
  BY <1>6 DEF Return, Leave, Goto
<1>7. ASSUME NEW t \in Threads, Throws(t) PROVE RetriesUseAnotherConn'
  BY <1>7 DEF Throws, Goto
<1>8. ASSUME NEW t \in Threads, Interrupted(t) PROVE RetriesUseAnotherConn'
  BY <1>8 DEF Interrupted, Leave, Goto
<1>9. ASSUME NEW t \in Threads, Reopen(t) PROVE RetriesUseAnotherConn'
  BY <1>9 DEF Reopen, ClosedCurrent, IsMine, Goto, aux
<1>10. ASSUME NEW t \in Threads, ReopenFails(t) PROVE RetriesUseAnotherConn'
  BY <1>10 DEF ReopenFails, ClosedCurrent, IsMine, Goto
<1>11. ASSUME NEW t \in Threads, NoNeedToReopen(t) PROVE RetriesUseAnotherConn'
  BY <1>11 DEF NoNeedToReopen, IsMine, Goto, aux
<1>12. ASSUME NEW t \in Threads, Rethrow(t) PROVE RetriesUseAnotherConn'
  BY <1>12 DEF Rethrow, Leave, Goto
<1>13. ASSUME NEW t \in Threads, Retry(t) PROVE RetriesUseAnotherConn'
  BY <1>13 DEF Retry, Enter, Goto, aux
<1> QED
  BY <1>1, <1>2, <1>3, <1>4, <1>5, <1>6, <1>7,
     <1>8, <1>9, <1>10, <1>11, <1>12, <1>13 DEF Next, Proceed

-----------------------------------------------------------------------------
LEMMA InvStep == WrapperInv /\ [Next]_vars => WrapperInv'
<1> SUFFICES ASSUME WrapperInv, [Next]_vars PROVE WrapperInv'
  OBVIOUS
<1>1. TypeOK'
  BY TypesStep
<1> QED
  BY <1>1, OpenStep, FailedStep, LeftStep, RetriesStep DEF WrapperInv

(* The wrapper's invariant holds of every reachable state. *)
THEOREM WrapperInvariant == Spec => []WrapperInv
<1> QED
  BY InvInitially, InvStep, PTL DEF Spec

(* The types, and that the read lock is held exactly by the threads in a body. *)
THEOREM WrapperTypes == Spec => []TypeOK
<1>1. WrapperInv => TypeOK
  BY DEF WrapperInv
<1> QED
  BY <1>1, WrapperInvariant, PTL

(* reopen!, open! and close! never leave a connection that :open returned     *)
(* open behind, whichever of :open and :close fail.                           *)
THEOREM NoConnectionIsLeaked == Spec => []OnlyCurrentIsOpen
<1>1. WrapperInv => OnlyCurrentIsOpen
  BY DEF WrapperInv
<1> QED
  BY <1>1, WrapperInvariant, PTL

(* with-retry inside with-conn: a retry has another connection than the one *)
(* that failed, unless reopen! failed.                                      *)
THEOREM RetriesReconnect == Spec => []RetriesUseAnotherConn
<1>1. WrapperInv => RetriesUseAnotherConn
  BY DEF WrapperInv
<1> QED
  BY <1>1, WrapperInvariant, PTL

(* What closes a connection is reopen!, by a thread whose body failed on it, *)
(* or close!; both when no thread is in a body.                              *)
LEMMA ClosingStep ==
    ASSUME WrapperInv, Next, open \ open' # {}
    PROVE  /\ \A t \in Threads : ~Using(t)
           /\ \/ conn \in faulted
              \/ \E t \in Threads : CloseWrapper(t)
<1> USE DEF WrapperInv, TypeOK, Using
<1>1. ASSUME NEW t \in Threads, CloseWrapper(t)
      PROVE  /\ \A u \in Threads : ~Using(u)
             /\ \E u \in Threads : CloseWrapper(u)
  BY <1>1 DEF CloseWrapper
<1>2. ASSUME NEW t \in Threads, Reopen(t) \/ ReopenFails(t)
      PROVE  (\A u \in Threads : ~Using(u)) /\ conn \in faulted
  BY <1>2 DEF Reopen, ReopenFails, CanWrite, IsMine, FailedForAReason
<1>3. ASSUME NEW t \in Threads,
             \/ OpenWrapper(t) \/ Call(t) \/ Permit(t) \/ Return(t) \/ Throws(t)
             \/ Interrupted(t) \/ NoNeedToReopen(t) \/ Rethrow(t) \/ Retry(t)
      PROVE  open \subseteq open'
  BY <1>3 DEF OpenWrapper, Call, Permit, Return, Throws, Interrupted,
              NoNeedToReopen, Rethrow, Retry
<1> QED
  BY <1>1, <1>2, <1>3 DEF Next, Proceed

(* No step closes a connection that a body is using. *)
THEOREM BodiesKeepTheirConn == Spec => NoneClosedInUse
<1>1. WrapperInv /\ [Next]_vars =>
        [\A t \in Threads : (Using(t) /\ Using(t)' /\ c[t] \in open) => c[t] \in open']_vars
  BY ClosingStep
<1> QED
  BY <1>1, WrapperInvariant, PTL DEF Spec, NoneClosedInUse

(* A connection is closed only after a body has failed on it, or by close!. *)
THEOREM HealthyConnsAreKept == Spec => OnlyFailedAreReplaced
<1>1. WrapperInv /\ [Next]_vars =>
        [\A x \in open \ open' :
            x \in faulted \/ \E t \in Threads : CloseWrapper(t)]_vars
  <2> SUFFICES ASSUME WrapperInv, Next, NEW x \in open \ open'
               PROVE  x \in faulted \/ \E t \in Threads : CloseWrapper(t)
    OBVIOUS
  <2>1. x = conn
    BY DEF WrapperInv, OnlyCurrentIsOpen
  <2> QED
    BY <2>1, ClosingStep
<1> QED
  BY <1>1, WrapperInvariant, PTL DEF Spec, OnlyFailedAreReplaced
============================================================================
