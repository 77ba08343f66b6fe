----------------------------- MODULE Lifecycle -----------------------------
(***************************************************************************)
(* run! of jepsen.core: sessions, operating systems, the database with the *)
(* retries of db/cycle! and the barrier of synchronize, clients and        *)
(* nemesis, and the way back through all the finally clauses.              *)
(*                                                                         *)
(* The main thread goes from phase to phase.  A phase that works on nodes  *)
(* is a real-pmap: a thread per node, which the main thread waits for.     *)
(* When one throws, the others are interrupted; what the call throws is    *)
(* the first exception that is no interrupt, timeout or broken barrier, if *)
(* there is one.  The nemesis is set up and torn down by a future.         *)
(***************************************************************************)
EXTENDS Integers, FiniteSets

CONSTANTS Nodes,         \* (:nodes test)
          PrimaryNode,   \* the first of them
          CycleTries,    \* cycle-tries
          MaxFaults,     \* bound: how many calls throw an exception of their own
          None

ASSUME LifecycleAssumption ==
    /\ IsFiniteSet(Nodes) /\ PrimaryNode \in Nodes
    /\ CycleTries \in Nat \ {0} /\ MaxFaults \in Nat

VARIABLES
    pc,         \* the phase of the main thread
    err,        \* what run! is throwing, or None
    tries,      \* of cycle!, that are left
    thread,     \* the thread of every node in the current phase
    interrupt,  \* threads whose interrupt flag is set
    thrown,     \* the phase's first exceptions, of the dull and of the real kind
    barrier,    \* the CyclicBarrier: who waits in await, and is it broken?
    sessions,   \* nodes with an open session
    os, db,     \* what is on every node
    primary,    \* the primary is set up
    client,     \* the client of every node
    nemesis,    \* the nemesis, or the future that works on it
    leaveDb,    \* (:leave-db-running? test)
    skips,      \* nodes whose setup! of the database does not synchronize
    faults,     \* how many calls threw
    entered,    \* auxiliary: the test case was run
    spoiled,    \* auxiliary: teardowns that threw
    stuck       \* auxiliary: nodes whose disconnect threw

world == <<sessions, os, db, primary, client, nemesis>>
aux   == <<leaveDb, skips, entered, spoiled, stuck>>
vars  == <<pc, err, tries, thread, interrupt, thrown, barrier, world, faults, aux>>

Dull    == {"interrupted", "timeout", "broken barrier"}
Real    == {"error", "setup failed"}
Nothing == [dull |-> None, real |-> None]

ASSUME NoneIsNoException == None \notin Dull \cup Real

\* The phases that are calls of real-pmap.
Catching  == {"connect", "disconnect"}    \* with fcatch: exceptions are results
Throwing  == {"os setup", "os teardown", "cycle", "db setup", "primary",
              "clients", "client teardown", "db teardown"}
Teardowns == {"os teardown", "client teardown", "db teardown"}
NodesOf(phase) == IF phase \notin Catching \cup Throwing THEN {}
                  ELSE IF phase = "primary" THEN {PrimaryNode} ELSE Nodes

Init ==
    /\ pc = "connect"
    /\ err = None
    /\ tries = CycleTries
    /\ thread = [n \in Nodes |-> "start"]
    /\ interrupt = {}
    /\ thrown = Nothing
    /\ barrier = [waiting |-> {}, broken |-> FALSE]
    /\ sessions = {}
    /\ os = [n \in Nodes |-> "down"]
    /\ db = [n \in Nodes |-> "old"]
    /\ primary = FALSE
    /\ client = [n \in Nodes |-> "none"]
    /\ nemesis = "none"
    /\ leaveDb \in BOOLEAN
    /\ skips \in SUBSET Nodes
    /\ faults = 0
    /\ entered = FALSE
    /\ spoiled = {}
    /\ stuck = {}

-----------------------------------------------------------------------------
(* The threads of a phase. *)

Runs(phases, n, step) == pc \in phases /\ n \in NodesOf(pc) /\ thread[n] = step

MainStays == UNCHANGED <<pc, err, tries>>

\* A step of a node's thread that returns; its effect on the world is apart.
Moves(n, step) ==
    /\ thread' = [thread EXCEPT ![n] = step]
    /\ MainStays
    /\ UNCHANGED <<interrupt, thrown, faults, aux>>

\* The exceptions of a phase, with one more.
ThrownWith(kind) ==
    [dull |-> IF thrown.dull = None /\ kind \in Dull THEN kind ELSE thrown.dull,
     real |-> IF thrown.real = None /\ kind \in Real THEN kind ELSE thrown.real]

\* A node's thread ends with an exception, and the others are interrupted.
Throws(n, kind) ==
    /\ thread' = [thread EXCEPT ![n] = "threw"]
    /\ thrown' = ThrownWith(kind)
    /\ interrupt' = {m \in Nodes \ {n} : thread[m] \notin {"idle", "ok", "threw"}}
    /\ MainStays
    /\ UNCHANGED aux

\* What a node's thread does in the phases of one step.
Connect(n) ==
    /\ Runs({"connect"}, n, "start") /\ Moves(n, "ok")
    /\ sessions' = sessions \cup {n}
    /\ UNCHANGED <<os, db, primary, client, nemesis, barrier>>

Disconnect(n) ==
    /\ Runs({"disconnect"}, n, "start") /\ Moves(n, "ok")
    /\ sessions' = sessions \ {n}
    /\ UNCHANGED <<os, db, primary, client, nemesis, barrier>>

OsSetup(n) ==
    /\ Runs({"os setup"}, n, "start") /\ Moves(n, "ok")
    /\ os' = [os EXCEPT ![n] = "up"]
    /\ UNCHANGED <<sessions, db, primary, client, nemesis, barrier>>

OsTeardown(n) ==
    /\ Runs({"os teardown"}, n, "start") /\ Moves(n, "ok")
    /\ os' = [os EXCEPT ![n] = "down"]
    /\ UNCHANGED <<sessions, db, primary, client, nemesis, barrier>>

DbTeardown(n) ==
    /\ Runs({"cycle", "db teardown"}, n, "start") /\ Moves(n, "ok")
    /\ db' = [db EXCEPT ![n] = "down"]
    /\ UNCHANGED <<sessions, os, primary, client, nemesis, barrier>>

SetupPrimary(n) ==
    /\ Runs({"primary"}, n, "start") /\ Moves(n, "ok")
    /\ primary' = TRUE
    /\ UNCHANGED <<sessions, os, db, client, nemesis, barrier>>

\* A database's setup!, as those of the suites: install, synchronize, start.
Install(n) ==
    /\ Runs({"db setup"}, n, "start")
    /\ Moves(n, IF n \in skips THEN "go" ELSE "arrive")
    /\ db' = [db EXCEPT ![n] = "installed"]
    /\ UNCHANGED <<sessions, os, primary, client, nemesis, barrier>>

StartDb(n) ==
    /\ Runs({"db setup"}, n, "go") /\ Moves(n, "ok")
    /\ db' = [db EXCEPT ![n] = "up"]
    /\ UNCHANGED <<sessions, os, primary, client, nemesis, barrier>>

\* A client is opened and set up; it is torn down and, whatever comes of that,
\* closed.
OpenClient(n) ==
    /\ Runs({"clients"}, n, "start") /\ Moves(n, "go")
    /\ client' = [client EXCEPT ![n] = "open"]
    /\ UNCHANGED <<sessions, os, db, primary, nemesis, barrier>>

SetupClient(n) ==
    /\ Runs({"clients"}, n, "go") /\ Moves(n, "ok")
    /\ client' = [client EXCEPT ![n] = "set up"]
    /\ UNCHANGED <<sessions, os, db, primary, nemesis, barrier>>

TeardownClient(n) ==
    /\ Runs({"client teardown"}, n, "start") /\ Moves(n, "go")
    /\ client' = [client EXCEPT ![n] = "open"]
    /\ UNCHANGED <<sessions, os, db, primary, nemesis, barrier>>

CloseClient(n) ==
    /\ Runs({"client teardown"}, n, "go") /\ Moves(n, "ok")
    /\ client' = [client EXCEPT ![n] = "closed"]
    /\ UNCHANGED <<sessions, os, db, primary, nemesis, barrier>>

CloseAfterThrow(n, kind) ==
    /\ Runs({"client teardown"}, n, kind) /\ kind \in Dull \cup Real
    /\ Throws(n, kind)
    /\ client' = [client EXCEPT ![n] = "closed"]
    /\ UNCHANGED <<sessions, os, db, primary, nemesis, barrier, faults>>

-----------------------------------------------------------------------------
(* What a step throws, of its own or because it was interrupted. *)

Working(n) ==
    /\ pc \in Throwing /\ n \in NodesOf(pc)
    /\ thread[n] \in {"start", "arrive", "go"} \cup Dull \cup Real

\* A database's setup! may throw halfway through its install.
MayInstallPart(n) ==
    /\ \/ db' = db
       \/ Runs({"db setup"}, n, "start") /\ db' = [db EXCEPT ![n] = "partial"]
    /\ UNCHANGED <<sessions, os, primary, client, nemesis>>

\* The exception ends the thread, but for that of a client's teardown!, which the
\* thread keeps until it has closed the client.
Raises(n, kind) ==
    \/ /\ Runs({"client teardown"}, n, "start")
       /\ thread' = [thread EXCEPT ![n] = kind]
       /\ MainStays
       /\ UNCHANGED <<interrupt, thrown, aux>>
    \/ /\ ~Runs({"client teardown"}, n, "start")
       /\ Throws(n, kind)

Fails(n, kind) ==
    /\ faults < MaxFaults
    /\ Working(n)
    /\ kind = "setup failed" => pc \in {"db setup", "primary"}
    /\ Raises(n, kind)
    /\ faults' = faults + 1
    /\ MayInstallPart(n)
    /\ UNCHANGED barrier

Interrupted(n) ==
    /\ n \in interrupt
    /\ Working(n)
    /\ Raises(n, "interrupted")
    /\ MayInstallPart(n)
    /\ UNCHANGED <<barrier, faults>>

\* A session that cannot be opened.
ConnectFails(n) ==
    /\ faults < MaxFaults
    /\ Runs({"connect"}, n, "start")
    /\ thread' = [thread EXCEPT ![n] = "threw"]
    /\ thrown' = ThrownWith("error")
    /\ faults' = faults + 1
    /\ MainStays
    /\ UNCHANGED <<interrupt, world, barrier, aux>>

\* A session that cannot be closed stays open: the exception is a result that
\* nobody looks at.
DisconnectFails(n) ==
    /\ faults < MaxFaults
    /\ Runs({"disconnect"}, n, "start") /\ n \in sessions
    /\ thread' = [thread EXCEPT ![n] = "ok"]
    /\ stuck' = stuck \cup {n}
    /\ faults' = faults + 1
    /\ MainStays
    /\ UNCHANGED <<interrupt, thrown, world, barrier, leaveDb, skips, entered, spoiled>>

-----------------------------------------------------------------------------
(* The barrier.  External: java.util.concurrent.CyclicBarrier.  A barrier    *)
(* that is broken stays so.                                                  *)

Breaks(n, kind) ==
    /\ Throws(n, kind)
    /\ barrier' = [waiting |-> {}, broken |-> TRUE]
    /\ UNCHANGED <<world, faults>>

\* Mutant of Parties: the barrier counts one node too few.
PartiesButOne == Cardinality(Nodes) - 1

\* How many threads the barrier of prepare-test waits for.
Parties == Cardinality(Nodes)

\* synchronize: the last to arrive lets everybody go.
Await(n) ==
    /\ Runs({"db setup"}, n, "arrive")
    /\ ~barrier.broken /\ n \notin interrupt
    /\ LET waiting == barrier.waiting \cup {n}
       IN IF Cardinality(waiting) = Parties
          THEN /\ thread' = [m \in Nodes |-> IF m = n \/ thread[m] = "waiting"
                                             THEN "go" ELSE thread[m]]
               /\ barrier' = [barrier EXCEPT !.waiting = {}]
          ELSE /\ thread' = [thread EXCEPT ![n] = "waiting"]
               /\ barrier' = [barrier EXCEPT !.waiting = waiting]
    /\ MainStays
    /\ UNCHANGED <<interrupt, thrown, world, faults, aux>>

AwaitInterrupted(n) ==
    /\ Runs({"db setup"}, n, "arrive") \/ Runs({"db setup"}, n, "waiting")
    /\ ~barrier.broken /\ n \in interrupt
    /\ Breaks(n, "interrupted")

AwaitBroken(n) ==
    /\ Runs({"db setup"}, n, "arrive") \/ Runs({"db setup"}, n, "waiting")
    /\ barrier.broken
    /\ Throws(n, "broken barrier")
    /\ UNCHANGED <<world, barrier, faults>>

\* Mutant of AwaitTimesOut: .await without a timeout.
AwaitForever(n) == FALSE /\ UNCHANGED vars

AwaitTimesOut(n) ==
    /\ Runs({"db setup"}, n, "waiting")
    /\ ~barrier.broken
    /\ Breaks(n, "timeout")

NodeStep(n) ==
    \/ Connect(n) \/ Disconnect(n) \/ OsSetup(n) \/ OsTeardown(n)
    \/ DbTeardown(n) \/ SetupPrimary(n) \/ Install(n) \/ StartDb(n)
    \/ OpenClient(n) \/ SetupClient(n) \/ TeardownClient(n) \/ CloseClient(n)
    \/ \E kind \in Dull \cup Real : CloseAfterThrow(n, kind)
    \/ Await(n) \/ AwaitInterrupted(n) \/ AwaitBroken(n) \/ AwaitTimesOut(n)

-----------------------------------------------------------------------------
(* The nemesis' future, which nothing interrupts. *)

NemesisWorks ==
    /\ nemesis \in {"setting up", "tearing down"}
    /\ \/ /\ nemesis' = IF nemesis = "setting up" THEN "up" ELSE "down"
          /\ UNCHANGED faults
       \/ /\ faults < MaxFaults
          /\ nemesis' = IF nemesis = "setting up" THEN "failed" ELSE "teardown failed"
          /\ faults' = faults + 1
    /\ MainStays
    /\ UNCHANGED <<thread, interrupt, thrown, barrier, sessions, os, db, primary,
                   client, aux>>

-----------------------------------------------------------------------------
(* The main thread. *)

\* To another phase, throwing e or not.
Goes(phase, e) ==
    /\ pc' = phase
    /\ err' = e
    /\ thread' = [n \in Nodes |-> IF n \in NodesOf(phase) THEN "start" ELSE "idle"]
    /\ interrupt' = {}
    /\ thrown' = Nothing
    /\ UNCHANGED <<barrier, sessions, os, primary, client>>

Joined ==
    /\ NodesOf(pc) # {}
    /\ \A n \in NodesOf(pc) : thread[n] \in {"ok", "threw"}

\* Where the main thread goes on when a phase returns: what it was throwing when
\* the phase began, in a finally clause, it still throws after it.
AfterReturn(phase) ==
    CASE phase = "connect"         -> "os setup"
      [] phase = "os setup"        -> "cycle"
      [] phase = "cycle"           -> "db setup"
      [] phase = "db setup"        -> "primary"
      [] phase = "primary"         -> "clients"
      [] phase = "clients"         -> "nemesis setup"
      [] phase = "client teardown" -> "nemesis teardown"
      [] phase = "db teardown"     -> "os teardown"
      [] phase = "os teardown"     -> IF err = None THEN "analyze" ELSE "disconnect"
      [] phase = "disconnect"      -> "ended"

\* Mutant of AfterThrow: only a test that was run is torn down.
AfterThrowNoDb(phase) ==
    CASE phase = "connect"                  -> "disconnect"
      [] phase = "os setup"                 -> "os teardown"
      [] phase \in {"cycle", "db setup", "primary", "clients"} -> "os teardown"
      [] phase = "client teardown"          -> "snarf"
      [] phase = "db teardown"              -> "os teardown"
      [] phase = "os teardown"              -> "disconnect"

\* And when it throws: to the next finally clause.
AfterThrow(phase) ==
    CASE phase = "connect"                  -> "disconnect"
      [] phase = "os setup"                 -> "os teardown"
      [] phase \in {"cycle", "db setup", "primary", "clients", "client teardown"}
                                            -> "snarf"
      [] phase = "db teardown"              -> "os teardown"
      [] phase = "os teardown"              -> "disconnect"

PhaseReturns ==
    /\ Joined
    /\ thrown = Nothing
    /\ Goes(AfterReturn(pc), err)
    /\ nemesis' = IF pc = "primary" THEN "setting up" ELSE nemesis
    /\ UNCHANGED <<tries, db, faults, aux>>

Exception == IF thrown.real # None THEN thrown.real ELSE thrown.dull

\* setup! or setup-primary! threw ::setup-failed: cycle! begins again.
Retries == pc \in {"db setup", "primary"} /\ Exception = "setup failed" /\ tries > 1

\* Mutant of CycleAgain: without another teardown.
SetupAgain ==
    /\ Joined /\ thrown # Nothing /\ Retries
    /\ Goes("db setup", err)
    /\ tries' = tries - 1
    /\ db' = [n \in Nodes |-> IF db[n] = "down" THEN "down" ELSE "old"]
    /\ UNCHANGED <<nemesis, faults, aux>>

CycleAgain ==
    /\ Joined /\ thrown # Nothing /\ Retries
    /\ Goes("cycle", err)
    /\ tries' = tries - 1
    /\ db' = [n \in Nodes |-> IF db[n] = "down" THEN "down" ELSE "old"]
    /\ UNCHANGED <<nemesis, faults, aux>>

\* What a finally clause throws takes the place of what was being thrown.
PhaseThrows ==
    /\ Joined /\ thrown # Nothing /\ ~Retries
    /\ Goes(AfterThrow(pc), Exception)
    /\ spoiled' = IF pc \in Teardowns THEN spoiled \cup {pc} ELSE spoiled
    /\ UNCHANGED <<tries, db, nemesis, faults, leaveDb, skips, entered, stuck>>

\* @nf, of the nemesis' setup: it returns, or throws out of the form, past the
\* finally clause that is not entered yet.
AwaitNemesis ==
    /\ pc = "nemesis setup"
    /\ \/ nemesis = "up" /\ Goes("case", err) /\ entered' = TRUE
       \/ nemesis = "failed" /\ Goes("snarf", "error") /\ UNCHANGED entered
    /\ UNCHANGED <<tries, db, nemesis, faults, leaveDb, skips, spoiled, stuck>>

\* The interpreter's run! returns or throws: clients and nemesis are torn down.
RunCase ==
    /\ pc = "case"
    /\ \/ Goes("client teardown", None) /\ UNCHANGED faults
       \/ /\ faults < MaxFaults
          /\ Goes("client teardown", "error")
          /\ faults' = faults + 1
    /\ nemesis' = "tearing down"
    /\ UNCHANGED <<tries, db, aux>>

\* Mutant of AwaitTeardown: the future is not waited for.
AwaitNoTeardown ==
    /\ pc = "nemesis teardown"
    /\ Goes(IF err = None THEN "save" ELSE "snarf", err)
    /\ UNCHANGED <<tries, db, nemesis, faults, aux>>

\* @nf, of its teardown.
AwaitTeardown ==
    /\ pc = "nemesis teardown"
    /\ \/ /\ nemesis = "down"
          /\ Goes(IF err = None THEN "save" ELSE "snarf", err)
          /\ UNCHANGED spoiled
       \/ /\ nemesis = "teardown failed"
          /\ Goes("snarf", "error")
          /\ spoiled' = spoiled \cup {"nemesis teardown"}
    /\ UNCHANGED <<tries, db, nemesis, faults, leaveDb, skips, entered, stuck>>

\* save-1!, snarf-logs!, and the analysis with save-2!: steps that throw or do
\* not.  When run! is already throwing, maybe-snarf-logs! swallows what
\* snarf-logs! throws.
MainWork(phase, next) ==
    /\ pc = phase
    /\ \/ Goes(next, err) /\ UNCHANGED faults
       \/ /\ err = None /\ faults < MaxFaults
          /\ Goes(IF phase = "save" THEN "snarf" ELSE next, "error")
          /\ faults' = faults + 1
    /\ UNCHANGED <<tries, db, nemesis, aux>>

MainStep ==
    \/ PhaseReturns \/ CycleAgain \/ PhaseThrows \/ AwaitNemesis \/ RunCase
    \/ AwaitTeardown
    \/ MainWork("save", "snarf")
    \/ MainWork("snarf", IF leaveDb THEN "os teardown" ELSE "db teardown")
    \/ MainWork("analyze", "disconnect")

Next ==
    \/ MainStep
    \/ NemesisWorks
    \/ \E n \in Nodes : \/ NodeStep(n) \/ Interrupted(n)
                        \/ ConnectFails(n) \/ DisconnectFails(n)
                        \/ \E kind \in Real : Fails(n, kind)

Spec == Init /\ [][Next]_vars

\* Every thread goes on: what setup!, teardown! and the clients call returns or
\* throws in the end.
FairSpec ==
    /\ Spec
    /\ WF_vars(MainStep)
    /\ WF_vars(NemesisWorks)
    /\ \A n \in Nodes : WF_vars(NodeStep(n))
============================================================================
