------------------------ MODULE LifecycleProperties ------------------------
(***************************************************************************)
(* What run! of jepsen.core owes the nodes of a test and the test itself.  *)
(***************************************************************************)
EXTENDS Lifecycle

Phases == Catching \cup Throwing \cup
          {"nemesis setup", "case", "nemesis teardown", "save", "snarf", "analyze",
           "ended"}

\* The state of run!, of the threads of its real-pmap calls and of the nodes has
\* its type.
TypeOK ==
    /\ pc \in Phases /\ err \in Dull \cup Real \cup {None} /\ tries \in 1 .. CycleTries
    /\ thread \in [Nodes -> {"idle", "start", "arrive", "waiting", "go", "ok",
                             "threw"} \cup Dull \cup Real]
    /\ interrupt \subseteq Nodes
    /\ thrown \in [dull : Dull \cup {None}, real : Real \cup {None}]
    /\ barrier \in [waiting : SUBSET Nodes, broken : BOOLEAN]
    /\ sessions \subseteq Nodes
    /\ os \in [Nodes -> {"down", "up"}]
    /\ db \in [Nodes -> {"old", "down", "partial", "installed", "up"}]
    /\ client \in [Nodes -> {"none", "open", "set up", "closed"}]
    /\ nemesis \in {"none", "setting up", "up", "failed", "tearing down", "down",
                    "teardown failed"}
    /\ faults \in 0 .. MaxFaults /\ spoiled \subseteq Teardowns \cup {"nemesis teardown"}
    /\ primary \in BOOLEAN /\ leaveDb \in BOOLEAN /\ entered \in BOOLEAN
    /\ skips \subseteq Nodes /\ stuck \subseteq Nodes

\* cycle! sets up a database only on nodes from which it removed the one before,
\* on its first try and on every retry: no node of the cluster still runs what an
\* earlier test or an earlier try of this one left there.
SetupStartsClean ==
    pc \in {"db setup", "primary", "clients", "nemesis setup", "case"} =>
       \A n \in Nodes : db[n] # "old"

\* synchronize keeps the phases of setup! apart on all nodes: a node starts its
\* database only when all have installed it in this try, however threads of
\* earlier tries have left the barrier, and a node that never synchronizes lets
\* nobody through.
BarrierSeparatesPhases ==
    \A n \in Nodes \ skips :
       pc = "db setup" /\ (thread[n] = "go" \/ db[n] = "up") =>
          \A m \in Nodes : m \notin skips /\ db[m] \in {"installed", "up"}

\* As long as operations are run, everything they need is there: sessions,
\* operating systems, databases, the primary, clients and the nemesis, which a
\* future sets up beside the clients.  Afterwards the database is taken away only
\* when nobody uses it: clients are closed and the nemesis is torn down before,
\* unless tearing down clients failed.
UsersHaveTheirSystem ==
    /\ pc = "case" => /\ sessions = Nodes
                      /\ \A n \in Nodes : os[n] = "up" /\ db[n] = "up"
                                          /\ client[n] = "set up"
                      /\ primary /\ nemesis = "up"
    /\ pc \in {"save", "snarf", "db teardown", "os teardown"} /\ entered
       /\ "client teardown" \notin spoiled =>
          /\ \A n \in Nodes : client[n] = "closed"
          /\ nemesis \in {"down", "teardown failed"}

\* However run! ends, whichever call failed and in whatever phase, nodes are left
\* as the finally clauses promise: the sessions that are open are those whose own
\* disconnect threw, which with-resources drops; unless a teardown itself failed
\* the operating system is torn down, and no database of this test is there, nor
\* a part of one, unless it was to be left running.
NothingLeftBehind ==
    pc = "ended" =>
       /\ sessions = stuck
       /\ "os teardown" \notin spoiled => \A n \in Nodes : os[n] = "down"
       /\ ~leaveDb /\ "db teardown" \notin spoiled =>
             \A n \in Nodes : db[n] \in {"old", "down"}

-----------------------------------------------------------------------------
(* The inductive invariant the proofs rest on. *)

\* An exception of a thread is one of the phase, and disconnecting throws none.
ThrownIsKept ==
    /\ \A n \in Nodes : thread[n] = "threw" => thrown # Nothing
    /\ pc = "disconnect" => thrown = Nothing

\* Whoever waits at the barrier is a thread of this phase: a try of cycle! leaves
\* nobody there for the next.
WaitingInThisTry ==
    /\ \A n \in barrier.waiting : pc = "db setup" /\ thread[n] = "waiting"
    /\ barrier.broken => barrier.waiting = {}

\* How far a node's thread has come in its phase shows on the node.
NodeProgress(n) ==
    /\ pc = "connect" /\ thread[n] = "ok" => n \in sessions
    /\ pc = "os setup" /\ thread[n] = "ok" => os[n] = "up"
    /\ pc \in {"cycle", "db teardown"} /\ thread[n] = "ok" => db[n] = "down"
    /\ pc = "db setup" =>
          /\ thread[n] = "start" => db[n] = "down"
          /\ thread[n] \in {"arrive", "waiting"} => n \notin skips
          /\ thread[n] \in {"arrive", "waiting", "go"} => db[n] = "installed"
          /\ thread[n] = "ok" => db[n] = "up"
          /\ db[n] # "old"
    /\ pc = "primary" /\ thread[PrimaryNode] = "ok" => primary
    /\ pc = "clients" /\ thread[n] = "ok" => client[n] = "set up"
    /\ pc = "client teardown" /\ thread[n] = "ok" => client[n] = "closed"
    /\ pc = "os teardown" /\ thread[n] = "ok" => os[n] = "down"
    /\ pc = "disconnect" =>
          /\ thread[n] = "start" => n \notin stuck
          /\ thread[n] = "ok" => (n \in sessions <=> n \in stuck)

BeforeCase == {"connect", "os setup", "cycle", "db setup", "primary", "clients",
               "nemesis setup"}

\* What earlier phases have left for this one, on the way up to the test case.
ReadyForPhase ==
    /\ pc \notin {"connect", "disconnect", "ended"} => sessions = Nodes
    /\ pc \in (BeforeCase \ {"connect", "os setup"}) \cup {"case"} =>
          \A n \in Nodes : os[n] = "up"
    /\ pc \in {"primary", "clients", "nemesis setup", "case"} =>
          \A n \in Nodes : db[n] = "up"
    /\ pc \in {"clients", "nemesis setup", "case"} => primary
    /\ pc \in {"nemesis setup", "case"} => \A n \in Nodes : client[n] = "set up"
    /\ pc = "case" => nemesis = "up"
    /\ pc \in BeforeCase => ~entered
    /\ pc \notin {"disconnect", "ended"} => stuck = {}

\* And on the way back.
TornDown ==
    /\ pc = "nemesis teardown" => \A n \in Nodes : client[n] = "closed"
    /\ pc = "connect" => \A n \in Nodes : os[n] = "down"
    /\ pc \in {"analyze", "disconnect", "ended"} /\ "os teardown" \notin spoiled =>
          \A n \in Nodes : os[n] = "down"
    /\ pc \in {"connect", "os setup"} => \A n \in Nodes : db[n] = "old"
    /\ pc \in {"os teardown", "analyze", "disconnect", "ended"}
       /\ ~leaveDb /\ "db teardown" \notin spoiled =>
          \A n \in Nodes : db[n] \in {"old", "down"}
    /\ pc = "ended" => sessions = stuck

LifecycleInv ==
    /\ TypeOK
    /\ ThrownIsKept
    /\ WaitingInThisTry
    /\ \A n \in Nodes : NodeProgress(n)
    /\ ReadyForPhase
    /\ TornDown
    /\ BarrierSeparatesPhases
    /\ UsersHaveTheirSystem

-----------------------------------------------------------------------------
\* run! ends, although nodes wait for each other: those a failed node leaves
\* waiting are interrupted, and those a node that never synchronizes leaves
\* waiting time out.
RunEnds == <>(pc = "ended")
============================================================================
