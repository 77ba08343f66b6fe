-------------------------- MODULE LifecycleProofs --------------------------
(***************************************************************************)
(* Proofs, for any number of nodes, of tries and of failing calls, that    *)
(* run! sets a test up in order and takes it down again.                   *)
(***************************************************************************)
EXTENDS LifecycleProperties, FiniteSetTheorems, TLAPS

-----------------------------------------------------------------------------
(* The initial states, and the exceptions of a phase. *)

LEMMA InitLifecycleInv == Init => LifecycleInv
<1>. SUFFICES ASSUME Init PROVE LifecycleInv
  OBVIOUS
<1>1. TypeOK
  <2>1. /\ pc \in Phases /\ tries \in 1 .. CycleTries /\ faults \in 0 .. MaxFaults
        /\ thrown \in [dull : Dull \cup {None}, real : Real \cup {None}]
    BY LifecycleAssumption DEF Init, Phases, Catching, Nothing
  <2>2. primary \in BOOLEAN /\ leaveDb \in BOOLEAN /\ entered \in BOOLEAN
    BY DEF Init
  <2>. QED  BY <2>1, <2>2 DEF Init, TypeOK
<1>2. ThrownIsKept /\ WaitingInThisTry /\ \A n \in Nodes : NodeProgress(n)
  BY DEF Init, ThrownIsKept, WaitingInThisTry, NodeProgress
<1>3. ReadyForPhase /\ TornDown /\ BarrierSeparatesPhases /\ UsersHaveTheirSystem
  BY DEF Init, ReadyForPhase, BeforeCase, TornDown, BarrierSeparatesPhases,
         UsersHaveTheirSystem
<1>. QED
  BY <1>1, <1>2, <1>3 DEF LifecycleInv

\* An exception of a thread is remembered.
LEMMA ThrownWithKind ==
    ASSUME TypeOK, NEW kind \in Dull \cup Real
    PROVE  /\ ThrownWith(kind) # Nothing
           /\ ThrownWith(kind) \in [dull : Dull \cup {None}, real : Real \cup {None}]
<1>1. kind # None
  BY NoneIsNoException
<1>. QED
  BY <1>1 DEF ThrownWith, TypeOK, Nothing

\* Another call throws.
LEMMA OneMoreFault ==
    ASSUME faults \in 0 .. MaxFaults, faults < MaxFaults
    PROVE  faults + 1 \in 0 .. MaxFaults
  BY LifecycleAssumption

-----------------------------------------------------------------------------
(* The threads of the nodes. *)

\* A thread that goes on leaves the exceptions and the barrier as they are.
LEMMA MovesStep ==
    ASSUME LifecycleInv, NEW n \in Nodes, thread[n] # "waiting",
           NEW step \in {"arrive", "go", "ok"}, Moves(n, step), barrier' = barrier
    PROVE  ThrownIsKept' /\ WaitingInThisTry'
<1>1. thread' = [thread EXCEPT ![n] = step] /\ pc' = pc /\ thrown' = thrown
  BY DEF Moves, MainStays
<1>2. ThrownIsKept'
  BY <1>1 DEF LifecycleInv, TypeOK, ThrownIsKept
<1>3. WaitingInThisTry'
  BY <1>1 DEF LifecycleInv, TypeOK, WaitingInThisTry
<1>. QED
  BY <1>2, <1>3

\* What a thread does that neither throws nor meets the barrier.
Works(n) ==
    \/ Connect(n) \/ Disconnect(n) \/ OsSetup(n) \/ OsTeardown(n)
    \/ DbTeardown(n) \/ SetupPrimary(n) \/ Install(n) \/ StartDb(n)
    \/ OpenClient(n) \/ SetupClient(n) \/ TeardownClient(n) \/ CloseClient(n)

LEMMA WorksStep ==
    ASSUME LifecycleInv, NEW n \in Nodes, Works(n)
    PROVE  LifecycleInv'
<1>0. ThrownIsKept' /\ WaitingInThisTry'
  <2>1. /\ barrier' = barrier
        /\ thread[n] # "waiting"
        /\ Moves(n, "arrive") \/ Moves(n, "go") \/ Moves(n, "ok")
    BY DEF Works, Runs, Connect, Disconnect, OsSetup, OsTeardown, DbTeardown, SetupPrimary,
           Install, StartDb, OpenClient, SetupClient, TeardownClient, CloseClient
  <2>. QED  BY <2>1, MovesStep
<1>. USE DEF LifecycleInv, TypeOK, Runs, Moves, MainStays, aux
<1>1. CASE Connect(n)
  <2>1. TypeOK'
    BY <1>1 DEF Connect
  <2>2. \A m \in Nodes : NodeProgress(m)'
    BY <1>1 DEF Connect, NodeProgress
  <2>3. ReadyForPhase'
    BY <1>1 DEF Connect, ReadyForPhase, BeforeCase
  <2>4. TornDown'
    BY <1>1 DEF Connect, TornDown
  <2>5. BarrierSeparatesPhases'
    BY <1>1 DEF Connect, BarrierSeparatesPhases, NodeProgress
  <2>6. UsersHaveTheirSystem'
    BY <1>1 DEF Connect, UsersHaveTheirSystem
  <2>. QED
    BY <1>0, <2>1, <2>2, <2>3, <2>4, <2>5, <2>6
<1>2. CASE Disconnect(n)
  <2>1. TypeOK'
    BY <1>2 DEF Disconnect
  <2>2. \A m \in Nodes : NodeProgress(m)'
    BY <1>2 DEF Disconnect, NodeProgress
  <2>3. ReadyForPhase'
    BY <1>2 DEF Disconnect, ReadyForPhase, BeforeCase
  <2>4. TornDown'
    BY <1>2 DEF Disconnect, TornDown
  <2>5. BarrierSeparatesPhases'
    BY <1>2 DEF Disconnect, BarrierSeparatesPhases, NodeProgress
  <2>6. UsersHaveTheirSystem'
    BY <1>2 DEF Disconnect, UsersHaveTheirSystem
  <2>. QED
    BY <1>0, <2>1, <2>2, <2>3, <2>4, <2>5, <2>6
<1>3. CASE OsSetup(n)
  <2>1. TypeOK'
    BY <1>3 DEF OsSetup
  <2>2. \A m \in Nodes : NodeProgress(m)'
    BY <1>3 DEF OsSetup, NodeProgress
  <2>3. ReadyForPhase'
    BY <1>3 DEF OsSetup, ReadyForPhase, BeforeCase
  <2>4. TornDown'
    BY <1>3 DEF OsSetup, TornDown
  <2>5. BarrierSeparatesPhases'
    BY <1>3 DEF OsSetup, BarrierSeparatesPhases, NodeProgress
  <2>6. UsersHaveTheirSystem'
    BY <1>3 DEF OsSetup, UsersHaveTheirSystem
  <2>. QED
    BY <1>0, <2>1, <2>2, <2>3, <2>4, <2>5, <2>6
<1>4. CASE OsTeardown(n)
  <2>1. TypeOK'
    BY <1>4 DEF OsTeardown
  <2>2. \A m \in Nodes : NodeProgress(m)'
    BY <1>4 DEF OsTeardown, NodeProgress
  <2>3. ReadyForPhase'
    BY <1>4 DEF OsTeardown, ReadyForPhase, BeforeCase
  <2>4. TornDown'
    BY <1>4 DEF OsTeardown, TornDown
  <2>5. BarrierSeparatesPhases'
    BY <1>4 DEF OsTeardown, BarrierSeparatesPhases, NodeProgress
  <2>6. UsersHaveTheirSystem'
    BY <1>4 DEF OsTeardown, UsersHaveTheirSystem
  <2>. QED
    BY <1>0, <2>1, <2>2, <2>3, <2>4, <2>5, <2>6
<1>5. CASE DbTeardown(n)
  <2>1. TypeOK'
    BY <1>5 DEF DbTeardown
  <2>2. \A m \in Nodes : NodeProgress(m)'
    BY <1>5 DEF DbTeardown, NodeProgress
  <2>3. ReadyForPhase'
    BY <1>5 DEF DbTeardown, ReadyForPhase, BeforeCase
  <2>4. TornDown'
    BY <1>5 DEF DbTeardown, TornDown
  <2>5. BarrierSeparatesPhases'
    BY <1>5 DEF DbTeardown, BarrierSeparatesPhases, NodeProgress
  <2>6. UsersHaveTheirSystem'
    BY <1>5 DEF DbTeardown, UsersHaveTheirSystem
  <2>. QED
    BY <1>0, <2>1, <2>2, <2>3, <2>4, <2>5, <2>6
<1>6. CASE SetupPrimary(n)
  <2>1. TypeOK'
    BY <1>6 DEF SetupPrimary
  <2>2. \A m \in Nodes : NodeProgress(m)'
    BY <1>6 DEF SetupPrimary, NodeProgress
  <2>3. ReadyForPhase'
    BY <1>6 DEF SetupPrimary, ReadyForPhase, BeforeCase
  <2>4. TornDown'
    BY <1>6 DEF SetupPrimary, TornDown
  <2>5. BarrierSeparatesPhases'
    BY <1>6 DEF SetupPrimary, BarrierSeparatesPhases, NodeProgress
  <2>6. UsersHaveTheirSystem'
    BY <1>6 DEF SetupPrimary, UsersHaveTheirSystem
  <2>. QED
    BY <1>0, <2>1, <2>2, <2>3, <2>4, <2>5, <2>6
<1>7. CASE Install(n)
  <2>1. TypeOK'
    BY <1>7 DEF Install
  <2>2. \A m \in Nodes : NodeProgress(m)'
    BY <1>7 DEF Install, NodeProgress
  <2>3. ReadyForPhase'
    BY <1>7 DEF Install, ReadyForPhase, BeforeCase
  <2>4. TornDown'
    BY <1>7 DEF Install, TornDown
  <2>5. BarrierSeparatesPhases'
    BY <1>7 DEF Install, BarrierSeparatesPhases, NodeProgress
  <2>6. UsersHaveTheirSystem'
    BY <1>7 DEF Install, UsersHaveTheirSystem
  <2>. QED
    BY <1>0, <2>1, <2>2, <2>3, <2>4, <2>5, <2>6
<1>8. CASE StartDb(n)
  <2>1. TypeOK'
    BY <1>8 DEF StartDb
  <2>2. \A m \in Nodes : NodeProgress(m)'
    BY <1>8 DEF StartDb, NodeProgress
  <2>3. ReadyForPhase'
    BY <1>8 DEF StartDb, ReadyForPhase, BeforeCase
  <2>4. TornDown'
    BY <1>8 DEF StartDb, TornDown
  <2>5. BarrierSeparatesPhases'
    BY <1>8 DEF StartDb, BarrierSeparatesPhases, NodeProgress
  <2>6. UsersHaveTheirSystem'
    BY <1>8 DEF StartDb, UsersHaveTheirSystem
  <2>. QED
    BY <1>0, <2>1, <2>2, <2>3, <2>4, <2>5, <2>6
<1>9. CASE OpenClient(n)
  <2>1. TypeOK'
    BY <1>9 DEF OpenClient
  <2>2. \A m \in Nodes : NodeProgress(m)'
    BY <1>9 DEF OpenClient, NodeProgress
  <2>3. ReadyForPhase'
    BY <1>9 DEF OpenClient, ReadyForPhase, BeforeCase
  <2>4. TornDown'
    BY <1>9 DEF OpenClient, TornDown
  <2>5. BarrierSeparatesPhases'
    BY <1>9 DEF OpenClient, BarrierSeparatesPhases, NodeProgress
  <2>6. UsersHaveTheirSystem'
    BY <1>9 DEF OpenClient, UsersHaveTheirSystem
  <2>. QED
    BY <1>0, <2>1, <2>2, <2>3, <2>4, <2>5, <2>6
<1>10. CASE SetupClient(n)
  <2>1. TypeOK'
    BY <1>10 DEF SetupClient
  <2>2. \A m \in Nodes : NodeProgress(m)'
    BY <1>10 DEF SetupClient, NodeProgress
  <2>3. ReadyForPhase'
    BY <1>10 DEF SetupClient, ReadyForPhase, BeforeCase
  <2>4. TornDown'
    BY <1>10 DEF SetupClient, TornDown
  <2>5. BarrierSeparatesPhases'
    BY <1>10 DEF SetupClient, BarrierSeparatesPhases, NodeProgress
  <2>6. UsersHaveTheirSystem'
    BY <1>10 DEF SetupClient, UsersHaveTheirSystem
  <2>. QED
    BY <1>0, <2>1, <2>2, <2>3, <2>4, <2>5, <2>6
<1>11. CASE TeardownClient(n)
  <2>1. TypeOK'
    BY <1>11 DEF TeardownClient
  <2>2. \A m \in Nodes : NodeProgress(m)'
    BY <1>11 DEF TeardownClient, NodeProgress
  <2>3. ReadyForPhase'
    BY <1>11 DEF TeardownClient, ReadyForPhase, BeforeCase
  <2>4. TornDown'
    BY <1>11 DEF TeardownClient, TornDown
  <2>5. BarrierSeparatesPhases'
    BY <1>11 DEF TeardownClient, BarrierSeparatesPhases, NodeProgress
  <2>6. UsersHaveTheirSystem'
    BY <1>11 DEF TeardownClient, UsersHaveTheirSystem
  <2>. QED
    BY <1>0, <2>1, <2>2, <2>3, <2>4, <2>5, <2>6
<1>12. CASE CloseClient(n)
  <2>1. TypeOK'
    BY <1>12 DEF CloseClient
  <2>2. \A m \in Nodes : NodeProgress(m)'
    BY <1>12 DEF CloseClient, NodeProgress
  <2>3. ReadyForPhase'
    BY <1>12 DEF CloseClient, ReadyForPhase, BeforeCase
  <2>4. TornDown'
    BY <1>12 DEF CloseClient, TornDown
  <2>5. BarrierSeparatesPhases'
    BY <1>12 DEF CloseClient, BarrierSeparatesPhases, NodeProgress
  <2>6. UsersHaveTheirSystem'
    BY <1>12 DEF CloseClient, UsersHaveTheirSystem
  <2>. QED
    BY <1>0, <2>1, <2>2, <2>3, <2>4, <2>5, <2>6
<1>. QED
  BY <1>1, <1>2, <1>3, <1>4, <1>5, <1>6, <1>7, <1>8, <1>9, <1>10, <1>11, <1>12 DEF Works

\* A thread that ends with an exception, of its own, at the barrier or after it has
\* closed its client.
LEMMA ThrowsStep ==
    ASSUME LifecycleInv, NEW n \in Nodes, NEW kind \in Dull \cup Real,
           Throws(n, kind), pc \in Throwing, faults' \in 0 .. MaxFaults,
           UNCHANGED <<sessions, os, primary, nemesis>>,
           \/ db' = db
           \/ Runs({"db setup"}, n, "start") /\ db' = [db EXCEPT ![n] = "partial"],
           \/ client' = client
           \/ pc = "client teardown" /\ client' = [client EXCEPT ![n] = "closed"],
           \/ barrier' = barrier /\ (thread[n] = "waiting" => barrier.broken)
           \/ barrier' = [waiting |-> {}, broken |-> TRUE]
    PROVE  LifecycleInv'
<1>. USE DEF LifecycleInv, TypeOK, Throws, MainStays, aux
<1>1. TypeOK'
  <2>1. thrown' \in [dull : Dull \cup {None}, real : Real \cup {None}]
    BY ThrownWithKind
  <2>2. barrier' \in [waiting : SUBSET Nodes, broken : BOOLEAN]
    <3>1. [waiting |-> {}, broken |-> TRUE] \in [waiting : SUBSET Nodes, broken : BOOLEAN]
      OBVIOUS
    <3>. QED  BY <3>1, Zenon
  <2>3. client' \in [Nodes -> {"none", "open", "set up", "closed"}]
    OBVIOUS
  <2>4. interrupt' \subseteq Nodes
    OBVIOUS
  <2>5. db' \in [Nodes -> {"old", "down", "partial", "installed", "up"}]
    OBVIOUS
  <2>. QED  BY <2>1, <2>2, <2>3, <2>4, <2>5
<1>2. ThrownIsKept'
  BY ThrownWithKind DEF Throwing, ThrownIsKept
<1>3. WaitingInThisTry'
  <2>1. CASE barrier' = barrier /\ (thread[n] = "waiting" => barrier.broken)
    BY <2>1 DEF WaitingInThisTry
  <2>2. CASE barrier' = [waiting |-> {}, broken |-> TRUE]
    BY <2>2 DEF WaitingInThisTry
  <2>. QED  BY <2>1, <2>2
<1>4. ASSUME NEW m \in Nodes PROVE NodeProgress(m)'
  <2>1. thread'[m] = IF m = n THEN "threw" ELSE thread[m]
    OBVIOUS
  <2>2. thread'[PrimaryNode] = "ok" => thread[PrimaryNode] = "ok"
    BY LifecycleAssumption
  <2>3. client'[m] = client[m] \/ (pc = "client teardown" /\ client'[m] = "closed")
    OBVIOUS
  <2>4. NodeProgress(m)
    OBVIOUS
  <2>5. db'[m] = db[m] \/ (m = n /\ pc = "db setup" /\ db'[m] = "partial")
    BY DEF Runs
  <2>. QED  BY <2>1, <2>2, <2>3, <2>4, <2>5 DEF NodeProgress
<1>5. ReadyForPhase'
  BY DEF ReadyForPhase, BeforeCase, Runs
<1>6. TornDown'
  BY DEF TornDown, Runs
<1>7. BarrierSeparatesPhases'
  <2>1. CASE db' = db
    BY <2>1 DEF BarrierSeparatesPhases
  <2>2. CASE Runs({"db setup"}, n, "start") /\ db' = [db EXCEPT ![n] = "partial"]
    <3>1. pc = "db setup" /\ db[n] = "down"
      BY <2>2 DEF Runs, NodeProgress
    <3>2. \A m \in Nodes \ skips : thread[m] # "go" /\ db[m] # "up"
      BY <3>1 DEF BarrierSeparatesPhases
    <3>. QED  BY <2>2, <3>2 DEF BarrierSeparatesPhases
  <2>. QED  BY <2>1, <2>2
<1>8. UsersHaveTheirSystem'
  BY DEF UsersHaveTheirSystem, Runs
<1>. QED
  BY <1>1, <1>2, <1>3, <1>4, <1>5, <1>6, <1>7, <1>8

\* The exception of a client's teardown!, kept until the client is closed.
LEMMA KeptExceptionStep ==
    ASSUME LifecycleInv, NEW n \in Nodes, NEW kind \in Dull \cup Real,
           Runs({"client teardown"}, n, "start"),
           thread' = [thread EXCEPT ![n] = kind],
           faults' \in 0 .. MaxFaults, MainStays,
           UNCHANGED <<interrupt, thrown, aux, world, barrier>>
    PROVE  LifecycleInv'
<1>. USE DEF LifecycleInv, TypeOK, Runs, MainStays, aux, world
<1>0. kind \notin {"ok", "threw", "waiting"}
  BY DEF Dull, Real
<1>1. TypeOK'
  <2>1. thread' \in [Nodes -> {"idle", "start", "arrive", "waiting", "go", "ok",
                               "threw"} \cup Dull \cup Real]
    OBVIOUS
  <2>. QED  BY <2>1
<1>2. ThrownIsKept' /\ WaitingInThisTry'
  BY <1>0 DEF ThrownIsKept, WaitingInThisTry
<1>3. \A m \in Nodes : NodeProgress(m)'
  BY <1>0 DEF NodeProgress
<1>4. ReadyForPhase' /\ TornDown'
  BY DEF ReadyForPhase, BeforeCase, TornDown
<1>5. BarrierSeparatesPhases'
  BY DEF BarrierSeparatesPhases
<1>6. UsersHaveTheirSystem'
  BY DEF UsersHaveTheirSystem
<1>. QED
  BY <1>1, <1>2, <1>3, <1>4, <1>5, <1>6

\* await, for the last node to arrive or for one before it.  The last finds all
\* others waiting, each with the database installed.
LEMMA AwaitStep ==
    ASSUME LifecycleInv, NEW n \in Nodes, Await(n)
    PROVE  LifecycleInv'
<1>. DEFINE waiting == barrier.waiting \cup {n}
            Last    == Cardinality(waiting) = Parties
<1>. USE DEF LifecycleInv, TypeOK, Runs, MainStays, aux, world
<1>1. /\ pc = "db setup" /\ thread[n] = "arrive" /\ ~barrier.broken
      /\ MainStays /\ UNCHANGED <<interrupt, thrown, world, faults, aux>>
  BY DEF Await
<1>2. CASE Last
  <2>1. waiting = Nodes
    <3>1. waiting \in SUBSET Nodes /\ IsFiniteSet(Nodes)
      BY LifecycleAssumption
    <3>2. Cardinality(waiting) = Cardinality(Nodes)
      BY <1>2 DEF Parties
    <3>. HIDE DEF waiting
    <3>. QED  BY <3>1, <3>2, FS_Subset
  <2>2. \A m \in Nodes : m \notin skips /\ db[m] = "installed"
    BY <1>1, <2>1 DEF WaitingInThisTry, NodeProgress
  <2>3. /\ \A m \in Nodes : thread'[m] = "go"
        /\ thread' \in [Nodes -> {"go"}]
        /\ barrier' = [barrier EXCEPT !.waiting = {}]
    <3>1. /\ thread' = [m \in Nodes |-> IF m = n \/ thread[m] = "waiting"
                                        THEN "go" ELSE thread[m]]
          /\ barrier' = [barrier EXCEPT !.waiting = {}]
      BY <1>2 DEF Await
    <3>2. \A m \in Nodes : m = n \/ thread[m] = "waiting"
      BY <2>1 DEF WaitingInThisTry
    <3>. QED  BY <3>1, <3>2
  <2>4. TypeOK'
    <3>1. thread' \in [Nodes -> {"idle", "start", "arrive", "waiting", "go", "ok",
                                 "threw"} \cup Dull \cup Real]
      BY <2>3
    <3>2. barrier' \in [waiting : SUBSET Nodes, broken : BOOLEAN]
      BY <2>3
    <3>. QED  BY <1>1, <3>1, <3>2
  <2>5. ThrownIsKept' /\ WaitingInThisTry'
    BY <1>1, <2>3 DEF ThrownIsKept, WaitingInThisTry
  <2>6. \A m \in Nodes : NodeProgress(m)'
    BY <1>1, <2>2, <2>3 DEF NodeProgress
  <2>7. ReadyForPhase' /\ TornDown' /\ UsersHaveTheirSystem'
    BY <1>1 DEF ReadyForPhase, BeforeCase, TornDown, UsersHaveTheirSystem
  <2>8. BarrierSeparatesPhases'
    BY <1>1, <2>2 DEF BarrierSeparatesPhases
  <2>. QED
    BY <2>4, <2>5, <2>6, <2>7, <2>8
<1>3. CASE ~Last
  <2>1. /\ thread' = [thread EXCEPT ![n] = "waiting"]
        /\ barrier' = [barrier EXCEPT !.waiting = waiting]
    BY <1>3 DEF Await
  <2>2. TypeOK'
    BY <1>1, <2>1
  <2>3. ThrownIsKept' /\ WaitingInThisTry'
    <3>1. ThrownIsKept'
      BY <1>1, <2>1 DEF ThrownIsKept
    <3>2. barrier'.waiting = waiting /\ barrier'.broken = barrier.broken
      BY <2>1
    <3>3. ASSUME NEW m \in waiting PROVE thread'[m] = "waiting"
      <4>1. m = n \/ thread[m] = "waiting"
        BY DEF WaitingInThisTry
      <4>2. m \in Nodes
        OBVIOUS
      <4>. QED  BY <2>1, <4>1, <4>2
    <3>4. WaitingInThisTry'
      BY <1>1, <3>2, <3>3 DEF WaitingInThisTry
    <3>. QED  BY <3>1, <3>4
  <2>4. \A m \in Nodes : NodeProgress(m)'
    BY <1>1, <2>1 DEF NodeProgress
  <2>5. ReadyForPhase' /\ TornDown' /\ UsersHaveTheirSystem'
    BY <1>1 DEF ReadyForPhase, BeforeCase, TornDown, UsersHaveTheirSystem
  <2>6. BarrierSeparatesPhases'
    BY <1>1, <2>1 DEF BarrierSeparatesPhases
  <2>. QED
    BY <2>2, <2>3, <2>4, <2>5, <2>6
<1>. QED
  BY <1>2, <1>3

\* A session that cannot be opened is an exception of the phase.
LEMMA ConnectFailsStep ==
    ASSUME LifecycleInv, NEW n \in Nodes, ConnectFails(n)
    PROVE  LifecycleInv'
<1>. USE DEF LifecycleInv, TypeOK, ConnectFails, Runs, MainStays, aux, world
<1>1. /\ thrown' # Nothing
      /\ thrown' \in [dull : Dull \cup {None}, real : Real \cup {None}]
  BY ThrownWithKind DEF Real
<1>2. TypeOK'
  <2>1. faults' \in 0 .. MaxFaults
    BY OneMoreFault
  <2>. QED  BY <1>1, <2>1
<1>3. ThrownIsKept' /\ WaitingInThisTry'
  BY <1>1 DEF ThrownIsKept, WaitingInThisTry
<1>4. \A m \in Nodes : NodeProgress(m)'
  BY DEF NodeProgress
<1>5. ReadyForPhase' /\ TornDown' /\ UsersHaveTheirSystem'
  BY DEF ReadyForPhase, BeforeCase, TornDown, UsersHaveTheirSystem
<1>6. BarrierSeparatesPhases'
  BY DEF BarrierSeparatesPhases
<1>. QED
  BY <1>2, <1>3, <1>4, <1>5, <1>6

\* A session that cannot be closed is noted.
LEMMA DisconnectFailsStep ==
    ASSUME LifecycleInv, NEW n \in Nodes, DisconnectFails(n)
    PROVE  LifecycleInv'
<1>. USE DEF LifecycleInv, TypeOK, DisconnectFails, Runs, MainStays, world
<1>1. TypeOK'
  <2>1. faults' \in 0 .. MaxFaults
    BY OneMoreFault
  <2>. QED  BY <2>1
<1>2. ThrownIsKept' /\ WaitingInThisTry'
  BY DEF ThrownIsKept, WaitingInThisTry
<1>3. \A m \in Nodes : NodeProgress(m)'
  BY DEF NodeProgress
<1>4. ReadyForPhase' /\ TornDown' /\ UsersHaveTheirSystem'
  BY DEF ReadyForPhase, BeforeCase, TornDown, UsersHaveTheirSystem
<1>5. BarrierSeparatesPhases'
  BY DEF BarrierSeparatesPhases
<1>. QED
  BY <1>1, <1>2, <1>3, <1>4, <1>5

\* The steps of a thread that throw.
LEMMA ExceptionStep ==
    ASSUME LifecycleInv, NEW n \in Nodes,
           \/ \E kind \in Dull \cup Real : CloseAfterThrow(n, kind)
           \/ \E kind \in Real : Fails(n, kind)
           \/ Interrupted(n) \/ AwaitInterrupted(n) \/ AwaitBroken(n) \/ AwaitTimesOut(n)
    PROVE  LifecycleInv'
<1>0. /\ {"interrupted", "timeout", "broken barrier"} \subseteq Dull \cup Real
      /\ {"client teardown", "db setup"} \subseteq Throwing
      /\ faults \in 0 .. MaxFaults
      /\ \A kind \in Dull \cup Real : kind # "waiting"
  BY DEF Dull, Real, Throwing, LifecycleInv, TypeOK
<1>1. ASSUME NEW kind \in Dull \cup Real, CloseAfterThrow(n, kind)
      PROVE  LifecycleInv'
  <2>1. /\ pc = "client teardown" /\ thread[n] = kind /\ Throws(n, kind)
        /\ client' = [client EXCEPT ![n] = "closed"]
        /\ UNCHANGED <<sessions, os, db, primary, nemesis, barrier, faults>>
    BY <1>1 DEF CloseAfterThrow, Runs
  <2>2. thread[n] # "waiting"
    BY <1>0, <2>1
  <2>. QED  BY <1>0, <2>1, <2>2, ThrowsStep
<1>2. ASSUME NEW kind \in Dull \cup Real, Working(n), Raises(n, kind),
             faults' \in 0 .. MaxFaults, MayInstallPart(n), UNCHANGED barrier
      PROVE  LifecycleInv'
  <2>1. CASE Runs({"client teardown"}, n, "start")
    <3>1. UNCHANGED world
      BY <1>2, <2>1 DEF MayInstallPart, Runs, world
    <3>. QED  BY <1>2, <2>1, <3>1, KeptExceptionStep DEF Raises
  <2>2. CASE ~Runs({"client teardown"}, n, "start")
    <3>1. Throws(n, kind) /\ pc \in Throwing /\ thread[n] # "waiting"
      BY <1>0, <1>2, <2>2 DEF Raises, Working
    <3>. QED  BY <1>2, <3>1, ThrowsStep DEF MayInstallPart
  <2>. QED  BY <2>1, <2>2
<1>3. ASSUME NEW kind \in Real, Fails(n, kind) PROVE LifecycleInv'
  <2>1. faults' \in 0 .. MaxFaults
    <3>1. faults < MaxFaults /\ faults' = faults + 1
      BY <1>3 DEF Fails
    <3>. QED  BY <1>0, <3>1, OneMoreFault
  <2>. QED  BY <1>2, <1>3, <2>1 DEF Fails
<1>4. CASE Interrupted(n)
  BY <1>0, <1>2, <1>4 DEF Interrupted
<1>5. CASE AwaitInterrupted(n)
  BY <1>0, <1>5, ThrowsStep DEF AwaitInterrupted, Breaks, Runs, world
<1>6. CASE AwaitBroken(n)
  BY <1>0, <1>6, ThrowsStep DEF AwaitBroken, Runs, world
<1>7. CASE AwaitTimesOut(n)
  BY <1>0, <1>7, ThrowsStep DEF AwaitTimesOut, Breaks, Runs, world
<1>. QED
  BY <1>1, <1>3, <1>4, <1>5, <1>6, <1>7

\* The nemesis' future.
LEMMA NemesisStep ==
    ASSUME LifecycleInv, NemesisWorks
    PROVE  LifecycleInv'
<1>. USE DEF LifecycleInv, TypeOK, NemesisWorks, MainStays, aux
<1>1. TypeOK'
  <2>1. faults' \in 0 .. MaxFaults
    BY OneMoreFault
  <2>2. nemesis' \in {"none", "setting up", "up", "failed", "tearing down", "down",
                      "teardown failed"}
    OBVIOUS
  <2>. QED  BY <2>1, <2>2
<1>2. ThrownIsKept' /\ WaitingInThisTry'
  BY DEF ThrownIsKept, WaitingInThisTry
<1>3. \A m \in Nodes : NodeProgress(m)'
  BY DEF NodeProgress
<1>4. ReadyForPhase'
  BY DEF ReadyForPhase, BeforeCase
<1>5. TornDown' /\ BarrierSeparatesPhases'
  BY DEF TornDown, BarrierSeparatesPhases
<1>6. UsersHaveTheirSystem'
  BY DEF UsersHaveTheirSystem
<1>. QED
  BY <1>1, <1>2, <1>3, <1>4, <1>5, <1>6

-----------------------------------------------------------------------------
(* The main thread. *)

\* When the main thread goes on, nobody is left at the barrier.
LEMMA BarrierIsEmpty ==
    ASSUME LifecycleInv, Joined \/ pc # "db setup"
    PROVE  barrier.waiting = {}
<1>1. CASE pc # "db setup"
  BY <1>1 DEF LifecycleInv, WaitingInThisTry
<1>2. CASE Joined /\ pc = "db setup"
  <2>1. NodesOf(pc) = Nodes
    BY <1>2 DEF NodesOf, Throwing
  <2>. QED
    BY <1>2, <2>1 DEF Joined, LifecycleInv, TypeOK, WaitingInThisTry
<1>. QED
  BY <1>1, <1>2

\* Another phase begins: its threads have done nothing yet.
LEMMA GoesStep ==
    ASSUME LifecycleInv, NEW phase \in Phases, NEW e \in Dull \cup Real \cup {None},
           Goes(phase, e), barrier.waiting = {},
           phase = "db setup" => \A n \in Nodes : db'[n] = "down",
           tries' \in 1 .. CycleTries, faults' \in 0 .. MaxFaults,
           db' \in [Nodes -> {"old", "down", "partial", "installed", "up"}],
           nemesis' \in {"none", "setting up", "up", "failed", "tearing down", "down",
                         "teardown failed"},
           entered' \in BOOLEAN, spoiled' \subseteq Teardowns \cup {"nemesis teardown"},
           leaveDb' = leaveDb, skips' = skips,
           stuck' = stuck, phase = "disconnect" => stuck = {}
    PROVE  /\ TypeOK' /\ ThrownIsKept' /\ WaitingInThisTry'
           /\ \A n \in Nodes : NodeProgress(n)'
           /\ BarrierSeparatesPhases'
<1>1. /\ pc' = phase /\ err' = e /\ interrupt' = {} /\ thrown' = Nothing
      /\ UNCHANGED <<barrier, sessions, os, primary, client>>
      /\ thread' \in [Nodes -> {"start", "idle"}]
  BY DEF Goes
<1>2. TypeOK'
  <2>1. thrown' \in [dull : Dull \cup {None}, real : Real \cup {None}]
    BY <1>1 DEF Nothing
  <2>2. thread' \in [Nodes -> {"idle", "start", "arrive", "waiting", "go", "ok",
                               "threw"} \cup Dull \cup Real]
    BY <1>1
  <2>. QED
    BY <1>1, <2>1, <2>2 DEF LifecycleInv, TypeOK
<1>3. ThrownIsKept' /\ WaitingInThisTry'
  BY <1>1 DEF ThrownIsKept, WaitingInThisTry
<1>4. ASSUME NEW n \in Nodes PROVE NodeProgress(n)'
  <2>1. thread'[n] \in {"start", "idle"} /\ thread'[PrimaryNode] # "ok"
    BY <1>1, LifecycleAssumption
  <2>. QED  BY <1>1, <2>1 DEF NodeProgress
<1>5. BarrierSeparatesPhases'
  BY <1>1 DEF BarrierSeparatesPhases
<1>. QED
  BY <1>2, <1>3, <1>4, <1>5

\* A phase whose threads have all ended without an exception has done its work.
LEMMA AllReturned ==
    ASSUME LifecycleInv, Joined, thrown = Nothing
    PROVE  /\ pc \in Catching \cup Throwing
           /\ \A n \in NodesOf(pc) : n \in Nodes /\ thread[n] = "ok"
  BY LifecycleAssumption DEF Joined, NodesOf, LifecycleInv, ThrownIsKept

\* A phase returns.
LEMMA PhaseReturnsStep ==
    ASSUME LifecycleInv, PhaseReturns
    PROVE  LifecycleInv'
<1>0. /\ Joined /\ thrown = Nothing
      /\ nemesis' = IF pc = "primary" THEN "setting up" ELSE nemesis
      /\ UNCHANGED <<tries, db, faults, aux, barrier, sessions, os, primary, client>>
      /\ pc' = AfterReturn(pc) /\ Goes(AfterReturn(pc), err)
  BY DEF PhaseReturns, Goes
<1>1. /\ pc \in Catching \cup Throwing
      /\ \A n \in NodesOf(pc) : n \in Nodes /\ thread[n] = "ok"
  BY <1>0, AllReturned
<1>2. \A n \in Nodes : NodeProgress(n)
  BY DEF LifecycleInv
<1>3. AfterReturn(pc) \in Phases
  BY <1>1 DEF AfterReturn, Catching, Throwing, Phases
<1>4. /\ TypeOK' /\ ThrownIsKept' /\ WaitingInThisTry'
      /\ \A n \in Nodes : NodeProgress(n)'
      /\ BarrierSeparatesPhases'
  <2>1. ASSUME AfterReturn(pc) = "db setup", NEW n \in Nodes PROVE db'[n] = "down"
    <3>1. pc = "cycle"
      BY <1>1, <2>1 DEF AfterReturn, Catching, Throwing
    <3>2. n \in NodesOf(pc)
      BY <3>1 DEF NodesOf, Throwing
    <3>. QED  BY <1>0, <1>1, <1>2, <3>1, <3>2 DEF NodeProgress
  <2>2. barrier.waiting = {}
    BY <1>0, BarrierIsEmpty
  <2>3. /\ err \in Dull \cup Real \cup {None}
        /\ tries' \in 1 .. CycleTries /\ faults' \in 0 .. MaxFaults
        /\ db' \in [Nodes -> {"old", "down", "partial", "installed", "up"}]
        /\ nemesis' \in {"none", "setting up", "up", "failed", "tearing down", "down",
                         "teardown failed"}
        /\ spoiled' \subseteq Teardowns \cup {"nemesis teardown"}
        /\ entered' \in BOOLEAN /\ leaveDb' = leaveDb /\ skips' = skips
        /\ stuck' = stuck /\ (AfterReturn(pc) = "disconnect" => stuck = {})
    BY <1>0, <1>1 DEF LifecycleInv, TypeOK, aux, ReadyForPhase, AfterReturn, Catching,
                      Throwing
  <2>. QED  BY <1>0, <1>3, <2>1, <2>2, <2>3, GoesStep
<1>5. ReadyForPhase' /\ TornDown' /\ UsersHaveTheirSystem'
  <2>0. UNCHANGED <<leaveDb, entered, spoiled, stuck>>
    BY <1>0 DEF aux
  <2>. USE <1>0, <1>1, <1>2, <2>0 DEF LifecycleInv, NodeProgress, NodesOf, Catching, Throwing,
           AfterReturn, ReadyForPhase, BeforeCase, TornDown, UsersHaveTheirSystem
  <2>1. CASE pc = "connect"
    <3>1. sessions = Nodes
      <4>1. sessions \subseteq Nodes
        BY DEF TypeOK
      <4>2. \A n \in Nodes : n \in sessions
        BY <2>1
      <4>. QED  BY <4>1, <4>2
    <3>. QED  BY <2>1, <3>1
  <2>2. CASE pc = "os setup"
    BY <2>2
  <2>3. CASE pc = "cycle"
    BY <2>3
  <2>4. CASE pc = "db setup"
    BY <2>4
  <2>5. CASE pc = "primary"
    BY <2>5
  <2>6. CASE pc = "clients"
    BY <2>6
  <2>7. CASE pc = "client teardown"
    BY <2>7
  <2>8. CASE pc = "db teardown"
    BY <2>8
  <2>9. CASE pc = "os teardown"
    BY <2>9
  <2>10. CASE pc = "disconnect"
    <3>1. \A n \in Nodes : n \in sessions <=> n \in stuck
      BY <2>10
    <3>2. sessions = stuck
      <4>1. sessions \subseteq Nodes /\ stuck \subseteq Nodes
        BY DEF TypeOK
      <4>. QED  BY <3>1, <4>1
    <3>. QED  BY <2>10, <3>2
  <2>. QED
    BY <1>1, <2>1, <2>2, <2>3, <2>4, <2>5, <2>6, <2>7, <2>8, <2>9, <2>10 DEF Catching, Throwing
<1>. QED
  BY <1>4, <1>5 DEF LifecycleInv

\* What the main thread throws when a phase has thrown.
LEMMA ExceptionIsOne ==
    ASSUME TypeOK PROVE Exception \in Dull \cup Real \cup {None}
  BY DEF TypeOK, Exception

\* cycle! begins again, with a teardown.
LEMMA CycleAgainStep ==
    ASSUME LifecycleInv, CycleAgain
    PROVE  LifecycleInv'
<1>1. /\ Joined /\ pc \in {"db setup", "primary"} /\ tries > 1 /\ tries' = tries - 1
      /\ Goes("cycle", err) /\ pc' = "cycle"
      /\ db' = [n \in Nodes |-> IF db[n] = "down" THEN "down" ELSE "old"]
      /\ UNCHANGED <<nemesis, faults, aux, barrier, sessions, os, primary, client>>
  BY DEF CycleAgain, Retries, Goes
<1>2. /\ TypeOK' /\ ThrownIsKept' /\ WaitingInThisTry'
      /\ \A n \in Nodes : NodeProgress(n)'
      /\ BarrierSeparatesPhases'
  <2>1. barrier.waiting = {} /\ "cycle" \in Phases
    BY <1>1, BarrierIsEmpty DEF Phases, Throwing
  <2>2. tries' \in 1 .. CycleTries
    <3>1. tries \in 1 .. CycleTries /\ CycleTries \in Nat
      BY LifecycleAssumption DEF LifecycleInv, TypeOK
    <3>2. tries > 1 /\ tries' = tries - 1
      BY <1>1
    <3>. QED  BY <3>1, <3>2
  <2>3. /\ err \in Dull \cup Real \cup {None} /\ faults' \in 0 .. MaxFaults
        /\ db' \in [Nodes -> {"old", "down", "partial", "installed", "up"}]
        /\ nemesis' \in {"none", "setting up", "up", "failed", "tearing down", "down",
                         "teardown failed"}
        /\ spoiled' \subseteq Teardowns \cup {"nemesis teardown"}
        /\ entered' \in BOOLEAN /\ leaveDb' = leaveDb /\ skips' = skips
        /\ stuck' = stuck
    BY <1>1 DEF LifecycleInv, TypeOK, aux
  <2>. QED  BY <1>1, <2>1, <2>2, <2>3, GoesStep
<1>3. ReadyForPhase' /\ TornDown' /\ UsersHaveTheirSystem'
  BY <1>1 DEF LifecycleInv, aux, ReadyForPhase, BeforeCase, TornDown, UsersHaveTheirSystem
<1>. QED
  BY <1>2, <1>3 DEF LifecycleInv

\* A phase throws: the main thread goes on with the next finally clause.
LEMMA PhaseThrowsStep ==
    ASSUME LifecycleInv, PhaseThrows
    PROVE  LifecycleInv'
<1>1. /\ Joined /\ thrown # Nothing
      /\ Goes(AfterThrow(pc), Exception) /\ pc' = AfterThrow(pc)
      /\ spoiled' = IF pc \in Teardowns THEN spoiled \cup {pc} ELSE spoiled
      /\ UNCHANGED <<tries, db, nemesis, faults, leaveDb, skips, entered, stuck, barrier, sessions,
                     os, primary, client>>
  BY DEF PhaseThrows, Goes
<1>2. pc \in (Catching \cup Throwing) \ {"disconnect"}
  BY <1>1 DEF Joined, NodesOf, LifecycleInv, ThrownIsKept
<1>3. /\ TypeOK' /\ ThrownIsKept' /\ WaitingInThisTry'
      /\ \A n \in Nodes : NodeProgress(n)'
      /\ BarrierSeparatesPhases'
  <2>1. AfterThrow(pc) \in Phases \ {"db setup"}
    BY <1>2 DEF AfterThrow, Phases, Catching, Throwing
  <2>2. barrier.waiting = {} /\ Exception \in Dull \cup Real \cup {None}
    BY <1>1, BarrierIsEmpty, ExceptionIsOne DEF LifecycleInv
  <2>3. /\ tries' \in 1 .. CycleTries /\ faults' \in 0 .. MaxFaults
        /\ db' \in [Nodes -> {"old", "down", "partial", "installed", "up"}]
        /\ nemesis' \in {"none", "setting up", "up", "failed", "tearing down", "down",
                         "teardown failed"}
        /\ spoiled' \subseteq Teardowns \cup {"nemesis teardown"}
        /\ entered' \in BOOLEAN /\ leaveDb' = leaveDb /\ skips' = skips
        /\ stuck' = stuck /\ stuck = {}
    BY <1>1, <1>2 DEF LifecycleInv, TypeOK, ReadyForPhase, Catching, Throwing
  <2>. QED  BY <1>1, <2>1, <2>2, <2>3, GoesStep
<1>4. ReadyForPhase' /\ TornDown' /\ UsersHaveTheirSystem'
  <2>. USE <1>1 DEF LifecycleInv, AfterThrow, Teardowns, ReadyForPhase, BeforeCase,
           TornDown, UsersHaveTheirSystem
  <2>1. CASE pc = "connect"
    BY <2>1
  <2>2. CASE pc = "os setup"
    BY <2>2
  <2>3. CASE pc \in {"cycle", "db setup", "primary", "clients"}
    BY <2>3
  <2>4. CASE pc = "client teardown"
    BY <2>4
  <2>5. CASE pc = "db teardown"
    BY <2>5
  <2>6. CASE pc = "os teardown"
    BY <2>6
  <2>. QED
    BY <1>2, <2>1, <2>2, <2>3, <2>4, <2>5, <2>6 DEF Catching, Throwing
<1>. QED
  BY <1>3, <1>4 DEF LifecycleInv

\* The steps of the main thread between the calls of real-pmap.
LEMMA SoloStep ==
    ASSUME LifecycleInv,
           \/ AwaitNemesis \/ RunCase \/ AwaitTeardown
           \/ MainWork("save", "snarf")
           \/ MainWork("snarf", IF leaveDb THEN "os teardown" ELSE "db teardown")
           \/ MainWork("analyze", "disconnect")
    PROVE  LifecycleInv'
<1>. DEFINE Solo == {"nemesis setup", "case", "nemesis teardown", "save", "snarf", "analyze"}
<1>. DEFINE Next1 == {"case", "client teardown", "save", "snarf", "os teardown", "db teardown",
                      "disconnect"}
<1>1. /\ pc \in Solo
      /\ \E phase \in Next1, e \in {err, None, "error"} : Goes(phase, e)
      /\ UNCHANGED <<tries, db, leaveDb, skips, stuck>>
      /\ faults' = faults \/ (faults < MaxFaults /\ faults' = faults + 1)
      /\ nemesis' = nemesis \/ nemesis' = "tearing down"
      /\ entered' = entered \/ entered' = TRUE
      /\ spoiled' = spoiled \/ spoiled' = spoiled \cup {"nemesis teardown"}
  BY DEF AwaitNemesis, RunCase, AwaitTeardown, MainWork, aux
<1>2. /\ TypeOK' /\ ThrownIsKept' /\ WaitingInThisTry'
      /\ \A n \in Nodes : NodeProgress(n)'
      /\ BarrierSeparatesPhases'
  <2>1. PICK phase \in Next1, e \in {err, None, "error"} : Goes(phase, e)
    BY <1>1
  <2>2. phase \in Phases \ {"db setup"} /\ e \in Dull \cup Real \cup {None}
    BY DEF LifecycleInv, TypeOK, Phases, Catching, Throwing, Real
  <2>3. barrier.waiting = {}
    BY <1>1, BarrierIsEmpty
  <2>4. faults' \in 0 .. MaxFaults
    BY <1>1, OneMoreFault DEF LifecycleInv, TypeOK
  <2>5. entered' \in BOOLEAN
    BY <1>1 DEF LifecycleInv, TypeOK
  <2>6. /\ tries' \in 1 .. CycleTries
        /\ db' \in [Nodes -> {"old", "down", "partial", "installed", "up"}]
        /\ nemesis' \in {"none", "setting up", "up", "failed", "tearing down", "down",
                         "teardown failed"}
        /\ spoiled' \subseteq Teardowns \cup {"nemesis teardown"}
    BY <1>1 DEF LifecycleInv, TypeOK
  <2>7. stuck' = stuck /\ stuck = {}
    BY <1>1 DEF LifecycleInv, ReadyForPhase
  <2>. QED  BY <1>1, <2>1, <2>2, <2>3, <2>4, <2>5, <2>6, <2>7, GoesStep
<1>3. ReadyForPhase' /\ TornDown' /\ UsersHaveTheirSystem'
  <2>. USE DEF LifecycleInv, Goes, aux, ReadyForPhase, BeforeCase, TornDown,
           UsersHaveTheirSystem
  <2>1. CASE AwaitNemesis
    <3>1. CASE nemesis = "up" /\ Goes("case", err) /\ entered' = TRUE
      BY <2>1, <3>1 DEF AwaitNemesis
    <3>2. CASE nemesis = "failed" /\ Goes("snarf", "error") /\ UNCHANGED entered
      BY <2>1, <3>2 DEF AwaitNemesis
    <3>. QED  BY <2>1, <3>1, <3>2 DEF AwaitNemesis
  <2>2. CASE RunCase
    BY <2>2 DEF RunCase
  <2>3. CASE AwaitTeardown
    BY <2>3 DEF AwaitTeardown
  <2>4. CASE MainWork("save", "snarf")
    BY <2>4 DEF MainWork
  <2>5. CASE MainWork("snarf", IF leaveDb THEN "os teardown" ELSE "db teardown")
    BY <2>5 DEF MainWork
  <2>6. CASE MainWork("analyze", "disconnect")
    BY <2>6 DEF MainWork
  <2>. QED
    BY <2>1, <2>2, <2>3, <2>4, <2>5, <2>6
<1>. QED
  BY <1>2, <1>3 DEF LifecycleInv

-----------------------------------------------------------------------------
(* The theorems. *)

\* Nothing changes.
LEMMA StutterStep == LifecycleInv /\ UNCHANGED vars => LifecycleInv'
<1>. SUFFICES ASSUME LifecycleInv, UNCHANGED vars PROVE LifecycleInv'
  OBVIOUS
<1>. USE DEF LifecycleInv, vars, world, aux
<1>1. TypeOK'
  BY DEF TypeOK
<1>2. /\ ThrownIsKept' /\ WaitingInThisTry'
      /\ \A n \in Nodes : NodeProgress(n)'
  BY DEF ThrownIsKept, WaitingInThisTry, NodeProgress
<1>3. ReadyForPhase' /\ TornDown' /\ BarrierSeparatesPhases'
  BY DEF ReadyForPhase, TornDown, BarrierSeparatesPhases
<1>4. UsersHaveTheirSystem'
  BY DEF UsersHaveTheirSystem
<1>. QED
  BY <1>1, <1>2, <1>3, <1>4

\* The invariant holds in every state of every run of a test.
THEOREM LifecycleInvariant == Spec => []LifecycleInv
<1>1. Init => LifecycleInv
  BY InitLifecycleInv
<1>2. LifecycleInv /\ [Next]_vars => LifecycleInv'
  <2>. SUFFICES ASSUME LifecycleInv, [Next]_vars PROVE LifecycleInv'
    OBVIOUS
  <2>1. CASE MainStep
    BY <2>1, PhaseReturnsStep, CycleAgainStep, PhaseThrowsStep, SoloStep DEF MainStep
  <2>2. CASE NemesisWorks
    BY <2>2, NemesisStep
  <2>3. ASSUME NEW n \in Nodes,
               \/ NodeStep(n) \/ Interrupted(n)
               \/ ConnectFails(n) \/ DisconnectFails(n)
               \/ \E kind \in Real : Fails(n, kind)
        PROVE  LifecycleInv'
    BY <2>3, WorksStep, AwaitStep, ConnectFailsStep, DisconnectFailsStep,
       ExceptionStep DEF NodeStep, Works
  <2>4. CASE UNCHANGED vars
    BY <2>4, StutterStep
  <2>. QED
    BY <2>1, <2>2, <2>3, <2>4 DEF Next
<1>. QED
  BY <1>1, <1>2, PTL DEF Spec

\* No database is set up over what an earlier test or an earlier try has left.
THEOREM SetupIsClean == Spec => []SetupStartsClean
<1>1. LifecycleInv => SetupStartsClean
  BY DEF LifecycleInv, SetupStartsClean, NodeProgress, ReadyForPhase
<1>. QED
  BY <1>1, LifecycleInvariant, PTL

\* synchronize lets nobody start before all have installed, whatever tries, time
\* limits and interrupts came before.
THEOREM PhasesAreSeparated == Spec => []BarrierSeparatesPhases
  BY LifecycleInvariant, PTL DEF LifecycleInv

\* Operations are run on a whole system, which is taken away when nobody uses it.
THEOREM SystemOutlivesItsUsers == Spec => []UsersHaveTheirSystem
  BY LifecycleInvariant, PTL DEF LifecycleInv

\* However run! ends, its finally clauses have cleaned up, but for the sessions
\* whose own disconnect threw.
THEOREM NodesAreLeftClean == Spec => []NothingLeftBehind
<1>1. LifecycleInv => NothingLeftBehind
  BY DEF LifecycleInv, TornDown, NothingLeftBehind
<1>. QED
  BY <1>1, LifecycleInvariant, PTL
============================================================================
