------------------------ MODULE ChainRegistryProofs ------------------------
(***************************************************************************)
(* The safety of the chain connection for any number of light nodes, RPC   *)
(* clients and users: an inductive invariant that says who may hold which  *)
(* node at each point of the supervisor's loop, and what `cps              *)
(* light-client` knows of its one node.                                    *)
(***************************************************************************)
EXTENDS ChainRegistry, FiniteSetTheorems, TLAPS

\* A node that is running and was not asked to stop.
Live(n) == status[n] \notin Terminal \cup {"none"} /\ n \notin stop

\* A node that was never started has no tasks; a connection task exists only
\* under a running server, or is aborted under one that panicked.
NodeShape ==
    \A n \in Light :
        /\ status[n] = "none" => tasks[n] = {}
        /\ status[n] = "ready" => n \in synced
        /\ status[n] = "stopped" => tasks[n] = {}
        /\ \A c \in Client :
              /\ conn[n][c] \notin {"off", "aborted"} => "server" \in tasks[n]
              /\ conn[n][c] = "aborted" => status[n] = "failed"

\* `cps light-client` has no registry and at most one node.
CliShape ==
    mode = "cli" =>
        /\ sup = "off" /\ slot = "none"
        /\ \A h \in Holder : held[h] = NoChain
        /\ \A n, m \in Light : status[n] # "none" /\ status[m] # "none" => n = m
        /\ \A n \in stop : status[n] # "none"
        /\ cli = "start" => \A n \in Light : status[n] = "none"

\* The daemon never takes a step of `cps light-client`.
DaemonShape == Daemon => cli = "start"

\* Between two attempts the registry holds nothing; during one only the
\* supervisor holds the new node; afterwards it is also published.
SupervisorShape ==
    /\ sup \in {"off", "start", "sleep", "done"} =>
          held["supervisor"] = NoChain /\ held["slot"] = NoChain
    /\ sup \in {"listen", "sync", "rpc"} =>
          /\ held["slot"] = NoChain
          /\ Mine \in Light => \A u \in User : held[u] # Mine
    /\ sup \in {"listen", "sync"} => Mine \in Light
    /\ sup = "rpc" /\ mode = "embedded" => Mine \in Light /\ Mine \in synced
    /\ sup = "hold" => held["slot"] = Mine
    /\ sup = "hold" /\ mode = "embedded" => Mine \in Light
    /\ mode = "external" => sup \notin {"start", "listen", "sync"} /\ Mine \notin Light

\* A held node was started and not asked to stop, and the supervisor holds
\* every live one.
HeldAlive ==
    /\ \A h \in Holder : held[h] \in Light =>
          held[h] \notin stop /\ status[held[h]] # "none"
    /\ Daemon => \A n \in Light : Live(n) => Mine = n

ChainIInv ==
    /\ ChainTypeOK
    /\ NodeShape
    /\ CliShape
    /\ DaemonShape
    /\ SupervisorShape
    /\ HeldAlive
    /\ HandedOutSynced
    /\ ShutdownClosesAll
-----------------------------------------------------------------------------
LEMMA InitInvariant == ChainInit => ChainIInv
BY ChainConstants, LightConstants
   DEF ChainInit, LightInit, ChainIInv, ChainTypeOK, LightTypeOK, NodeShape, CliShape,
       DaemonShape, SupervisorShape, HeldAlive, HandedOutSynced,
       ShutdownClosesAll, Daemon, Mine, Holder, Live, Status, Phase, Terminal,
       Connections

\* A step of a node keeps the types of its state.
LEMMA LightTyped ==
    ASSUME LightTypeOK, NEW n \in Light, stop' \in SUBSET Light,
           \/ Spawn(n) \/ Listening(n) \/ MonitorReads(n) \/ MonitorEnds(n)
           \/ PhaseChanges(n) \/ ServerPanics(n) \/ ServerEnds(n) \/ Joined(n)
           \/ \E c \in Client : \/ Accept(n, c) \/ Establish(n, c)
                                \/ Disconnect(n, c) \/ Request(n, c)
                                \/ Respond(n, c) \/ AbortLands(n, c)
    PROVE  LightTypeOK'
<1> USE LightConstants DEF LightTypeOK, Status, Phase, Terminal
<1>1. CASE Spawn(n)
  BY <1>1 DEF Spawn
<1>2. CASE Listening(n)
  BY <1>2 DEF Listening
<1>3. CASE MonitorReads(n)
  BY <1>3 DEF MonitorReads, MapState
<1>4. CASE MonitorEnds(n)
  BY <1>4 DEF MonitorEnds
<1>5. CASE PhaseChanges(n)
  BY <1>5 DEF PhaseChanges
<1>6. CASE ServerPanics(n)
  BY <1>6 DEF ServerPanics
<1>7. CASE ServerEnds(n)
  BY <1>7 DEF ServerEnds
<1>8. CASE Joined(n)
  BY <1>8 DEF Joined
<1>9. ASSUME NEW c \in Client, Accept(n, c) PROVE LightTypeOK'
  BY <1>9 DEF Accept
<1>10. ASSUME NEW c \in Client, Establish(n, c) PROVE LightTypeOK'
  BY <1>10 DEF Establish
<1>11. ASSUME NEW c \in Client, Disconnect(n, c) PROVE LightTypeOK'
  BY <1>11 DEF Disconnect, Hangup
<1>12. ASSUME NEW c \in Client, Request(n, c) PROVE LightTypeOK'
  BY <1>12 DEF Request
<1>13. ASSUME NEW c \in Client, Respond(n, c) PROVE LightTypeOK'
  BY <1>13 DEF Respond
<1>14. ASSUME NEW c \in Client, AbortLands(n, c) PROVE LightTypeOK'
  BY <1>14 DEF AbortLands, Hangup
<1> QED BY <1>1, <1>2, <1>3, <1>4, <1>5, <1>6, <1>7, <1>8, <1>9, <1>10, <1>11,
           <1>12, <1>13, <1>14
-----------------------------------------------------------------------------
(***************************************************************************)
(* Registry steps: references are dropped or copied, no node moves.        *)
(***************************************************************************)
\* Holders let go of what they hold, and nodes without a holder are asked to
\* stop: every live node keeps the supervisor or loses everyone.
LEMMA LettingGo ==
    ASSUME ChainIInv, DropUnheld, Daemon,
           held' \in [Holder -> Light \cup {External, NoChain}],
           \A h \in Holder : held'[h] = held[h] \/ held'[h] = NoChain,
           \A n \in Light : Live(n) /\ held'["supervisor"] # n =>
                                \A h \in Holder : held'[h] # n,
           SupervisorShape',
           slot' \in {"none", "connecting", "retrying", "ready", "failed"},
           sup' \in {"off", "start", "listen", "sync", "rpc", "hold", "sleep",
                     "done"},
           UNCHANGED <<status, phase, fresh, tasks, conn, pending, mode,
                       waiting, cli, synced>>
    PROVE  ChainIInv'
<1> USE ChainConstants
    DEF ChainIInv, ChainTypeOK, LightTypeOK, Daemon, Mine, Holder
<1>1. ChainTypeOK'
  BY DEF DropUnheld
<1>2. NodeShape' /\ CliShape' /\ DaemonShape' /\ ShutdownClosesAll'
  BY DEF NodeShape, CliShape, DaemonShape, ShutdownClosesAll, Connections
<1>3. HeldAlive'
  BY DEF HeldAlive, DropUnheld, Live
<1>4. HandedOutSynced'
  <2> SUFFICES ASSUME NEW h \in User \cup {"slot"}, held'[h] \in Light
               PROVE  held[h] = held'[h]
    BY DEF HandedOutSynced
  <2> QED OBVIOUS
<1> QED BY <1>1, <1>2, <1>3, <1>4

\* The slot's reference is copied, or nothing is: users take what the
\* supervisor published.
LEMMA Taking ==
    ASSUME ChainIInv, NEW u \in User,
           held' = held \/ held' = [held EXCEPT ![u] = held["slot"]],
           waiting' \in SUBSET User,
           UNCHANGED <<lightVars, mode, slot, sup, cli, synced>>
    PROVE  ChainIInv'
<1> USE ChainConstants
    DEF ChainIInv, ChainTypeOK, Daemon, Mine, Holder, lightVars
<1>1. ChainTypeOK'
  BY ZenonT(40) DEF LightTypeOK
<1>2. NodeShape' /\ CliShape' /\ DaemonShape' /\ ShutdownClosesAll'
  BY DEF NodeShape, CliShape, DaemonShape, ShutdownClosesAll, Connections
<1>3. SupervisorShape'
  BY DEF SupervisorShape
<1>4. HeldAlive'
  BY DEF HeldAlive, Live
<1>5. HandedOutSynced'
  BY DEF HandedOutSynced
<1> QED BY <1>1, <1>2, <1>3, <1>4, <1>5

\* Outside "hold" nobody but the supervisor can have the node of the attempt,
\* and a live node is that node.
LEMMA AttemptAlone ==
    ASSUME ChainIInv, Daemon, sup # "hold", NEW n \in Light, Live(n),
           held' \in [Holder -> Light \cup {External, NoChain}],
           \A h \in Holder : held'[h] = held[h] \/ held'[h] = NoChain,
           held'["supervisor"] = NoChain
    PROVE  \A h \in Holder : held'[h] # n
BY ChainConstants
   DEF ChainIInv, ChainTypeOK, Mine, Holder, HeldAlive, SupervisorShape

LEMMA NextAttemptKeeps ==
    ASSUME ChainIInv, Daemon, NextAttempt,
           sup # "hold" \/ status[Mine] \in Terminal,
           UNCHANGED <<status, phase, fresh, tasks, conn, pending, mode,
                       waiting, cli, synced>>
    PROVE  ChainIInv'
<1> USE ChainConstants DEF ChainIInv, ChainTypeOK, Daemon, Mine, Holder
<1>1. /\ held' \in [Holder -> Light \cup {External, NoChain}]
      /\ \A h \in Holder : held'[h] = held[h] \/ held'[h] = NoChain
      /\ held'["supervisor"] = NoChain /\ held'["slot"] = NoChain
  BY DEF NextAttempt
<1>2. \A n \in Light : Live(n) => \A h \in Holder : held'[h] # n
  <2>1. CASE sup # "hold"
    BY <1>1, <2>1, AttemptAlone
  <2>2. CASE status[Mine] \in Terminal
    BY <2>2 DEF HeldAlive, Live
  <2> QED BY <2>1, <2>2
<1>3. SupervisorShape'
  BY <1>1 DEF NextAttempt, SupervisorShape
<1> QED BY <1>1, <1>2, <1>3, LettingGo DEF NextAttempt

LEMMA AttemptFailsKeeps ==
    ASSUME ChainIInv, Daemon, NEW kind, AttemptFails(kind),
           sup \in {"start", "listen", "sync", "rpc"}
    PROVE  ChainIInv'
<1> USE ChainConstants DEF ChainIInv, ChainTypeOK, Daemon, Mine, Holder
<1>1. /\ held' \in [Holder -> Light \cup {External, NoChain}]
      /\ \A h \in Holder : held'[h] = held[h] \/ held'[h] = NoChain
      /\ held'["supervisor"] = NoChain
  BY DEF AttemptFails
<1>2. \A n \in Light : Live(n) => \A h \in Holder : held'[h] # n
  BY <1>1, AttemptAlone
<1>3. SupervisorShape'
  BY <1>1 DEF AttemptFails, SupervisorShape
<1> QED BY <1>1, <1>2, <1>3, LettingGo DEF AttemptFails

\* The supervisor runs in the daemon only.
LEMMA SupervisorInDaemon ==
    ASSUME ChainIInv, sup # "off"
    PROVE  Daemon
BY DEF ChainIInv, ChainTypeOK, CliShape, Daemon

LEMMA ReleaseKeeps ==
    ASSUME ChainIInv, NEW u \in User, Release(u)
    PROVE  ChainIInv'
<1> USE ChainConstants DEF ChainIInv, ChainTypeOK, Daemon, Mine, Holder
<1>1. Daemon
  BY DEF Release, CliShape
<1>2. /\ held' \in [Holder -> Light \cup {External, NoChain}]
      /\ \A h \in Holder : held'[h] = held[h] \/ held'[h] = NoChain
      /\ held'["supervisor"] = held["supervisor"] /\ held'["slot"] = held["slot"]
  BY DEF Release
<1>3. SupervisorShape'
  BY <1>2 DEF Release, SupervisorShape
<1> QED BY <1>1, <1>2, <1>3, LettingGo DEF Release, HeldAlive

LEMMA RegistryDroppedKeeps ==
    ASSUME ChainIInv, RegistryDropped
    PROVE  ChainIInv'
<1> USE ChainConstants DEF ChainIInv, ChainTypeOK, Daemon, Mine, Holder
<1>1. /\ held' \in [Holder -> Light \cup {External, NoChain}]
      /\ \A h \in Holder : held'[h] = NoChain
  BY DEF RegistryDropped
<1>2. \A n \in Light : Live(n) => \A h \in Holder : held'[h] # n
  BY <1>1
<1>3. SupervisorShape'
  BY <1>1 DEF RegistryDropped, SupervisorShape
<1> QED BY <1>1, <1>2, <1>3, LettingGo DEF RegistryDropped

\* The supervisor publishes the node it has been waiting for.
LEMMA CpsConnectsKeeps ==
    ASSUME ChainIInv, CpsConnects
    PROVE  ChainIInv'
<1> USE ChainConstants
    DEF ChainIInv, ChainTypeOK, Daemon, Mine, Holder, lightVars
<1> DEFINE chain == IF mode = "external" THEN External ELSE Mine
<1>1. Daemon /\ sup = "rpc" /\ held["slot"] = NoChain
  BY SupervisorInDaemon DEF CpsConnects, SupervisorShape
<1>2. /\ held'["supervisor"] = chain /\ held'["slot"] = chain
      /\ \A u \in User : held'[u] = held[u]
      /\ held' \in [Holder -> Light \cup {External, NoChain}]
  BY DEF CpsConnects
<1>3. mode = "embedded" => chain = Mine /\ chain \in Light /\ chain \in synced
  BY <1>1 DEF SupervisorShape
<1>4. mode = "external" => \A n \in Light : ~Live(n)
  BY <1>1 DEF HeldAlive, SupervisorShape
<1>5. ChainTypeOK'
  BY <1>2 DEF CpsConnects, LightTypeOK
<1>6. NodeShape' /\ CliShape' /\ DaemonShape' /\ ShutdownClosesAll'
  BY <1>1 DEF CpsConnects, NodeShape, CliShape, DaemonShape, ShutdownClosesAll,
              Connections
<1>7. SupervisorShape' /\ HandedOutSynced'
  BY <1>1, <1>2, <1>3 DEF CpsConnects, SupervisorShape, HandedOutSynced
<1>8. HeldAlive'
  <2>1. CASE mode = "embedded"
    BY <1>1, <1>2, <1>3, <2>1 DEF CpsConnects, HeldAlive, Live
  <2>2. CASE mode = "external"
    BY <1>1, <1>2, <1>4, <2>2 DEF CpsConnects, HeldAlive, Live
  <2> QED BY <1>1, <2>1, <2>2
<1> QED BY <1>5, <1>6, <1>7, <1>8
-----------------------------------------------------------------------------
(***************************************************************************)
(* Node steps: a node moves, references stay.                              *)
(***************************************************************************)
\* What is said of the registry survives a step in which no node comes to
\* life, none that is held is asked to stop, and none is forgotten.
LEMMA RegistryFrame ==
    ASSUME ChainIInv, status' \in [Light -> Status],
           \A k \in Light : status'[k] # status[k] => status[k] # "none",
           \A k \in Light : status[k] \in Terminal => status'[k] = status[k],
           \A k \in Light : status'[k] = "none" => status[k] = "none",
           stop' = stop, synced \subseteq synced',
           UNCHANGED <<mode, slot, held, waiting>>
    PROVE  HeldAlive' /\ HandedOutSynced'
<1> USE ChainConstants
    DEF ChainIInv, ChainTypeOK, LightTypeOK, Daemon, Mine, Holder
<1>1. HeldAlive'
  BY DEF HeldAlive, Live
<1>2. HandedOutSynced'
  BY DEF HandedOutSynced
<1> QED BY <1>1, <1>2

LEMMA MonitorStepKeeps ==
    ASSUME ChainIInv, NEW n \in Light, MonitorStep(n)
    PROVE  ChainIInv'
<1> USE ChainConstants DEF ChainIInv, ChainTypeOK, Daemon, Mine, Holder
<1>1. status[n] # "none" /\ tasks[n] # {}
  BY DEF MonitorStep, MonitorReads, NodeShape
<1>2. LightTypeOK'
  BY LightTyped DEF MonitorStep, MonitorReads, LightTypeOK
<1>3. /\ \A k \in Light \ {n} : status'[k] = status[k]
      /\ status[n] \in Terminal => status'[n] = status[n]
      /\ status'[n] # "none"
      /\ status'[n] = "stopped" => status[n] = "stopped"
      /\ status' \in [Light -> Status]
  BY <1>1, <1>2 DEF MonitorStep, MonitorReads, MapState, LightTypeOK, Phase
<1>4. /\ synced \subseteq synced' /\ synced' \subseteq Light
      /\ status'[n] = "ready" => n \in synced'
      /\ UNCHANGED <<tasks, stop, conn, mode, slot, sup, held, waiting, cli>>
  BY DEF MonitorStep, MonitorReads
<1>5. ChainTypeOK'
  BY <1>2, <1>4
<1>6. NodeShape'
  BY <1>1, <1>3, <1>4 DEF NodeShape, Terminal
<1>7. CliShape' /\ DaemonShape' /\ SupervisorShape'
  BY <1>1, <1>3, <1>4 DEF CliShape, DaemonShape, SupervisorShape, LightTypeOK
<1>8. HeldAlive' /\ HandedOutSynced'
  BY <1>1, <1>3, <1>4, RegistryFrame
<1>9. ShutdownClosesAll'
  BY <1>1, <1>3, <1>4 DEF ShutdownClosesAll, Connections
<1> QED BY <1>5, <1>6, <1>7, <1>8, <1>9

\* The other steps of a node: its tasks end, smoldot moves, clients come and
\* go.  Only a panic of the server changes the status.
LEMMA OtherLightStepKeeps ==
    ASSUME ChainIInv, NEW n \in Light, LightStep(n), ~MonitorStep(n)
    PROVE  ChainIInv'
<1> USE ChainConstants DEF ChainIInv, ChainTypeOK, Daemon, Mine, Holder
<1>1. UNCHANGED regVars /\ stop' = stop
  BY DEF LightStep, MonitorEnds, PhaseChanges, ServerPanics, ServerEnds, Accept,
         Establish, Disconnect, Hangup, Request, Respond, AbortLands
<1>2. LightTypeOK'
  BY <1>1, LightTyped DEF LightStep, LightTypeOK
<1>3. status[n] # "none" /\ (tasks[n] # {} \/ \E c \in Client : AbortLands(n, c))
  <2>1. ASSUME NEW c \in Client, conn[n][c] \notin {"off", "aborted"} PROVE tasks[n] # {}
    BY <2>1 DEF NodeShape
  <2>2. tasks[n] # {} \/ \E c \in Client : AbortLands(n, c)
    BY <2>1 DEF LightStep, MonitorEnds, PhaseChanges, ServerPanics, ServerEnds,
                Accept, Establish, Disconnect, Request, Respond
  <2> QED BY <2>2 DEF NodeShape, AbortLands
<1>4. /\ \A k \in Light \ {n} :
            status'[k] = status[k] /\ tasks'[k] = tasks[k] /\ conn'[k] = conn[k]
      /\ status'[n] = status[n] \/ (status'[n] = "failed" /\ status[n] \notin Terminal)
      /\ tasks'[n] \subseteq tasks[n]
      /\ \A c \in Client :
            /\ conn'[n][c] \notin {"off", "aborted"} => "server" \in tasks'[n]
            /\ conn'[n][c] = "aborted" => status'[n] = "failed"
  <2> USE DEF LightTypeOK, NodeShape
  <2>1. CASE MonitorEnds(n)
    BY <2>1 DEF MonitorEnds
  <2>2. CASE PhaseChanges(n)
    BY <2>2 DEF PhaseChanges
  <2>3. CASE ServerPanics(n)
    BY <2>3 DEF ServerPanics, Terminal
  <2>4. CASE ServerEnds(n)
    BY <2>4 DEF ServerEnds
  <2>5. ASSUME NEW c \in Client,
               \/ Accept(n, c) \/ Establish(n, c) \/ Disconnect(n, c)
               \/ Request(n, c) \/ Respond(n, c)
        PROVE  /\ UNCHANGED <<status, tasks>>
               /\ conn' = conn \/ \E v \in {"off", "handshake", "setup", "open"} :
                                     conn' = [conn EXCEPT ![n][c] = v]
               /\ "server" \in tasks[n]
    BY <2>5 DEF Accept, Establish, Disconnect, Hangup, Request, Respond
  <2>6. ASSUME NEW c \in Client,
               \/ Accept(n, c) \/ Establish(n, c) \/ Disconnect(n, c)
               \/ Request(n, c) \/ Respond(n, c)
        PROVE  \A k \in Light \ {n} : conn'[k] = conn[k]
    BY <2>5, <2>6
  <2>7. ASSUME NEW c \in Client, AbortLands(n, c)
        PROVE  UNCHANGED <<status, tasks>> /\ conn' = [conn EXCEPT ![n][c] = "off"]
    BY <2>7 DEF AbortLands, Hangup
  <2>8. ASSUME NEW c \in Client,
               \/ Accept(n, c) \/ Establish(n, c) \/ Disconnect(n, c)
               \/ Request(n, c) \/ Respond(n, c) \/ AbortLands(n, c)
        PROVE  \A d \in Client :
                  /\ conn'[n][d] \notin {"off", "aborted"} => "server" \in tasks'[n]
                  /\ conn'[n][d] = "aborted" => status'[n] = "failed"
    BY <2>5, <2>7, <2>8
  <2> QED BY <2>1, <2>2, <2>3, <2>4, <2>5, <2>6, <2>7, <2>8 DEF LightStep
<1>5. ChainTypeOK'
  BY <1>1, <1>2 DEF regVars
<1>6. NodeShape'
  BY <1>1, <1>3, <1>4 DEF NodeShape, regVars
<1>7. CliShape' /\ DaemonShape' /\ SupervisorShape'
  BY <1>1, <1>3, <1>4 DEF CliShape, DaemonShape, SupervisorShape, regVars,
                          LightTypeOK
<1>8. HeldAlive' /\ HandedOutSynced'
  BY <1>1, <1>2, <1>3, <1>4, RegistryFrame DEF regVars, LightTypeOK, Terminal
<1>9. ShutdownClosesAll'
  BY <1>1, <1>3, <1>4 DEF ShutdownClosesAll, Connections, regVars
<1> QED BY <1>5, <1>6, <1>7, <1>8, <1>9

\* A spawned node was held by nobody: either its number is new or the last
\* node of that number was asked to stop.
LEMMA SpawnTyped ==
    ASSUME ChainIInv, NEW n \in Light, Spawn(n), stop' = stop \ {n}
    PROVE  /\ LightTypeOK'
           /\ status' = [status EXCEPT ![n] = "starting"]
           /\ tasks' = [tasks EXCEPT ![n] = {"monitor", "server"}]
           /\ conn' = conn /\ \A c \in Client : conn[n][c] # "aborted"
           /\ \A h \in Holder : held[h] # n
<1>1. LightTypeOK'
  BY LightTyped DEF ChainIInv, ChainTypeOK, LightTypeOK
<1>3. \A c \in Client : conn[n][c] # "aborted"
  BY DEF ChainIInv, NodeShape, Spawn, Vacant, Connections
<1>2. \A h \in Holder : held[h] # n
  BY DEF ChainIInv, HeldAlive, Spawn, Vacant
<1> QED BY <1>1, <1>2, <1>3 DEF Spawn

LEMMA LightStartsKeeps ==
    ASSUME ChainIInv, NEW n \in Light, LightStarts(n)
    PROVE  ChainIInv'
<1> USE ChainConstants DEF ChainIInv, ChainTypeOK, Daemon, Mine, Holder
<1>1. Daemon /\ sup = "start" /\ Spawn(n) /\ stop' = stop \ {n}
  BY SupervisorInDaemon DEF LightStarts
<1>2. /\ LightTypeOK'
      /\ status' = [status EXCEPT ![n] = "starting"]
      /\ tasks' = [tasks EXCEPT ![n] = {"monitor", "server"}]
      /\ conn' = conn /\ \A c \in Client : conn[n][c] # "aborted"
      /\ \A h \in Holder : held[h] # n
  BY <1>1, SpawnTyped
<1>3. /\ held'["supervisor"] = n /\ held'["slot"] = NoChain
      /\ \A u \in User : held'[u] = held[u]
      /\ held' \in [Holder -> Light \cup {External, NoChain}]
  BY <1>1 DEF LightStarts, SupervisorShape
<1>4. \A k \in Light : ~Live(k)
  BY <1>1 DEF SupervisorShape, HeldAlive
<1>5. ChainTypeOK'
  BY <1>2, <1>3 DEF LightStarts
<1>6. NodeShape'
  BY <1>1, <1>2 DEF NodeShape, LightTypeOK, LightStarts
<1>7. CliShape' /\ DaemonShape' /\ ShutdownClosesAll'
  BY <1>1 DEF CliShape, DaemonShape, ShutdownClosesAll, LightStarts
<1>8. SupervisorShape'
  BY <1>1, <1>2, <1>3 DEF SupervisorShape, LightStarts
<1>9. HeldAlive'
  <2>1. \A k \in Light : Live(k)' => k = n
    BY <1>1, <1>2, <1>4 DEF Live, LightTypeOK
  <2>2. \A h \in Holder : held'[h] \in Light =>
            held'[h] \notin stop' /\ status'[held'[h]] # "none"
    <3>1. /\ n \notin stop' /\ status'[n] = "starting"
          /\ \A k \in Light \ {n} : status'[k] = status[k] /\ (k \notin stop => k \notin stop')
      BY <1>1, <1>2 DEF LightTypeOK
    <3>2. \A u \in User : held[u] \in Light =>
              held[u] # n /\ held[u] \notin stop /\ status[held[u]] # "none"
      BY <1>2 DEF HeldAlive
    <3>3. \A h \in Holder : held'[h] \in Light => h \in User \/ held'[h] = n
      BY <1>3
    <3> QED BY <1>3, <3>1, <3>2, <3>3
  <2> QED BY <1>3, <2>1, <2>2 DEF HeldAlive
<1>10. HandedOutSynced'
  <2>1. \A u \in User : held'[u] \in Light => held[u] \in synced /\ held[u] # n
    <3>1. \A u \in User : held[u] \in Light => held[u] \in synced
      BY DEF HandedOutSynced
    <3>2. \A u \in User : held[u] # n
      BY <1>2
    <3> QED BY <1>3, <3>1, <3>2
  <2> QED BY <1>3, <2>1 DEF HandedOutSynced, LightStarts
<1> QED BY <1>5, <1>6, <1>7, <1>8, <1>9, <1>10

\* The status of a started node that only moves on keeps the invariant,
\* whatever the supervisor or the command does next.
LEMMA ListeningKeeps ==
    ASSUME ChainIInv, NEW n \in Light, Listening(n), status[n] # "none",
           UNCHANGED <<stop, mode, slot, held, waiting, synced>>
    PROVE  /\ LightTypeOK' /\ NodeShape' /\ HeldAlive' /\ HandedOutSynced'
           /\ \A k \in Light : status'[k] = "none" <=> status[k] = "none"
<1> USE ChainConstants DEF ChainIInv, ChainTypeOK
<1>1. LightTypeOK'
  BY LightTyped DEF LightTypeOK
<1>2. \A k \in Light : status'[k] = status[k]
                       \/ (k = n /\ status[k] = "starting" /\ status'[k] = "rpc-ready")
  BY DEF Listening, LightTypeOK
<1>3. NodeShape'
  BY <1>2 DEF NodeShape, Listening
<1>4. HeldAlive' /\ HandedOutSynced'
  BY <1>1, <1>2, RegistryFrame DEF LightTypeOK, Terminal
<1> QED BY <1>1, <1>2, <1>3, <1>4

LEMMA LightListensKeeps ==
    ASSUME ChainIInv, LightListens
    PROVE  ChainIInv'
<1> USE ChainConstants DEF ChainIInv, ChainTypeOK, Daemon, Mine, Holder
<1>1. Daemon /\ Mine \in Light /\ status[Mine] # "none"
  BY SupervisorInDaemon DEF LightListens, SupervisorShape, HeldAlive
<1>2. LightTypeOK' /\ NodeShape' /\ HeldAlive' /\ HandedOutSynced'
  BY <1>1, ListeningKeeps DEF LightListens
<1>3. ChainTypeOK'
  BY <1>2 DEF LightListens
<1>4. CliShape' /\ DaemonShape' /\ ShutdownClosesAll' /\ SupervisorShape'
  BY <1>1 DEF LightListens, CliShape, DaemonShape, ShutdownClosesAll,
              SupervisorShape
<1> QED BY <1>2, <1>3, <1>4

LEMMA WaitReadyKeeps ==
    ASSUME ChainIInv, WaitReady
    PROVE  ChainIInv'
<1> USE ChainConstants DEF ChainIInv, ChainTypeOK, Daemon, Mine, Holder
<1>1. Daemon /\ Mine \in Light /\ sup = "sync"
  BY SupervisorInDaemon DEF WaitReady, SupervisorShape
<1>2. CASE AttemptFails("transient")
  BY <1>1, <1>2, AttemptFailsKeeps
<1>3. CASE /\ status[Mine] = "ready"
           /\ sup' = "rpc"
           /\ UNCHANGED <<lightVars, mode, slot, held, waiting, cli, synced>>
  <2> USE <1>3 DEF lightVars
  <2>1. ChainTypeOK' /\ NodeShape' /\ HandedOutSynced'
    BY DEF LightTypeOK, NodeShape, HandedOutSynced
  <2>2. CliShape' /\ DaemonShape' /\ ShutdownClosesAll'
    BY <1>1 DEF CliShape, DaemonShape, ShutdownClosesAll
  <2>3. SupervisorShape'
    BY <1>1 DEF SupervisorShape, NodeShape
  <2>4. HeldAlive'
    BY DEF HeldAlive, Live
  <2> QED BY <2>1, <2>2, <2>3, <2>4
<1> QED BY <1>2, <1>3 DEF WaitReady
-----------------------------------------------------------------------------
(***************************************************************************)
(* The command: one node, no registry.                                     *)
(***************************************************************************)
\* While the command runs, only the statement about its own node is at stake.
LEMMA CommandFrame ==
    ASSUME ChainIInv, mode = "cli", LightTypeOK', NodeShape',
           cli' \in {"start", "listen", "watch", "stopping", "exited"},
           \A n, m \in Light : status'[n] # "none" /\ status'[m] # "none" => n = m,
           \A n \in stop' : status'[n] # "none",
           cli' = "start" => \A n \in Light : status'[n] = "none",
           ShutdownClosesAll',
           UNCHANGED <<mode, slot, sup, held, waiting, synced>>
    PROVE  ChainIInv'
<1> USE ChainConstants DEF ChainIInv, ChainTypeOK, Daemon, Mine, Holder
<1>1. ChainTypeOK' /\ CliShape' /\ DaemonShape' /\ SupervisorShape'
  BY DEF CliShape, DaemonShape, SupervisorShape
<1>2. HeldAlive' /\ HandedOutSynced'
  BY DEF CliShape, HeldAlive, HandedOutSynced
<1> QED BY <1>1, <1>2

LEMMA CommandKeeps ==
    ASSUME ChainIInv,
           \/ CliStartFails
           \/ \E n \in Light : \/ CliStarts(n) \/ CliListens(n)
                               \/ CliStops(n) \/ CliExits(n)
    PROVE  ChainIInv'
<1> USE ChainConstants DEF ChainIInv, ChainTypeOK, Daemon, Holder
<1>1. mode = "cli"
  BY DEF CliStartFails, CliStarts, CliListens, CliStops, CliExits, DaemonShape
<1>2. CASE CliStartFails
  BY <1>1, <1>2, CommandFrame
     DEF CliStartFails, lightVars, LightTypeOK, NodeShape, CliShape,
         ShutdownClosesAll
<1>3. ASSUME NEW n \in Light, CliStarts(n) PROVE ChainIInv'
  <2>1. /\ LightTypeOK'
        /\ status' = [status EXCEPT ![n] = "starting"]
        /\ tasks' = [tasks EXCEPT ![n] = {"monitor", "server"}]
        /\ conn' = conn /\ \A c \in Client : conn[n][c] # "aborted"
    BY <1>3, SpawnTyped DEF CliStarts
  <2>2. NodeShape'
    BY <1>3, <2>1 DEF NodeShape, LightTypeOK, CliStarts
  <2> QED BY <1>1, <1>3, <2>1, <2>2, CommandFrame
             DEF CliStarts, CliShape, ShutdownClosesAll, LightTypeOK
<1>4. ASSUME NEW n \in Light, CliListens(n) PROVE ChainIInv'
  <2>1. /\ LightTypeOK' /\ NodeShape'
        /\ \A k \in Light : status'[k] = "none" <=> status[k] = "none"
    BY <1>4, ListeningKeeps DEF CliListens
  <2> QED BY <1>1, <1>4, <2>1, CommandFrame
             DEF CliListens, CliShape, ShutdownClosesAll, LightTypeOK
<1>5. ASSUME NEW n \in Light, CliStops(n) PROVE ChainIInv'
  BY <1>1, <1>5, CommandFrame
     DEF CliStops, LightTypeOK, NodeShape, CliShape, ShutdownClosesAll
<1>6. ASSUME NEW n \in Light, CliExits(n) PROVE ChainIInv'
  <2>1. LightTypeOK'
    BY <1>6, LightTyped DEF CliExits, Joined, LightTypeOK
  <2>2. /\ n \in stop /\ status[n] # "none" /\ tasks[n] = {}
        /\ \A k \in Light : status[k] # "none" => k = n
        /\ UNCHANGED <<tasks, conn, stop>>
    BY <1>1, <1>6 DEF CliExits, Joined, CliShape
  <2>3. /\ \A k \in Light \ {n} : status'[k] = status[k]
        /\ status'[n] \in Terminal
        /\ status[n] \in Terminal => status'[n] = status[n]
    BY <1>6 DEF CliExits, Joined, LightTypeOK, Terminal
  <2>4. NodeShape'
    BY <1>6, <2>2, <2>3 DEF NodeShape, Terminal, CliExits
  <2>5. ShutdownClosesAll'
    BY <2>2, <2>3, <2>4 DEF ShutdownClosesAll, Connections, NodeShape
  <2> QED BY <1>1, <1>6, <2>1, <2>2, <2>3, <2>4, <2>5, CommandFrame
             DEF CliExits, CliShape, Terminal, LightTypeOK
<1> QED BY <1>2, <1>3, <1>4, <1>5, <1>6
-----------------------------------------------------------------------------
\* The invariant holds in every reachable state.
THEOREM ChainInvariant == ChainSpec => []ChainIInv
<1>1. ChainInit => ChainIInv
  BY InitInvariant
<1>2. ChainIInv /\ [ChainNext]_chainVars => ChainIInv'
  <2> SUFFICES ASSUME ChainIInv, [ChainNext]_chainVars PROVE ChainIInv'
    OBVIOUS
  <2>1. CASE CreateSlot
    BY <2>1, NextAttemptKeeps DEF CreateSlot
  <2>2. CASE SupervisorStep
    <3>1. sup # "off" => Daemon
      BY SupervisorInDaemon
    <3>2. CASE LightStartFails \/ CpsConnectFails
      BY <3>1, <3>2, AttemptFailsKeeps DEF LightStartFails, CpsConnectFails
    <3>3. CASE ChainLost \/ RetryDue
      BY <3>1, <3>3, NextAttemptKeeps DEF ChainLost, RetryDue
    <3> QED BY <2>2, <3>2, <3>3, LightListensKeeps, WaitReadyKeeps,
               CpsConnectsKeeps, LightStartsKeeps DEF SupervisorStep
  <2>3. ASSUME NEW u \in User,
               Get(u) \/ GetSettles(u) \/ GetCancelled(u) \/ TryGet(u)
        PROVE  ChainIInv'
    BY <2>3, Taking
       DEF Get, GetSettles, GetCancelled, TryGet, ChainIInv, ChainTypeOK
  <2>4. ASSUME NEW u \in User, Release(u) PROVE ChainIInv'
    BY <2>4, ReleaseKeeps
  <2>5. CASE RegistryDropped
    BY <2>5, RegistryDroppedKeeps
  <2>6. CASE \/ CliStartFails
             \/ \E n \in Light : \/ CliStarts(n) \/ CliListens(n)
                                 \/ CliStops(n) \/ CliExits(n)
    BY <2>6, CommandKeeps
  <2>7. ASSUME NEW n \in Light, LightStep(n) PROVE ChainIInv'
    BY <2>7, MonitorStepKeeps, OtherLightStepKeeps
  <2>8. CASE UNCHANGED chainVars
    BY <2>8 DEF chainVars, lightVars, regVars, ChainIInv, ChainTypeOK,
                LightTypeOK, NodeShape, CliShape, DaemonShape, SupervisorShape,
                HeldAlive, HandedOutSynced, ShutdownClosesAll, Connections,
                Live, Daemon, Mine
  <2> QED BY <2>1, <2>2, <2>3, <2>4, <2>5, <2>6, <2>7, <2>8 DEF ChainNext
<1> QED BY <1>1, <1>2, PTL DEF ChainSpec

\* A set whose members are all equal has at most one.
LEMMA AtMostOne ==
    ASSUME NEW S, \A a, b \in S : a = b
    PROVE  Cardinality(S) <= 1
<1>1. CASE S = {}
  BY <1>1, FS_EmptySet
<1>2. CASE S # {}
  <2>1. PICK x : S = {x}
    BY <1>2
  <2>2. Cardinality({x}) = 1
    BY FS_Singleton
  <2> QED BY <2>1, <2>2
<1> QED BY <1>1, <1>2

\* At most one node runs: the daemon's is the supervisor's, the command has
\* only one.
THEOREM LightExclusion == ChainSpec => []OneLiveLight
<1>1. ChainIInv => OneLiveLight
  <2> SUFFICES ASSUME ChainIInv PROVE OneLiveLight
    OBVIOUS
  <2> DEFINE live == {n \in Light : /\ status[n] \notin Terminal \cup {"none"}
                                    /\ n \notin stop}
  <2>1. \A n, m \in live : n = m
    <3>1. mode = "cli" \/ Daemon
      BY DEF ChainIInv, ChainTypeOK, Daemon
    <3> QED BY <3>1 DEF ChainIInv, CliShape, HeldAlive, Live
  <2> HIDE DEF live
  <2>2. Cardinality(live) <= 1
    BY <2>1, AtMostOne
  <2> QED BY <2>2 DEF OneLiveLight, live
<1> QED BY <1>1, ChainInvariant, PTL

\* Nobody is handed a chain that was never in sync.
THEOREM SyncBeforeUse == ChainSpec => []HandedOutSynced
BY ChainInvariant, PTL DEF ChainIInv

\* A finished command leaves nothing of its node behind.
THEOREM CleanShutdown == ChainSpec => []ShutdownClosesAll
BY ChainInvariant, PTL DEF ChainIInv
============================================================================
