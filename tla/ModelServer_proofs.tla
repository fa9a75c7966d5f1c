--------------------------- MODULE ModelServer_proofs ---------------------------
(***************************************************************************)
(* For any number of clients, processes and polls: ModelServer's types are *)
(* right, a server is left behind only by a setup() that raised, and only  *)
(* such a server, or one that survived SIGKILL, answers in place of the    *)
(* server its client holds.                                                *)
(***************************************************************************)
EXTENDS ModelServer, TLAPS

\* A process is unborn until a client spawns it.
Owned == \A p \in Pids : proc[p] # "unborn" => owner[p] \in Clients

\* Only a serving process holds the port.
PortServes == port \in Pids => proc[port] = "serving"

\* What a caller's position says of the two server handles: a readiness loop
\* has a server, a teardown has taken it out of self._server.
Handles ==
  \A c \in Clients :
    /\ pc[c] \in {"polling", "probing"} => server[c] \in Pids /\ leaving[c] = NoPid /\ ~ client[c]
    /\ pc[c] \in {"terminating", "killing"} =>
         server[c] = NoPid /\ leaving[c] \in Pids /\ ~ client[c]
    /\ pc[c] = "idle" => leaving[c] = NoPid

\* Outside every call, a client that has a server and is not ready got it
\* from a setup() that raised.
StaleHandles ==
  \A c \in Clients : pc[c] = "idle" /\ ~ client[c] /\ server[c] # NoPid => c \in failed

ServerInv == TypeOK /\ Owned /\ PortServes /\ Handles /\ StaleHandles /\ OnlyFailedSetupsLeak

-----------------------------------------------------------------------------
LEMMA ServerInvInit == Init => ServerInv
BY NoneAssumption, PollsAssumption
   DEF Init, ServerInv, TypeOK, Owned, PortServes, Handles, StaleHandles, OnlyFailedSetupsLeak, Alive

LEMMA SpawnServerInv == ServerInv /\ (\E c \in Clients : SpawnServer(c)) => ServerInv'
BY NoneAssumption, PollsAssumption
   DEF ServerInv, TypeOK, Owned, PortServes, Handles, StaleHandles, OnlyFailedSetupsLeak, Alive, SpawnServer

LEMMA GenerateJsonInv == ServerInv /\ (\E c \in Clients : GenerateJson(c)) => ServerInv'
BY NoneAssumption
   DEF ServerInv, TypeOK, Owned, PortServes, Handles, StaleHandles, OnlyFailedSetupsLeak, Alive, GenerateJson

LEMMA TeardownInv == ServerInv /\ (\E c \in Clients : Teardown(c)) => ServerInv'
BY NoneAssumption
   DEF ServerInv, TypeOK, Owned, PortServes, Handles, StaleHandles, OnlyFailedSetupsLeak, Alive, Teardown

LEMMA PollingInv ==
  ServerInv /\ (\E c \in Clients : PollTimesOut(c) \/ ServerExited(c) \/ CheckServer(c)) => ServerInv'
BY NoneAssumption, PollsAssumption
   DEF ServerInv, TypeOK, Owned, PortServes, Handles, StaleHandles, OnlyFailedSetupsLeak, Alive,
       PollTimesOut, ServerExited, CheckServer, SetupRaises, NextPoll

LEMMA ProbingInv ==
  ServerInv /\ (\E c \in Clients : ProbeReady(c) \/ ProbeNotReady(c)) => ServerInv'
<1> SUFFICES ASSUME ServerInv, NEW c \in Clients, ProbeReady(c) \/ ProbeNotReady(c)
             PROVE  ServerInv'
  OBVIOUS
<1>1. /\ pc[c] = "probing" /\ server[c] \in Pids /\ leaving[c] = NoPid
      /\ UNCHANGED <<server, leaving, polls, proc, port, reply, owner, failed, undead>>
  BY DEF ServerInv, Handles, ProbeReady, ProbeNotReady
<1>2. CASE ProbeReady(c)
  <2>1. client' = [client EXCEPT ![c] = TRUE] /\ pc' = [pc EXCEPT ![c] = "idle"]
    BY <1>2 DEF ProbeReady
  <2>2. TypeOK'
    BY <1>1, <2>1 DEF ServerInv, TypeOK
  <2>3. Handles' /\ StaleHandles'
    <3>1. \A d \in Clients \ {c} : pc'[d] = pc[d] /\ client'[d] = client[d]
      BY <2>1 DEF ServerInv, TypeOK
    <3>2. pc'[c] = "idle" /\ client'[c]
      BY <2>1 DEF ServerInv, TypeOK
    <3>. QED  BY <1>1, <3>1, <3>2, Zenon DEF ServerInv, Handles, StaleHandles
  <2>4. (Owned /\ PortServes /\ OnlyFailedSetupsLeak)'
    BY <1>1 DEF ServerInv, Owned, PortServes, OnlyFailedSetupsLeak, Alive
  <2>. QED  BY <2>2, <2>3, <2>4 DEF ServerInv
<1>3. CASE ProbeNotReady(c)
  BY <1>1, <1>3, NoneAssumption
     DEF ServerInv, TypeOK, Owned, PortServes, Handles, StaleHandles, OnlyFailedSetupsLeak, Alive,
         ProbeNotReady
<1>. QED  BY <1>2, <1>3

LEMMA WaitingInv ==
  ServerInv /\ (\E c \in Clients : WaitReturns(c) \/ Kill(c) \/ GiveUp(c)) => ServerInv'
BY NoneAssumption
   DEF ServerInv, TypeOK, Owned, PortServes, Handles, StaleHandles, OnlyFailedSetupsLeak, Alive,
       WaitReturns, Kill, GiveUp

LEMMA ProcessInv == ServerInv /\ (\E p \in Pids : Serve(p) \/ Exit(p)) => ServerInv'
BY NoneAssumption
   DEF ServerInv, TypeOK, Owned, PortServes, Handles, StaleHandles, OnlyFailedSetupsLeak, Alive,
       Serve, Exit, clientVars

LEMMA ServerInvStep == ServerInv /\ [Next]_vars => ServerInv'
<1>1. ServerInv /\ UNCHANGED vars => ServerInv'
  BY DEF ServerInv, TypeOK, Owned, PortServes, Handles, StaleHandles, OnlyFailedSetupsLeak, Alive,
         vars, clientVars
<1>. QED
  BY <1>1, SpawnServerInv, GenerateJsonInv, TeardownInv, PollingInv, ProbingInv, WaitingInv, ProcessInv
  DEF Next, Advance

LEMMA ServerInvariance == Spec => []ServerInv
<1>. QED  BY ServerInvInit, ServerInvStep, PTL DEF Spec

-----------------------------------------------------------------------------
\* Type correctness: in particular the readiness loop of setup() never takes
\* more turns than its deadline allows.
THEOREM TypeCorrect == Spec => []TypeOK
<1>1. ServerInv => TypeOK
  BY DEF ServerInv
<1>. QED  BY <1>1, ServerInvariance, PTL

\* A live server that no handle of its client points to has survived SIGKILL,
\* or its client's setup() raised: setup, teardown and their interleavings
\* over any number of clients leak nothing else.
THEOREM LeaksOnlyAfterFailure == Spec => []OnlyFailedSetupsLeak
<1>1. ServerInv => OnlyFailedSetupsLeak
  BY DEF ServerInv
<1>. QED  BY <1>1, ServerInvariance, PTL

\* No step makes a client ready, or gives it an answer, by a server it
\* spawned before the one it holds: for what listens at the port is alive, and
\* a live server of the client's own is the one it holds, unless it survived
\* SIGKILL or a setup() of the client raised.
THEOREM AnswersAreCurrent == Spec => ServedByCurrentServer
<1> DEFINE P == \A c \in Clients :
                  (client'[c] /\ ~ client[c]) \/ reply'[c] \notin {reply[c], NoPid}
                    => port = server[c] \/ owner[port] # c \/ c \in failed \/ port \in undead
<1>1. ServerInv /\ [Next]_vars => [P]_vars
  <2> SUFFICES ASSUME ServerInv, Next, NEW c \in Clients,
                      (client'[c] /\ ~ client[c]) \/ reply'[c] \notin {reply[c], NoPid},
                      owner[port] = c
               PROVE  port = server[c] \/ c \in failed \/ port \in undead
    OBVIOUS
  <2>1. ASSUME port \in Pids, leaving[c] = NoPid
        PROVE  port = server[c] \/ c \in failed \/ port \in undead
    <3>1. Alive(port) /\ port # NoPid
      BY <2>1, NoneAssumption DEF ServerInv, PortServes, Alive
    <3>. QED  BY <2>1, <3>1 DEF ServerInv, OnlyFailedSetupsLeak
  <2>2. CASE ProbeReady(c)
    BY <2>1, <2>2 DEF ProbeReady, ServerInv, TypeOK, Handles
  <2>3. CASE GenerateJson(c)
    BY <2>1, <2>3 DEF GenerateJson, ServerInv, TypeOK, Handles
  \* Nothing else makes c ready or answers it.
  <2>4. ProbeReady(c) \/ GenerateJson(c)
    <3>1. ASSUME NEW d \in Clients,
                 SpawnServer(d) \/ GenerateJson(d) \/ Teardown(d) \/ Advance(d)
          PROVE  ProbeReady(c) \/ GenerateJson(c)
      <4>1. CASE SpawnServer(d)
        BY <4>1 DEF SpawnServer
      <4>2. CASE GenerateJson(d)
        BY <4>2 DEF GenerateJson, ServerInv, TypeOK
      <4>3. CASE Teardown(d)
        BY <4>3 DEF Teardown, ServerInv, TypeOK
      <4>4. CASE PollTimesOut(d) \/ ServerExited(d) \/ CheckServer(d)
        BY <4>4 DEF PollTimesOut, ServerExited, CheckServer, SetupRaises
      <4>5. CASE ProbeReady(d) \/ ProbeNotReady(d)
        BY <4>5 DEF ProbeReady, ProbeNotReady, ServerInv, TypeOK
      <4>6. CASE WaitReturns(d) \/ Kill(d) \/ GiveUp(d)
        BY <4>6 DEF WaitReturns, Kill, GiveUp
      <4>. QED  BY <3>1, <4>1, <4>2, <4>3, <4>4, <4>5, <4>6 DEF Advance
    <3>2. ASSUME NEW p \in Pids, Serve(p) \/ Exit(p)
          PROVE  FALSE
      BY <3>2 DEF Serve, Exit, clientVars
    <3>. QED  BY <3>1, <3>2 DEF Next
  <2>. QED  BY <2>2, <2>3, <2>4
<1>. QED  BY <1>1, ServerInvariance, PTL DEF Spec, ServedByCurrentServer


-----------------------------------------------------------------------------
(* Why calls return, short of fairness.                                    *)

\* Steps the thread of c can still take inside its call, whatever the servers
\* do: two per turn of the readiness loop, two waits of a teardown.
StepsLeft(c) ==
  CASE pc[c] = "polling"     -> 2 * (MaxPolls - polls[c]) + 1
    [] pc[c] = "probing"     -> 2 * (MaxPolls - polls[c]) + 2
    [] pc[c] = "terminating" -> 2
    [] pc[c] = "killing"     -> 1
    [] OTHER                 -> 0

\* A thread inside a call takes only so many steps before it is out: its own
\* steps use them up, and no server and no other client gives it more.
THEOREM CallsAdvance ==
  Spec => [][\A c \in Clients : pc[c] # "idle" =>
               UNCHANGED <<pc[c], polls[c]>> \/ StepsLeft(c)' \in 0..StepsLeft(c) - 1]_vars
<1> DEFINE P == \A c \in Clients : pc[c] # "idle" =>
                  UNCHANGED <<pc[c], polls[c]>> \/ StepsLeft(c)' \in 0..StepsLeft(c) - 1
<1>1. ServerInv /\ ServerInv' /\ [Next]_vars => [P]_vars
  <2> SUFFICES ASSUME ServerInv, ServerInv', Next, NEW c \in Clients, pc[c] # "idle",
                      ~ UNCHANGED <<pc[c], polls[c]>>
               PROVE  StepsLeft(c)' \in 0..StepsLeft(c) - 1
    OBVIOUS
  \* Only its own call moves c.
  <2>1. Advance(c)
    <3>1. ASSUME NEW d \in Clients,
                 SpawnServer(d) \/ GenerateJson(d) \/ Teardown(d) \/ Advance(d)
          PROVE  Advance(c)
      <4>1. CASE d = c
        BY <3>1, <4>1 DEF SpawnServer, GenerateJson, Teardown
      <4>2. CASE d # c
        BY <3>1, <4>2
           DEF SpawnServer, GenerateJson, Teardown, Advance, PollTimesOut, ServerExited, CheckServer,
               SetupRaises, ProbeReady, ProbeNotReady, WaitReturns, Kill, GiveUp, ServerInv, TypeOK
      <4>. QED  BY <4>1, <4>2
    <3>2. ASSUME NEW p \in Pids, Serve(p) \/ Exit(p)
          PROVE  Advance(c)
      BY <3>2 DEF Serve, Exit, clientVars
    <3>. QED  BY <3>1, <3>2 DEF Next
  <2>2. /\ MaxPolls \in Nat /\ polls[c] \in 0..MaxPolls /\ polls'[c] \in 0..MaxPolls
        /\ pc \in [Clients -> {"idle", "polling", "probing", "terminating", "killing"}]
        /\ polls \in [Clients -> 0..MaxPolls]
    BY PollsAssumption DEF ServerInv, TypeOK
  <2>3. CASE PollTimesOut(c) \/ ServerExited(c)
    <3>1. pc[c] = "polling" /\ pc'[c] = "idle"
      BY <2>2, <2>3 DEF PollTimesOut, ServerExited, SetupRaises
    <3>2. StepsLeft(c) = 2 * (MaxPolls - polls[c]) + 1 /\ StepsLeft(c)' = 0
      BY <3>1 DEF StepsLeft
    <3>. QED  BY <2>2, <3>2
  <2>4. CASE CheckServer(c)
    <3>1. pc[c] = "polling" /\ pc'[c] = "probing" /\ polls'[c] = polls[c] + 1
      BY <2>2, <2>4 DEF CheckServer, NextPoll
    <3>2. /\ StepsLeft(c) = 2 * (MaxPolls - polls[c]) + 1
          /\ StepsLeft(c)' = 2 * (MaxPolls - polls'[c]) + 2
      BY <3>1 DEF StepsLeft
    <3>. QED  BY <2>2, <3>1, <3>2
  <2>5. CASE ProbeReady(c) \/ ProbeNotReady(c)
    <3>1. pc[c] = "probing" /\ pc'[c] \in {"idle", "polling"} /\ polls'[c] = polls[c]
      BY <2>2, <2>5 DEF ProbeReady, ProbeNotReady
    <3>2. /\ StepsLeft(c) = 2 * (MaxPolls - polls[c]) + 2
          /\ StepsLeft(c)' = 0 \/ StepsLeft(c)' = 2 * (MaxPolls - polls'[c]) + 1
      BY <3>1 DEF StepsLeft
    <3>. QED  BY <2>2, <3>1, <3>2
  <2>6. CASE WaitReturns(c) \/ Kill(c) \/ GiveUp(c)
    <3>1. \/ pc[c] \in {"terminating", "killing"} /\ pc'[c] = "idle"
          \/ pc[c] = "terminating" /\ pc'[c] = "killing"
      BY <2>2, <2>6 DEF WaitReturns, Kill, GiveUp
    <3>2. \/ StepsLeft(c) \in {1, 2} /\ StepsLeft(c)' = 0
          \/ StepsLeft(c) = 2 /\ StepsLeft(c)' = 1
      BY <3>1 DEF StepsLeft
    <3>. QED  BY <3>2
  <2>. QED  BY <2>1, <2>3, <2>4, <2>5, <2>6 DEF Advance
<1>. QED  BY <1>1, ServerInvariance, PTL DEF Spec
=============================================================================
