----------------------------- MODULE ModelServer -----------------------------
(***************************************************************************)
(* VLLMModelClient: client objects on one worker VM, the vLLM server       *)
(* subprocesses they spawn, and the one host:port all of them use.  Each   *)
(* client is driven by one caller, which calls setup(), generate_json()    *)
(* and teardown() in any order, and again after a setup() that raised.     *)
(*                                                                         *)
(* A server process boots, may take the port, and may exit at any time; it *)
(* exits without serving when the port is taken.  The weights, the prompt  *)
(* and the answer are left out: what is kept is which process answers.     *)
(***************************************************************************)
EXTENDS Integers, FiniteSets

CONSTANTS
  Clients,   \* VLLMModelClient objects on the VM
  Pids,      \* subprocesses that may ever be spawned (bounds the run)
  MaxPolls,  \* startup_timeout_s / poll_interval_s: turns before the deadline
  NoPid,     \* None
  NoClient   \* owner of a pid that was never spawned

ASSUME PollsAssumption == MaxPolls \in Nat \ {0}
ASSUME NoneAssumption  == NoPid \notin Pids /\ NoClient \notin Clients

VARIABLES
  pc,       \* where each client's caller is: "idle" is outside every call
  server,   \* self._server
  client,   \* self._client is not None
  leaving,  \* teardown()'s local: the server taken out of self._server
  polls,    \* turns of the readiness loop
  proc,     \* each process: "unborn", "booting", "serving", "exited"
  port,     \* the process that listens at host:port
  reply,    \* the process that answered the last generate_json, if any did
  owner,    \* history: who spawned the process
  failed,   \* history: clients with a setup() that raised after spawning
  undead    \* history: processes whose wait after SIGKILL timed out

clientVars == <<pc, server, client, leaving, polls, reply, failed, undead>>
vars == <<clientVars, proc, port, owner>>

-----------------------------------------------------------------------------
Alive(p) == proc[p] \in {"booting", "serving"}

Init ==
  /\ pc = [c \in Clients |-> "idle"]
  /\ server = [c \in Clients |-> NoPid]
  /\ client = [c \in Clients |-> FALSE]
  /\ leaving = [c \in Clients |-> NoPid]
  /\ polls = [c \in Clients |-> 0]
  /\ proc = [p \in Pids |-> "unborn"]
  /\ port = NoPid
  /\ reply = [c \in Clients |-> NoPid]
  /\ owner = [p \in Pids |-> NoClient]
  /\ failed = {}
  /\ undead = {}

\* setup() up to _wait_until_ready: the weights are pulled and a server is
\* spawned.  A client that is ready returns at once (no step); a pull or a
\* Popen that raises leaves the client as it was (no step either).
SpawnServer(c) ==
  /\ pc[c] = "idle"
  /\ ~ client[c]
  /\ \E p \in Pids :
       /\ proc[p] = "unborn"
       /\ proc' = [proc EXCEPT ![p] = "booting"]
       /\ owner' = [owner EXCEPT ![p] = c]
       /\ server' = [server EXCEPT ![c] = p]
  /\ polls' = [polls EXCEPT ![c] = 0]
  /\ pc' = [pc EXCEPT ![c] = "polling"]
  /\ UNCHANGED <<client, leaving, port, reply, failed, undead>>

\* setup() raises: whatever it spawned stays in self._server.
SetupRaises(c) ==
  /\ pc' = [pc EXCEPT ![c] = "idle"]
  /\ failed' = failed \cup {c}
  /\ UNCHANGED <<server, client, leaving, polls, proc, port, reply, owner, undead>>

\* The deadline has passed at the head of the readiness loop; no turn of
\* the loop is shorter than the poll interval, some are longer.
PollTimesOut(c) ==
  /\ pc[c] = "polling"
  /\ polls[c] > 0
  /\ SetupRaises(c)

\* self._server.poll() is not None.
ServerExited(c) ==
  /\ pc[c] = "polling"
  /\ polls[c] < MaxPolls
  /\ ~ Alive(server[c])
  /\ SetupRaises(c)

\* The server has not exited: go on to urlopen(models_url).
NextPollForever(n) == n

NextPoll(n) == n + 1

CheckServerPastDeadline(c) ==
  /\ pc[c] = "polling"
  /\ Alive(server[c])
  /\ polls' = [polls EXCEPT ![c] = NextPoll(@)]
  /\ pc' = [pc EXCEPT ![c] = "probing"]
  /\ UNCHANGED <<server, client, leaving, proc, port, reply, owner, failed, undead>>

CheckServer(c) ==
  /\ pc[c] = "polling"
  /\ polls[c] < MaxPolls
  /\ Alive(server[c])
  /\ polls' = [polls EXCEPT ![c] = NextPoll(@)]
  /\ pc' = [pc EXCEPT ![c] = "probing"]
  /\ UNCHANGED <<server, client, leaving, proc, port, reply, owner, failed, undead>>

\* A 200 from whichever process listens: the OpenAI client is built.
ProbeReady(c) ==
  /\ pc[c] = "probing"
  /\ port # NoPid
  /\ client' = [client EXCEPT ![c] = TRUE]
  /\ pc' = [pc EXCEPT ![c] = "idle"]
  /\ UNCHANGED <<server, leaving, polls, proc, port, reply, owner, failed, undead>>

\* Refused, reset, too slow, or not 200: sleep and try again.
ProbeNotReady(c) ==
  /\ pc[c] = "probing"
  /\ pc' = [pc EXCEPT ![c] = "polling"]
  /\ UNCHANGED <<server, client, leaving, polls, proc, port, reply, owner, failed, undead>>

\* generate_json: a client that is not set up raises; a built one gets its
\* answer from the process that listens, or a connection error.
GenerateJson(c) ==
  /\ pc[c] = "idle"
  /\ reply' = [reply EXCEPT ![c] = IF client[c] THEN port ELSE NoPid]
  /\ UNCHANGED <<pc, server, client, leaving, polls, proc, port, owner, failed, undead>>

\* teardown() as far as server.terminate(); without a server it is done.
Teardown(c) ==
  /\ pc[c] = "idle"
  /\ client' = [client EXCEPT ![c] = FALSE]
  /\ leaving' = [leaving EXCEPT ![c] = server[c]]
  /\ server' = [server EXCEPT ![c] = NoPid]
  /\ pc' = [pc EXCEPT ![c] = IF server[c] = NoPid THEN "idle" ELSE "terminating"]
  /\ UNCHANGED <<polls, proc, port, reply, owner, failed, undead>>

\* server.wait() returns: the process is gone.
WaitReturns(c) ==
  /\ pc[c] \in {"terminating", "killing"}
  /\ ~ Alive(leaving[c])
  /\ leaving' = [leaving EXCEPT ![c] = NoPid]
  /\ pc' = [pc EXCEPT ![c] = "idle"]
  /\ UNCHANGED <<server, client, polls, proc, port, reply, owner, failed, undead>>

\* server.wait(timeout=30) raises: server.kill().
KillOmitted(c) ==
  /\ pc[c] = "terminating"
  /\ Alive(leaving[c])
  /\ leaving' = [leaving EXCEPT ![c] = NoPid]
  /\ pc' = [pc EXCEPT ![c] = "idle"]
  /\ UNCHANGED <<server, client, polls, proc, port, reply, owner, failed, undead>>

Kill(c) ==
  /\ pc[c] = "terminating"
  /\ Alive(leaving[c])
  /\ pc' = [pc EXCEPT ![c] = "killing"]
  /\ UNCHANGED <<server, client, leaving, polls, proc, port, reply, owner, failed, undead>>

\* server.wait(timeout=10) raises too: logged, and teardown returns.
GiveUp(c) ==
  /\ pc[c] = "killing"
  /\ Alive(leaving[c])
  /\ undead' = undead \cup {leaving[c]}
  /\ leaving' = [leaving EXCEPT ![c] = NoPid]
  /\ pc' = [pc EXCEPT ![c] = "idle"]
  /\ UNCHANGED <<server, client, polls, proc, port, reply, owner, failed>>

\* A booted server binds the port.
Serve(p) ==
  /\ proc[p] = "booting"
  /\ port = NoPid
  /\ proc' = [proc EXCEPT ![p] = "serving"]
  /\ port' = p
  /\ UNCHANGED <<clientVars, owner>>

\* A server exits: bad weights, out of memory, the port is taken, a signal.
Exit(p) ==
  /\ Alive(p)
  /\ proc' = [proc EXCEPT ![p] = "exited"]
  /\ port' = IF port = p THEN NoPid ELSE port
  /\ UNCHANGED <<clientVars, owner>>

-----------------------------------------------------------------------------
\* What the thread inside a call does next.
Advance(c) ==
  \/ PollTimesOut(c) \/ ServerExited(c) \/ CheckServer(c)
  \/ ProbeReady(c) \/ ProbeNotReady(c)
  \/ WaitReturns(c) \/ Kill(c) \/ GiveUp(c)

Next ==
  \/ \E c \in Clients : SpawnServer(c) \/ GenerateJson(c) \/ Teardown(c) \/ Advance(c)
  \/ \E p \in Pids : Serve(p) \/ Exit(p)

\* Every timeout in a call is bounded, so a thread inside one moves on.
\* Nothing is assumed of the servers or of what callers call next.
Fairness == \A c \in Clients : WF_vars(Advance(c))

Spec == Init /\ [][Next]_vars /\ Fairness

-----------------------------------------------------------------------------
\* Every variable has its type; the readiness loop stays within its deadline.
TypeOK ==
  /\ pc \in [Clients -> {"idle", "polling", "probing", "terminating", "killing"}]
  /\ server \in [Clients -> Pids \cup {NoPid}]
  /\ client \in [Clients -> BOOLEAN]
  /\ leaving \in [Clients -> Pids \cup {NoPid}]
  /\ polls \in [Clients -> 0..MaxPolls]
  /\ proc \in [Pids -> {"unborn", "booting", "serving", "exited"}]
  /\ port \in Pids \cup {NoPid}
  /\ reply \in [Clients -> Pids \cup {NoPid}]
  /\ owner \in [Pids -> Clients \cup {NoClient}]
  /\ failed \in SUBSET Clients
  /\ undead \in SUBSET Pids

\* Only a setup() that raised can leave a server behind: a live process is
\* still the server of its client, is being torn down by it, has survived
\* SIGKILL, or was replaced when its client retried a failed setup().
OnlyFailedSetupsLeak ==
  \A p \in Pids : Alive(p) =>
    \/ p \in {server[owner[p]], leaving[owner[p]]}
    \/ p \in undead
    \/ owner[p] \in failed

\* A client whose setups never raised and whose servers all died when told
\* to is never made ready, and never answered, by a server it spawned before
\* the current one: a teardown followed by a setup starts afresh.
ServedByCurrentServer ==
  [][\A c \in Clients :
       (client'[c] /\ ~ client[c]) \/ reply'[c] \notin {reply[c], NoPid}
         => port = server[c] \/ owner[port] # c \/ c \in failed \/ port \in undead]_vars

\* A call of setup() or teardown() returns or raises, whatever the servers do.
CallsReturn == \A c \in Clients : pc[c] # "idle" ~> pc[c] = "idle"

-----------------------------------------------------------------------------
(* A statement of the client's docstrings that the code does not keep.     *)

\* teardown() is to "terminate the server subprocess and drop the client":
\* once it has returned, no server the client spawned is alive, unless it
\* survived SIGKILL.
TeardownStopsServer ==
  [][\A c \in Clients :
       (pc[c] \in {"terminating", "killing"} /\ pc'[c] = "idle")
         => \A p \in Pids : owner[p] = c /\ Alive(p) => p \in undead']_vars
==============================================================================
