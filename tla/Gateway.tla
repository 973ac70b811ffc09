------------------------------- MODULE Gateway -------------------------------
(***************************************************************************)
(* How a request reaches a tool: the accept loop and the middleware of     *)
(* src/cli/mcp_transport.rs, the authorization and start-up of cli/serve.rs,*)
(* and Application of src/manager.rs with its operation gate.              *)
(*                                                                         *)
(* Connections wait in the backlog of the listener; one of MaxConnections  *)
(* permits admits them to a task that serves their requests one after the  *)
(* other.  A request is authorized, takes one of BodyPermits permits while *)
(* its body is collected and its tool runs, and runs under the shared side *)
(* of the operation gate, whose exclusive side initialize takes.  A client *)
(* may go away at any moment, which drops its task.                        *)
(*                                                                         *)
(* The server initializes once, before it binds; initializing again is an  *)
(* operation of Application, for which the gate is there.                  *)
(***************************************************************************)
EXTENDS Naturals, Sequences, FiniteSets

CONSTANTS
  Clients,          \* connections
  Authorized,       \* those that present the token
  MaxConnections,   \* MAX_HTTP_CONNECTIONS
  BodyPermits,      \* MAX_CONCURRENT_MCP_BODY_COLLECTIONS
  MaxRequests,      \* bound: requests sent on one connection
  MaxInits,         \* bound: calls of initialize
  MaxErrors         \* bound: errors of accept

ASSUME GatewayAssumption ==
  /\ IsFiniteSet(Clients) /\ Authorized \subseteq Clients
  /\ MaxConnections \in Nat \ {0} /\ BodyPermits \in Nat \ {0}
  /\ MaxRequests \in Nat /\ MaxInits \in Nat \ {0} /\ MaxErrors \in Nat

VARIABLES
  backlog,       \* connections the kernel has accepted for the listener
  acceptor,      \* the accept loop
  connection,    \* connection[c]: where the task of c stands
  requests,      \* requests[c]: requests sent on c
  slots,         \* free connection permits
  bodies,        \* free body permits
  holding,       \* holding[c]: the request of c holds a body permit
  gate,          \* operation_gate: who holds or awaits it
  initializer,   \* initialize
  inits,         \* calls of initialize so far
  config,        \* the three fields of Application, each by the call
  actor,         \*   of initialize that set it; 0 is None
  intelligence,
  uses,          \* uses[c]: the actor and service the tool of c took
  errors         \* errors of accept so far

connectionVars == <<backlog, acceptor, slots, errors>>
requestVars == <<connection, requests, bodies, holding, uses>>
applicationVars == <<initializer, inits, config, actor, intelligence>>
gatewayVars == <<connectionVars, requestVars, gate, applicationVars>>

Serving == {"head", "collecting", "admitted", "running", "tool"}
InitSteps == <<"opening", "config", "actor", "intelligence">>

GatewayTypeOK ==
  /\ backlog \in Seq(Clients)
  /\ acceptor \in {"starting", "permit", "accept", "backoff", "exited"}
  /\ connection \in [Clients -> Serving \union {"new", "backlog", "closed"}]
  /\ requests \in [Clients -> 0..MaxRequests]
  /\ slots \in 0..MaxConnections
  /\ bodies \in 0..BodyPermits
  /\ holding \in [Clients -> BOOLEAN]
  /\ gate \in [readers : SUBSET Clients, writer : {"none", "waiting", "holds"}]
  /\ gate.writer = "holds" => gate.readers = {}
  /\ initializer \in {"idle", "waiting"} \union {InitSteps[i] : i \in 1..4}
  /\ inits \in 0..MaxInits /\ errors \in 0..MaxErrors
  /\ {config, actor, intelligence} \subseteq 0..MaxInits
  /\ uses \in [Clients -> [actor : 0..MaxInits, service : 0..MaxInits]]

GatewayInit ==
  /\ backlog = <<>> /\ acceptor = "starting" /\ errors = 0
  /\ connection = [c \in Clients |-> "new"]
  /\ requests = [c \in Clients |-> 0]
  /\ slots = MaxConnections /\ bodies = BodyPermits
  /\ holding = [c \in Clients |-> FALSE]
  /\ gate = [readers |-> {}, writer |-> "none"]
  /\ initializer = "idle" /\ inits = 0
  /\ config = 0 /\ actor = 0 /\ intelligence = 0
  /\ uses = [c \in Clients |-> [actor |-> 0, service |-> 0]]

-----------------------------------------------------------------------------
(* Application::initialize. *)

(* A call asks for the exclusive side; operations that come later queue    *)
(* behind it.                                                              *)
Initialize ==
  /\ initializer = "idle" /\ inits < MaxInits
  /\ inits' = inits + 1
  /\ initializer' = "waiting"
  /\ gate' = [gate EXCEPT !.writer = "waiting"]
  /\ UNCHANGED <<connectionVars, requestVars, config, actor, intelligence>>

(* Mutant: the config is stored before the workspace is known to open. *)
TakeGateStoring ==
  /\ initializer = "waiting" /\ gate.readers = {}
  /\ gate' = [gate EXCEPT !.writer = "holds"]
  /\ config' = inits
  /\ initializer' = "opening"
  /\ UNCHANGED <<connectionVars, requestVars, inits, actor, intelligence>>

(* The operations that run have ended.                                     *)
TakeGate ==
  /\ initializer = "waiting" /\ gate.readers = {}
  /\ gate' = [gate EXCEPT !.writer = "holds"]
  /\ initializer' = "opening"
  /\ UNCHANGED <<connectionVars, requestVars, inits, config, actor, intelligence>>

(* initialize_blocking: a bad config, repository, index or Bash changes    *)
(* nothing; without a first workspace the server does not start.           *)
InitializeFails ==
  /\ initializer = "opening"
  /\ initializer' = "idle"
  /\ gate' = [gate EXCEPT !.writer = "none"]
  /\ acceptor' = IF acceptor = "starting" THEN "exited" ELSE acceptor
  /\ UNCHANGED <<backlog, slots, errors, requestVars, inits, config, actor, intelligence>>

(* The new workspace is opened and Bash answered: the three fields are set *)
(* one after the other.                                                    *)
Opened ==
  /\ initializer = "opening"
  /\ initializer' = "config"
  /\ config' = inits
  /\ UNCHANGED <<connectionVars, requestVars, gate, inits, actor, intelligence>>

SetActor ==
  /\ initializer = "config"
  /\ initializer' = "actor"
  /\ actor' = inits
  /\ UNCHANGED <<connectionVars, requestVars, gate, inits, config, intelligence>>

SetIntelligence ==
  /\ initializer = "actor"
  /\ initializer' = "intelligence"
  /\ intelligence' = inits
  /\ UNCHANGED <<connectionVars, requestVars, gate, inits, config, actor>>

(* initialize returns and the gate opens; run_serve goes on to bind.       *)
Initialized ==
  /\ initializer = "intelligence"
  /\ initializer' = "idle"
  /\ gate' = [gate EXCEPT !.writer = "none"]
  /\ acceptor' = IF acceptor = "starting" THEN "permit" ELSE acceptor
  /\ UNCHANGED <<backlog, slots, errors, requestVars, inits, config, actor, intelligence>>

-----------------------------------------------------------------------------
(* serve_with_idle_timeout. *)

Bound == acceptor \notin {"starting", "exited"}

Connect(c) ==
  /\ Bound /\ connection[c] = "new"
  /\ connection' = [connection EXCEPT ![c] = "backlog"]
  /\ backlog' = Append(backlog, c)
  /\ UNCHANGED <<acceptor, slots, errors, requests, bodies, holding, uses, gate,
                 applicationVars>>

TakeSlot ==
  /\ acceptor = "permit" /\ slots > 0
  /\ slots' = slots - 1
  /\ acceptor' = "accept"
  /\ UNCHANGED <<backlog, errors, requestVars, gate, applicationVars>>

(* accept returns a connection; its task takes the permit with it.         *)
Accept ==
  /\ acceptor = "accept" /\ backlog # <<>>
  /\ backlog' = Tail(backlog)
  /\ connection' = [connection EXCEPT ![Head(backlog)] = "head"]
  /\ acceptor' = "permit"
  /\ UNCHANGED <<slots, errors, requests, bodies, holding, uses, gate, applicationVars>>

(* accept fails and the loop pauses.                                       *)
AcceptFails ==
  /\ acceptor = "accept" /\ errors < MaxErrors
  /\ errors' = errors + 1
  /\ acceptor' = "backoff"
  /\ UNCHANGED <<backlog, slots, requestVars, gate, applicationVars>>

(* Mutant: the permit taken for the failed accept is kept. *)
RetryKeeping ==
  /\ acceptor = "backoff"
  /\ acceptor' = "permit"
  /\ UNCHANGED <<backlog, slots, errors, requestVars, gate, applicationVars>>

(* The permit is dropped as the loop starts over.                          *)
Retry ==
  /\ acceptor = "backoff"
  /\ slots' = slots + 1
  /\ acceptor' = "permit"
  /\ UNCHANGED <<backlog, errors, requestVars, gate, applicationVars>>

(* What ends with a request: its body permit and its share of the gate.    *)
Released(c) ==
  /\ bodies' = IF holding[c] THEN bodies + 1 ELSE bodies
  /\ holding' = [holding EXCEPT ![c] = FALSE]
  /\ gate' = [gate EXCEPT !.readers = @ \ {c}]
  /\ uses' = [uses EXCEPT ![c] = [actor |-> 0, service |-> 0]]

(* A reply is sent and the task waits for the next request head.           *)
Reply(c) ==
  /\ Released(c)
  /\ connection' = [connection EXCEPT ![c] = "head"]
  /\ UNCHANGED <<connectionVars, requests, applicationVars>>

(* The task of c ends: all it holds is dropped.                            *)
Closed(c) ==
  /\ Released(c)
  /\ connection' = [connection EXCEPT ![c] = "closed"]
  /\ slots' = slots + 1
  /\ UNCHANGED <<backlog, acceptor, errors, requests, applicationVars>>

(* Mutant: only the first request head is waited for with a timeout. *)
IdleTimeoutFirst(c) == connection[c] = "head" /\ requests[c] = 0 /\ Closed(c)

(* header_read_timeout: no request head in time.                           *)
IdleTimeout(c) == connection[c] = "head" /\ Closed(c)

(* The client goes away.                                                   *)
Disconnect(c) == connection[c] \in Serving /\ Closed(c)

-----------------------------------------------------------------------------
(* One request. *)

Send(c) ==
  /\ connection[c] = "head" /\ requests[c] < MaxRequests
  /\ requests' = [requests EXCEPT ![c] = @ + 1]

(* require_auth is the outer layer: 401 before anything is taken.          *)
Unauthorized(c) ==
  /\ Send(c) /\ c \notin Authorized
  /\ UNCHANGED <<connectionVars, connection, bodies, holding, uses, gate, applicationVars>>

(* limit_mcp_body: no permit, 503 at once.                                 *)
NoCapacity(c) ==
  /\ Send(c) /\ c \in Authorized /\ bodies = 0
  /\ UNCHANGED <<connectionVars, connection, bodies, holding, uses, gate, applicationVars>>

(* Mutant: the layers are applied in the other order. *)
CollectFirst(c) ==
  /\ Send(c) /\ bodies > 0
  /\ bodies' = bodies - 1
  /\ holding' = [holding EXCEPT ![c] = TRUE]
  /\ connection' = [connection EXCEPT ![c] = "collecting"]
  /\ UNCHANGED <<connectionVars, uses, gate, applicationVars>>

Collect(c) ==
  /\ Send(c) /\ c \in Authorized /\ bodies > 0
  /\ bodies' = bodies - 1
  /\ holding' = [holding EXCEPT ![c] = TRUE]
  /\ connection' = [connection EXCEPT ![c] = "collecting"]
  /\ UNCHANGED <<connectionVars, uses, gate, applicationVars>>

(* to_bytes: the body is there, or it is too large (413).                  *)
BodyArrives(c) ==
  /\ connection[c] = "collecting"
  /\ connection' = [connection EXCEPT ![c] = "admitted"]
  /\ UNCHANGED <<connectionVars, requests, bodies, holding, uses, gate, applicationVars>>

BodyTooLarge(c) == connection[c] = "collecting" /\ Reply(c)

(* call_tool: an unknown tool or arguments that do not parse.              *)
CallRefused(c) == connection[c] = "admitted" /\ Reply(c)

(* operation takes the shared side, which waits behind initialize,         *)
EnterGate(c) ==
  /\ connection[c] = "admitted" /\ gate.writer = "none"
  /\ gate' = [gate EXCEPT !.readers = @ \union {c}]
  /\ connection' = [connection EXCEPT ![c] = "running"]
  /\ UNCHANGED <<connectionVars, requests, bodies, holding, uses, applicationVars>>

(* and the tool takes the workspace,                                       *)
TakeActor(c) ==
  /\ connection[c] = "running" /\ uses[c].actor = 0 /\ actor # 0
  /\ uses' = [uses EXCEPT ![c].actor = actor]
  /\ UNCHANGED <<connectionVars, connection, requests, bodies, holding, gate, applicationVars>>

(* code_intelligence the service as well.                                  *)
TakeService(c) ==
  /\ connection[c] = "running" /\ uses[c].actor # 0 /\ intelligence # 0
  /\ uses' = [uses EXCEPT ![c].service = intelligence]
  /\ connection' = [connection EXCEPT ![c] = "tool"]
  /\ UNCHANGED <<connectionVars, requests, bodies, holding, gate, applicationVars>>

(* The tool's result or error goes out.                                    *)
ToolReturns(c) ==
  /\ connection[c] = "tool" \/ (connection[c] = "running" /\ uses[c].actor # 0)
  /\ Reply(c)

-----------------------------------------------------------------------------
InitializeStep ==
  TakeGate \/ InitializeFails \/ Opened \/ SetActor \/ SetIntelligence \/ Initialized
AcceptLoop == TakeSlot \/ Accept \/ Retry
ServeRequest(c) ==
  \/ BodyArrives(c) \/ EnterGate(c) \/ TakeActor(c) \/ TakeService(c) \/ ToolReturns(c)

GatewayNext ==
  \/ Initialize \/ InitializeStep
  \/ AcceptLoop \/ AcceptFails
  \/ \E c \in Clients :
       \/ Connect(c) \/ ServeRequest(c) \/ IdleTimeout(c) \/ Disconnect(c)
       \/ Unauthorized(c) \/ NoCapacity(c) \/ Collect(c)
       \/ BodyTooLarge(c) \/ CallRefused(c)

(* The accept loop, the tasks and initialize are run; hyper's timer closes *)
(* an idle connection; clients finish the bodies they began (no timeout of *)
(* the server makes them) and tools return.                                *)
GatewayFairness ==
  /\ WF_gatewayVars(InitializeStep)
  /\ WF_gatewayVars(AcceptLoop)
  /\ \A c \in Clients : /\ WF_gatewayVars(ServeRequest(c))
                        /\ WF_gatewayVars(IdleTimeout(c))

GatewaySpec == GatewayInit /\ [][GatewayNext]_gatewayVars /\ GatewayFairness

-----------------------------------------------------------------------------
(* Properties. *)

(* "no operation observes a half-replaced workspace": the workspace and    *)
(* the intelligence service a tool works with come from one initialize,    *)
(* and outside of one the three fields agree, after a failed one too.      *)
WholeWorkspace ==
  /\ \A c \in Clients : uses[c].service # 0 => uses[c].service = uses[c].actor
  /\ gate.writer # "holds" => config = actor /\ actor = intelligence

(* A request that is not authorized takes no body permit and runs no tool: *)
(* the order in which the layers are applied.                              *)
AuthorizedFirst ==
  \A c \in Clients : (holding[c] \/ c \in gate.readers) => c \in Authorized

(* However requests and connections end (reply, rejection, timeout, client *)
(* gone, failed accept), no permit is lost or returned twice, and nobody   *)
(* but a running request holds the gate.                                   *)
PermitsConserved ==
  /\ slots + Cardinality({c \in Clients : connection[c] \in Serving})
       + (IF acceptor \in {"accept", "backoff"} THEN 1 ELSE 0) = MaxConnections
  /\ bodies + Cardinality({c \in Clients : holding[c]}) = BodyPermits
  /\ \A c \in Clients : holding[c] = (connection[c] \in Serving \ {"head"})
  /\ gate.readers = {c \in Clients : connection[c] \in {"running", "tool"}}

(* Idle connections cannot keep others out for ever: one in the backlog is *)
(* eventually accepted.                                                    *)
BacklogServed == \A c \in Clients : connection[c] = "backlog" ~> connection[c] # "backlog"

(* What a request takes is there, is given back, and is taken by those     *)
(* with a token only (mcp_transport.rs, the operation gate of manager.rs). *)
GatewayInv == GatewayTypeOK /\ PermitsConserved /\ AuthorizedFirst

=============================================================================
