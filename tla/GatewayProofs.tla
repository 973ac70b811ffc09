---------------------------- MODULE GatewayProofs ----------------------------
(***************************************************************************)
(* That no permit is lost, that the unauthorized take none and that no     *)
(* operation observes a half-replaced workspace, for any number of         *)
(* connections and permits (src/cli/mcp_transport.rs, src/manager.rs).     *)
(***************************************************************************)
EXTENDS Gateway, FiniteSetTheorems, TLAPS

ServingSet == {c \in Clients : connection[c] \in Serving}
HoldingSet == {c \in Clients : holding[c]}
AcceptorHolds == IF acceptor \in {"accept", "backoff"} THEN 1 ELSE 0

(* A connection waits in the backlog at one place and nowhere else.        *)
BacklogWaits ==
  /\ \A i \in 1..Len(backlog) : connection[backlog[i]] = "backlog"
  /\ \A i, j \in 1..Len(backlog) : i # j => backlog[i] # backlog[j]

(* The exclusive side of the gate follows initialize,                      *)
GateFollows ==
  gate.writer = CASE initializer = "idle" -> "none"
                  [] initializer = "waiting" -> "waiting"
                  [] OTHER -> "holds"

(* which sets its fields in this order;                                    *)
FieldsInOrder ==
  /\ initializer \in {"idle", "waiting", "opening"} => config = actor /\ actor = intelligence
  /\ initializer = "actor" => config = actor
  /\ initializer \in {"config", "actor", "intelligence"} => config = inits
  /\ initializer \in {"actor", "intelligence"} => actor = inits
  /\ initializer = "intelligence" => intelligence = inits

(* and what a tool took is still there as long as it runs.                 *)
UsesCurrent ==
  \A c \in Clients :
    /\ uses[c].actor # 0 => c \in gate.readers /\ uses[c].actor = actor
    /\ uses[c].service # 0 => uses[c].actor # 0 /\ uses[c].service = intelligence

Conserved ==
  /\ slots + Cardinality(ServingSet) + AcceptorHolds = MaxConnections
  /\ bodies + Cardinality(HoldingSet) = BodyPermits

Marked ==
  /\ \A c \in Clients : holding[c] <=> connection[c] \in Serving \ {"head"}
  /\ gate.readers = {c \in Clients : connection[c] \in {"running", "tool"}}

(* The type invariant, name by name.                                       *)
Typed ==
  /\ backlog \in Seq(Clients)
  /\ acceptor \in {"starting", "permit", "accept", "backoff", "exited"}
  /\ connection \in [Clients -> Serving \union {"new", "backlog", "closed"}]
  /\ requests \in [Clients -> 0..MaxRequests]
  /\ slots \in 0..MaxConnections
  /\ bodies \in 0..BodyPermits
  /\ holding \in [Clients -> BOOLEAN]
  /\ gate \in [readers : SUBSET Clients, writer : {"none", "waiting", "holds"}]
  /\ gate.writer = "holds" => gate.readers = {}
  /\ initializer \in {"idle", "waiting", "opening", "config", "actor", "intelligence"}
  /\ inits \in 0..MaxInits /\ errors \in 0..MaxErrors
  /\ config \in 0..MaxInits /\ actor \in 0..MaxInits /\ intelligence \in 0..MaxInits
  /\ uses \in [Clients -> [actor : 0..MaxInits, service : 0..MaxInits]]

ApplicationInv ==
  /\ Typed /\ Marked /\ AuthorizedFirst /\ BacklogWaits
  /\ GateFollows /\ FieldsInOrder /\ UsesCurrent /\ Conserved

LEMMA InitStepsSet == {InitSteps[i] : i \in 1..4} = {"opening", "config", "actor", "intelligence"}
<1>1. \A i \in 1..4 : InitSteps[i] \in {"opening", "config", "actor", "intelligence"}
  BY DEF InitSteps
<1>2. InitSteps[1] = "opening" /\ InitSteps[2] = "config" /\ InitSteps[3] = "actor"
        /\ InitSteps[4] = "intelligence"
  BY DEF InitSteps
<1> QED BY <1>1, <1>2

LEMMA TypedIsTypeOK == Typed <=> GatewayTypeOK
<1>1. initializer \in {"idle", "waiting"} \union {InitSteps[i] : i \in 1..4}
        <=> initializer \in {"idle", "waiting", "opening", "config", "actor", "intelligence"}
  BY InitStepsSet
<1>2. {config, actor, intelligence} \subseteq 0..MaxInits
        <=> config \in 0..MaxInits /\ actor \in 0..MaxInits /\ intelligence \in 0..MaxInits
  BY Zenon
<1> QED BY <1>1, <1>2, Zenon DEF Typed, GatewayTypeOK

LEMMA Counting ==
  ASSUME NEW S \in SUBSET Clients
  PROVE  /\ Cardinality(S) \in Nat
         /\ \A c \in Clients : c \notin S => Cardinality(S \union {c}) = Cardinality(S) + 1
         /\ \A c \in S : Cardinality(S) = Cardinality(S \ {c}) + 1
<1>1. IsFiniteSet(S)
  BY GatewayAssumption, FS_Subset
<1>2. Cardinality(S) \in Nat
  BY <1>1, FS_CardinalityType
<1>3. ASSUME NEW c \in Clients, c \notin S
      PROVE  Cardinality(S \union {c}) = Cardinality(S) + 1
  BY <1>1, <1>3, FS_AddElement
<1>4. ASSUME NEW c \in S
      PROVE  Cardinality(S) = Cardinality(S \ {c}) + 1
  <2>1. Cardinality(S \ {c}) = Cardinality(S) - 1
    BY <1>1, FS_RemoveElement
  <2> QED BY <1>2, <2>1
<1> QED BY <1>2, <1>3, <1>4

LEMMA InitApplicationInv == GatewayInit => ApplicationInv
<1> SUFFICES ASSUME GatewayInit PROVE ApplicationInv
  OBVIOUS
<1>1. ServingSet = {} /\ HoldingSet = {}
  BY DEF GatewayInit, ServingSet, HoldingSet, Serving
<1>2. Conserved
  BY <1>1, FS_EmptySet, GatewayAssumption DEF Conserved, GatewayInit, AcceptorHolds
<1>3. Typed
  BY GatewayAssumption DEF GatewayInit, Typed, Serving
<1>4. Marked /\ AuthorizedFirst
  <2>1. \A c \in Clients : holding[c] = FALSE /\ connection[c] = "new"
    BY DEF GatewayInit
  <2>2. gate.readers = {}
    BY DEF GatewayInit
  <2> QED BY <2>1, <2>2 DEF Marked, AuthorizedFirst, Serving
<1>5. BacklogWaits
  BY DEF GatewayInit, BacklogWaits
<1>6. GateFollows /\ FieldsInOrder /\ UsesCurrent
  BY DEF GatewayInit, GateFollows, FieldsInOrder, UsesCurrent
<1> QED BY <1>2, <1>3, <1>4, <1>5, <1>6 DEF ApplicationInv

-----------------------------------------------------------------------------
(* The permits: what a step does to the two sets of holders decides.       *)

(* Nobody gets or returns a permit.                                        *)
LEMMA CountKept ==
  ASSUME Conserved, UNCHANGED <<slots, bodies>>, AcceptorHolds' = AcceptorHolds,
         ServingSet' = ServingSet, HoldingSet' = HoldingSet
  PROVE  Conserved'
BY DEF Conserved

(* Another permit for a connection, or one less: the acceptor's becomes    *)
(* the connection's, the connection's becomes free.                        *)
LEMMA CountAccepted ==
  ASSUME Conserved, NEW c \in Clients, c \notin ServingSet, ServingSet' = ServingSet \union {c},
         AcceptorHolds = 1, AcceptorHolds' = 0,
         UNCHANGED <<slots, bodies>>, HoldingSet' = HoldingSet,
         slots \in Nat
  PROVE  Conserved'
<1>1. ServingSet \in SUBSET Clients
  BY DEF ServingSet
<1>2. Cardinality(ServingSet') = Cardinality(ServingSet) + 1 /\ Cardinality(ServingSet) \in Nat
  BY <1>1, Counting
<1> QED BY <1>2, GatewayAssumption DEF Conserved

LEMMA CountReleased ==
  ASSUME Conserved, NEW c \in Clients, Released(c),
         connection' = [connection EXCEPT ![c] = "head"] \/ connection' = [connection EXCEPT ![c] = "closed"],
         c \in ServingSet, Typed, UNCHANGED acceptor,
         slots' = IF connection'[c] = "closed" THEN slots + 1 ELSE slots
  PROVE  /\ Conserved'
         /\ slots' \in Nat /\ bodies' \in Nat
<1>1. ServingSet \in SUBSET Clients /\ HoldingSet \in SUBSET Clients
  BY DEF ServingSet, HoldingSet
<1>2. AcceptorHolds' = AcceptorHolds /\ AcceptorHolds \in {0, 1}
  BY DEF AcceptorHolds
<1>3. bodies' + Cardinality(HoldingSet') = BodyPermits /\ bodies' \in Nat
  <2>1. CASE holding[c]
    <3>1. HoldingSet' = HoldingSet \ {c} /\ c \in HoldingSet
      BY <2>1 DEF HoldingSet, Released, Typed
    <3>2. Cardinality(HoldingSet) = Cardinality(HoldingSet') + 1
      BY <1>1, <3>1, Counting
    <3>3. Cardinality(HoldingSet') \in Nat
      BY <1>1, <3>1, Counting
    <3>4. bodies' = bodies + 1 /\ bodies \in Nat
      BY <2>1 DEF Released, Typed
    <3> QED BY <3>2, <3>3, <3>4, GatewayAssumption DEF Conserved
  <2>2. CASE ~holding[c]
    <3>1. HoldingSet' = HoldingSet
      BY <2>2 DEF HoldingSet, Released, Typed
    <3>2. bodies' = bodies /\ bodies \in Nat
      BY <2>2 DEF Released, Typed
    <3> QED BY <3>1, <3>2 DEF Conserved
  <2> QED BY <2>1, <2>2
<1>4. slots' + Cardinality(ServingSet') + AcceptorHolds' = MaxConnections /\ slots' \in Nat
  <2>1. CASE connection' = [connection EXCEPT ![c] = "closed"]
    <3>1. ServingSet' = ServingSet \ {c}
      BY <2>1 DEF ServingSet, Typed, Serving
    <3>2. Cardinality(ServingSet) = Cardinality(ServingSet') + 1 /\ Cardinality(ServingSet') \in Nat
      BY <1>1, <3>1, Counting
    <3>3. slots' = slots + 1 /\ slots \in Nat
      BY <2>1 DEF Typed
    <3> QED BY <1>2, <3>2, <3>3, GatewayAssumption DEF Conserved
  <2>2. CASE connection' = [connection EXCEPT ![c] = "head"]
    <3>1. ServingSet' = ServingSet
      BY <2>2 DEF ServingSet, Typed, Serving
    <3>2. slots' = slots /\ slots \in Nat
      BY <2>2 DEF Typed
    <3> QED BY <1>2, <3>1, <3>2 DEF Conserved
  <2> QED BY <2>1, <2>2
<1> QED BY <1>3, <1>4 DEF Conserved

-----------------------------------------------------------------------------
(* Every step keeps ApplicationInv: initialize, *)

LEMMA InitializeKeeps ==
  ASSUME ApplicationInv, Initialize \/ InitializeStep
  PROVE  ApplicationInv'
<1> USE DEF connectionVars, requestVars
<1>0. /\ Typed /\ Marked /\ AuthorizedFirst /\ BacklogWaits
      /\ GateFollows /\ FieldsInOrder /\ UsesCurrent /\ Conserved
  BY DEF ApplicationInv
<1>1. /\ UNCHANGED <<backlog, slots, errors, connection, requests, bodies, holding, uses>>
      /\ gate'.readers = gate.readers /\ AcceptorHolds' = AcceptorHolds
  BY <1>0 DEF Typed, Initialize, InitializeStep, TakeGate, InitializeFails, Opened,
              SetActor, SetIntelligence, Initialized, AcceptorHolds
<1>2. ServingSet' = ServingSet /\ HoldingSet' = HoldingSet
  BY <1>1 DEF ServingSet, HoldingSet
<1>3. Conserved'
  BY <1>0, <1>1, <1>2, CountKept
<1>4. Marked' /\ AuthorizedFirst' /\ BacklogWaits'
  BY <1>0, <1>1, Zenon DEF Marked, AuthorizedFirst, BacklogWaits, Serving
<1>5. Typed'
  <2>1. gate' \in [readers : SUBSET Clients, writer : {"none", "waiting", "holds"}]
    BY <1>0 DEF Typed, Initialize, InitializeStep, TakeGate, InitializeFails, Opened,
                SetActor, SetIntelligence, Initialized
  <2>2. gate'.writer = "holds" => gate'.readers = {}
    BY <1>0 DEF Typed, Initialize, InitializeStep, TakeGate, InitializeFails, Opened,
                SetActor, SetIntelligence, Initialized
  <2>3. /\ initializer' \in {"idle", "waiting", "opening", "config", "actor", "intelligence"}
        /\ acceptor' \in {"starting", "permit", "accept", "backoff", "exited"}
    BY <1>0 DEF Typed, Initialize, InitializeStep, TakeGate, InitializeFails, Opened,
                SetActor, SetIntelligence, Initialized
  <2>4. inits' \in 0..MaxInits
    BY <1>0, GatewayAssumption DEF Typed, Initialize, InitializeStep, TakeGate, InitializeFails,
                Opened, SetActor, SetIntelligence, Initialized
  <2>5. config' \in 0..MaxInits /\ actor' \in 0..MaxInits /\ intelligence' \in 0..MaxInits
    BY <1>0 DEF Typed, Initialize, InitializeStep, TakeGate, InitializeFails, Opened,
                SetActor, SetIntelligence, Initialized
  <2> QED BY <1>0, <1>1, <2>1, <2>2, <2>3, <2>4, <2>5, Zenon DEF Typed
<1>6. GateFollows' /\ FieldsInOrder'
  BY <1>0 DEF Typed, GateFollows, FieldsInOrder, Initialize, InitializeStep, TakeGate,
         InitializeFails, Opened, SetActor, SetIntelligence, Initialized
<1>7. UsesCurrent'
  <2>1. CASE UNCHANGED <<actor, intelligence>>
    BY <1>0, <1>1, <2>1 DEF UsesCurrent
  <2>2. CASE SetActor \/ SetIntelligence
    <3>1. gate.writer = "holds"
      BY <1>0, <2>2 DEF GateFollows, SetActor, SetIntelligence
    <3>2. gate.readers = {}
      BY <1>0, <3>1 DEF Typed
    <3> QED BY <1>0, <1>1, <3>2 DEF UsesCurrent
  <2> QED BY <2>1, <2>2 DEF Initialize, InitializeStep, TakeGate, InitializeFails, Opened,
                            Initialized
<1> QED BY <1>3, <1>4, <1>5, <1>6, <1>7 DEF ApplicationInv

(* the accept loop, *)

LEMMA AcceptLoopKeeps ==
  ASSUME ApplicationInv, AcceptLoop \/ AcceptFails
  PROVE  ApplicationInv'
<1> USE DEF requestVars, applicationVars
<1>0. /\ Typed /\ Marked /\ AuthorizedFirst /\ BacklogWaits
      /\ GateFollows /\ FieldsInOrder /\ UsesCurrent /\ Conserved
  BY DEF ApplicationInv
<1>1. /\ UNCHANGED <<requests, bodies, holding, uses, gate, initializer, inits, config, actor,
                     intelligence>>
  BY DEF AcceptLoop, TakeSlot, Accept, Retry, AcceptFails
<1>2. GateFollows' /\ FieldsInOrder' /\ UsesCurrent' /\ AuthorizedFirst'
  BY <1>0, <1>1, Zenon DEF GateFollows, FieldsInOrder, UsesCurrent, AuthorizedFirst
<1>3. HoldingSet' = HoldingSet
  BY <1>1 DEF HoldingSet
<1>4. CASE Accept
  <2> DEFINE c == Head(backlog)
  <2>1. c \in Clients /\ connection[c] = "backlog" /\ backlog # <<>>
    <3>1. Len(backlog) \in Nat \ {0} /\ c = backlog[1] /\ c \in Clients
      BY <1>0, <1>4 DEF Accept, Typed
    <3> QED BY <1>0, <1>4, <3>1 DEF Accept, BacklogWaits
  <2>2. connection' = [connection EXCEPT ![c] = "head"]
    BY <1>4 DEF Accept
  <2>3. ServingSet' = ServingSet \union {c} /\ c \notin ServingSet
    BY <1>0, <2>1, <2>2 DEF ServingSet, Serving, Typed
  <2>4. Conserved'
    <3>1. AcceptorHolds = 1 /\ AcceptorHolds' = 0 /\ UNCHANGED <<slots, bodies>> /\ slots \in Nat
      BY <1>0, <1>4 DEF Accept, AcceptorHolds, Typed
    <3> HIDE DEF c
    <3> QED BY <1>0, <1>3, <2>1, <2>3, <3>1, CountAccepted
  <2>5. Typed'
    <3>1. backlog' \in Seq(Clients)
      BY <1>0, <1>4, <2>1 DEF Accept, Typed
    <3>2. /\ connection' \in [Clients -> Serving \union {"new", "backlog", "closed"}]
          /\ acceptor' = "permit" /\ UNCHANGED <<slots, errors>>
      BY <1>0, <1>4, <2>2 DEF Accept, Typed, Serving
    <3> QED BY <1>0, <1>1, <3>1, <3>2, Zenon DEF Typed
  <2>6. Marked'
    BY <1>0, <1>1, <2>1, <2>2 DEF Marked, Serving, Typed
  <2>7. BacklogWaits'
    <3>1. backlog' = Tail(backlog) /\ backlog \in Seq(Clients) /\ backlog # <<>>
      BY <1>0, <1>4 DEF Accept, Typed
    <3>2. /\ Len(backlog) \in Nat \ {0} /\ c = backlog[1]
          /\ Len(backlog') = Len(backlog) - 1
          /\ \A i \in 1..Len(backlog') : backlog'[i] = backlog[i+1] /\ backlog[i+1] \in Clients
      BY <3>1
    <3> HIDE DEF c
    <3>3. ASSUME NEW i \in 1..Len(backlog')
          PROVE  connection'[backlog'[i]] = "backlog"
      <4>1. i + 1 \in 1..Len(backlog) /\ 1 \in 1..Len(backlog) /\ i + 1 # 1
        BY <3>2
      <4>2. backlog[i+1] # c /\ connection[backlog[i+1]] = "backlog"
        BY <1>0, <3>2, <4>1 DEF BacklogWaits
      <4> QED BY <1>0, <2>2, <3>2, <4>2 DEF Typed
    <3>4. ASSUME NEW i \in 1..Len(backlog'), NEW j \in 1..Len(backlog'), i # j
          PROVE  backlog'[i] # backlog'[j]
      <4>1. i + 1 \in 1..Len(backlog) /\ j + 1 \in 1..Len(backlog) /\ i + 1 # j + 1
        BY <3>2, <3>4
      <4> QED BY <1>0, <3>2, <4>1 DEF BacklogWaits
    <3> QED BY <3>3, <3>4 DEF BacklogWaits
  <2> QED BY <1>2, <2>4, <2>5, <2>6, <2>7 DEF ApplicationInv
<1>5. CASE TakeSlot \/ Retry \/ AcceptFails
  <2>1. UNCHANGED <<backlog, connection>>
    BY <1>5 DEF TakeSlot, Retry, AcceptFails
  <2>2. ServingSet' = ServingSet
    BY <2>1 DEF ServingSet
  <2>3. Cardinality(ServingSet) \in Nat
    BY Counting DEF ServingSet
  <2>4. Conserved' /\ slots' \in Nat
    <3>1. slots + Cardinality(ServingSet) + AcceptorHolds = MaxConnections /\ slots \in Nat
      BY <1>0 DEF Conserved, Typed
    <3>2. CASE TakeSlot
      BY <1>0, <1>1, <1>3, <2>2, <2>3, <3>1, <3>2, GatewayAssumption
         DEF TakeSlot, Conserved, AcceptorHolds
    <3>3. CASE Retry
      BY <1>0, <1>1, <1>3, <2>2, <2>3, <3>1, <3>3, GatewayAssumption
         DEF Retry, Conserved, AcceptorHolds
    <3>4. CASE AcceptFails
      BY <1>0, <1>1, <1>3, <2>2, <2>3, <3>1, <3>4, GatewayAssumption
         DEF AcceptFails, Conserved, AcceptorHolds
    <3> QED BY <1>5, <3>2, <3>3, <3>4
  <2>5. slots' \in 0..MaxConnections
    <3>1. Cardinality(ServingSet') \in Nat
      BY <2>2, <2>3
    <3>2. AcceptorHolds' \in {0, 1}
      BY DEF AcceptorHolds
    <3> QED BY <2>4, <3>1, <3>2, GatewayAssumption DEF Conserved
  <2>6. Typed'
    <3>1. acceptor' \in {"starting", "permit", "accept", "backoff", "exited"}
          /\ errors' \in 0..MaxErrors
      BY <1>0, <1>5, GatewayAssumption DEF TakeSlot, Retry, AcceptFails, Typed
    <3> QED BY <1>0, <1>1, <2>1, <2>5, <3>1, Zenon DEF Typed
  <2>7. Marked' /\ BacklogWaits'
    BY <1>0, <1>1, <2>1, Zenon DEF Marked, BacklogWaits
  <2> QED BY <1>2, <2>4, <2>6, <2>7 DEF ApplicationInv
<1> QED BY <1>4, <1>5 DEF AcceptLoop

(* the end of a request or of a connection, *)

LEMMA ReleasedKeeps ==
  ASSUME ApplicationInv, NEW c \in Clients, connection[c] \in Serving, Reply(c) \/ Closed(c)
  PROVE  ApplicationInv'
<1> USE DEF connectionVars, applicationVars
<1>0. /\ Typed /\ Marked /\ AuthorizedFirst /\ BacklogWaits
      /\ GateFollows /\ FieldsInOrder /\ UsesCurrent /\ Conserved
  BY DEF ApplicationInv
<1>1. /\ UNCHANGED <<backlog, acceptor, errors, requests, initializer, inits, config, actor,
                     intelligence>>
      /\ Released(c)
  BY DEF Reply, Closed
<1>2. \/ /\ connection' = [connection EXCEPT ![c] = "head"]
         /\ slots' = slots
      \/ /\ connection' = [connection EXCEPT ![c] = "closed"]
         /\ slots' = slots + 1
  BY DEF Reply, Closed
<1>3. Conserved' /\ slots' \in Nat /\ bodies' \in Nat
  <2>1. c \in ServingSet
    BY DEF ServingSet
  <2>2. slots' = IF connection'[c] = "closed" THEN slots + 1 ELSE slots
    BY <1>0, <1>2 DEF Typed
  <2> QED BY <1>0, <1>1, <1>2, <2>1, <2>2, CountReleased
<1>4. slots' \in 0..MaxConnections /\ bodies' \in 0..BodyPermits
  <2>1. Cardinality(ServingSet') \in Nat /\ Cardinality(HoldingSet') \in Nat
    <3>1. ServingSet' \in SUBSET Clients /\ HoldingSet' \in SUBSET Clients
      BY DEF ServingSet, HoldingSet
    <3> QED BY <3>1, Counting
  <2> QED BY <1>3, <2>1, GatewayAssumption DEF Conserved, AcceptorHolds
<1>5. /\ gate' = [gate EXCEPT !.readers = gate.readers \ {c}]
      /\ gate'.readers = gate.readers \ {c} /\ gate'.writer = gate.writer
  BY <1>0, <1>1 DEF Released, Typed
<1>6. Typed'
  <2>1. connection' \in [Clients -> Serving \union {"new", "backlog", "closed"}]
    BY <1>0, <1>2 DEF Typed, Serving
  <2>2. /\ gate' \in [readers : SUBSET Clients, writer : {"none", "waiting", "holds"}]
        /\ gate'.writer = "holds" => gate'.readers = {}
    BY <1>0, <1>5 DEF Typed
  <2>3. holding' \in [Clients -> BOOLEAN]
    BY <1>0, <1>1 DEF Typed, Released
  <2>4. uses' \in [Clients -> [actor : 0..MaxInits, service : 0..MaxInits]]
    BY <1>0, <1>1, GatewayAssumption DEF Typed, Released
  <2> QED BY <1>0, <1>1, <1>4, <2>1, <2>2, <2>3, <2>4, Zenon DEF Typed
<1>7. Marked'
  <2>1. ASSUME NEW d \in Clients
        PROVE  holding'[d] <=> connection'[d] \in Serving \ {"head"}
    BY <1>0, <1>1, <1>2 DEF Typed, Marked, Released, Serving
  <2>2. gate'.readers = {d \in Clients : connection'[d] \in {"running", "tool"}}
    BY <1>0, <1>2, <1>5 DEF Typed, Marked
  <2> QED BY <2>1, <2>2 DEF Marked
<1>8. AuthorizedFirst'
  BY <1>0, <1>1, <1>5 DEF AuthorizedFirst, Released, Typed
<1>9. BacklogWaits'
  <2>1. \A i \in 1..Len(backlog) : backlog[i] # c /\ backlog[i] \in Clients
    <3>1. connection[c] # "backlog"
      BY connection[c] \in Serving DEF Serving
    <3>2. \A i \in 1..Len(backlog) : backlog[i] \in Clients
      BY <1>0 DEF Typed
    <3> QED BY <1>0, <3>1, <3>2 DEF BacklogWaits
  <2>2. \A d \in Clients : d # c => connection'[d] = connection[d]
    BY <1>0, <1>2 DEF Typed
  <2>3. backlog' = backlog
    BY <1>1
  <2> QED BY <1>0, <2>1, <2>2, <2>3 DEF BacklogWaits
<1>10. GateFollows' /\ FieldsInOrder'
  BY <1>0, <1>1, <1>5 DEF GateFollows, FieldsInOrder
<1>11. UsesCurrent'
  BY <1>0, <1>1, <1>5 DEF UsesCurrent, Released, Typed
<1> QED BY <1>3, <1>6, <1>7, <1>8, <1>9, <1>10, <1>11 DEF ApplicationInv

(* and the steps of a request. *)

LEMMA ConnectKeeps ==
  ASSUME ApplicationInv, NEW c \in Clients, Connect(c)
  PROVE  ApplicationInv'
<1> USE DEF applicationVars
<1>0. /\ Typed /\ Marked /\ AuthorizedFirst /\ BacklogWaits
      /\ GateFollows /\ FieldsInOrder /\ UsesCurrent /\ Conserved
  BY DEF ApplicationInv
<1>1. /\ connection[c] = "new" /\ connection' = [connection EXCEPT ![c] = "backlog"]
      /\ backlog' = Append(backlog, c)
      /\ UNCHANGED <<acceptor, slots, errors, requests, bodies, holding, uses, gate,
                     initializer, inits, config, actor, intelligence>>
  BY DEF Connect
<1>2. ServingSet' = ServingSet /\ HoldingSet' = HoldingSet /\ AcceptorHolds' = AcceptorHolds
  BY <1>0, <1>1 DEF ServingSet, HoldingSet, AcceptorHolds, Typed, Serving
<1>3. Conserved'
  BY <1>0, <1>1, <1>2, CountKept
<1>4. Typed'
  <2>1. /\ connection' \in [Clients -> Serving \union {"new", "backlog", "closed"}]
        /\ backlog' \in Seq(Clients)
    BY <1>0, <1>1 DEF Typed
  <2> QED BY <1>0, <1>1, <2>1, Zenon DEF Typed
<1>5. Marked' /\ AuthorizedFirst'
  BY <1>0, <1>1 DEF Marked, AuthorizedFirst, Typed, Serving
<1>6. BacklogWaits'
  <2>1. /\ Len(backlog) \in Nat /\ Len(backlog') = Len(backlog) + 1
        /\ \A i \in 1..Len(backlog) : backlog'[i] = backlog[i] /\ backlog[i] \in Clients
        /\ backlog'[Len(backlog) + 1] = c
    BY <1>0, <1>1 DEF Typed
  <2>2. \A i \in 1..Len(backlog) : backlog[i] # c /\ connection'[backlog[i]] = "backlog"
    BY <1>0, <1>1, <2>1 DEF BacklogWaits, Typed
  <2>3. connection'[c] = "backlog"
    BY <1>0, <1>1 DEF Typed
  <2>4. ASSUME NEW i \in 1..Len(backlog') PROVE i \in 1..Len(backlog) \/ i = Len(backlog) + 1
    BY <2>1
  <2>5. \A i \in 1..Len(backlog') : connection'[backlog'[i]] = "backlog"
    BY <2>1, <2>2, <2>3, <2>4
  <2>6. \A i, j \in 1..Len(backlog') : i # j => backlog'[i] # backlog'[j]
    BY <1>0, <2>1, <2>2, <2>4 DEF BacklogWaits
  <2> QED BY <2>5, <2>6 DEF BacklogWaits
<1>7. GateFollows' /\ FieldsInOrder' /\ UsesCurrent'
  BY <1>0, <1>1, Zenon DEF GateFollows, FieldsInOrder, UsesCurrent
<1> QED BY <1>3, <1>4, <1>5, <1>6, <1>7 DEF ApplicationInv

LEMMA RequestKeeps ==
  ASSUME ApplicationInv, NEW c \in Clients,
         \/ Unauthorized(c) \/ NoCapacity(c) \/ Collect(c) \/ BodyArrives(c) \/ EnterGate(c)
         \/ TakeActor(c) \/ TakeService(c)
  PROVE  ApplicationInv'
<1> USE DEF applicationVars, connectionVars
<1>0. /\ Typed /\ Marked /\ AuthorizedFirst /\ BacklogWaits
      /\ GateFollows /\ FieldsInOrder /\ UsesCurrent /\ Conserved
  BY DEF ApplicationInv
<1>1. /\ UNCHANGED <<backlog, acceptor, slots, errors, initializer, inits, config, actor,
                     intelligence>>
      /\ connection[c] \in Serving
  BY DEF Unauthorized, NoCapacity, Collect, BodyArrives, EnterGate, TakeActor, TakeService, Send,
         Serving
<1>2. PICK place \in Serving : connection' = [connection EXCEPT ![c] = place]
  <2>1. CASE UNCHANGED connection
    BY <1>0, <1>1, <2>1 DEF Typed
  <2>2. CASE Collect(c) \/ BodyArrives(c) \/ EnterGate(c) \/ TakeService(c)
    BY <2>2 DEF Collect, BodyArrives, EnterGate, TakeService, Serving
  <2> QED BY <2>1, <2>2 DEF Unauthorized, NoCapacity, TakeActor
<1>3. ServingSet' = ServingSet /\ AcceptorHolds' = AcceptorHolds
  BY <1>0, <1>1, <1>2 DEF ServingSet, AcceptorHolds, Typed
<1>4. connection' \in [Clients -> Serving \union {"new", "backlog", "closed"}]
  BY <1>0, <1>2 DEF Typed
<1>5. requests' \in [Clients -> 0..MaxRequests]
  <2>1. CASE Send(c)
    BY <1>0, <2>1, GatewayAssumption DEF Typed, Send
  <2>2. CASE UNCHANGED requests
    BY <1>0, <2>2 DEF Typed
  <2> QED BY <2>1, <2>2 DEF Unauthorized, NoCapacity, Collect, BodyArrives, EnterGate, TakeActor,
                            TakeService
<1>6. BacklogWaits'
  <2>1. \A i \in 1..Len(backlog) : backlog[i] # c /\ backlog[i] \in Clients
    <3>1. connection[c] # "backlog"
      BY <1>1 DEF Serving
    <3>2. \A i \in 1..Len(backlog) : backlog[i] \in Clients
      BY <1>0 DEF Typed
    <3> QED BY <1>0, <3>1, <3>2 DEF BacklogWaits
  <2> QED BY <1>0, <1>1, <1>2, <2>1 DEF BacklogWaits, Typed
<1>7. FieldsInOrder'
  BY <1>0, <1>1, Zenon DEF FieldsInOrder
<1>8. CASE Unauthorized(c) \/ NoCapacity(c)
  <2>1. UNCHANGED <<connection, bodies, holding, uses, gate>>
    BY <1>8 DEF Unauthorized, NoCapacity
  <2>2. HoldingSet' = HoldingSet
    BY <2>1 DEF HoldingSet
  <2>3. Conserved'
    BY <1>0, <1>1, <1>3, <2>1, <2>2, CountKept
  <2>4. Typed'
    BY <1>0, <1>1, <1>5, <2>1, Zenon DEF Typed
  <2>5. Marked' /\ AuthorizedFirst' /\ GateFollows' /\ UsesCurrent'
    BY <1>0, <1>1, <2>1, Zenon DEF Marked, AuthorizedFirst, GateFollows, UsesCurrent
  <2> QED BY <1>6, <1>7, <2>3, <2>4, <2>5 DEF ApplicationInv
<1>9. CASE Collect(c)
  <2>1. /\ connection[c] = "head" /\ c \in Authorized /\ bodies > 0 /\ bodies' = bodies - 1
        /\ holding' = [holding EXCEPT ![c] = TRUE]
        /\ connection' = [connection EXCEPT ![c] = "collecting"]
        /\ UNCHANGED <<uses, gate>>
    BY <1>9 DEF Collect, Send
  <2>2. c \notin HoldingSet /\ HoldingSet' = HoldingSet \union {c}
    BY <1>0, <2>1 DEF HoldingSet, Marked, Typed
  <2>3. Cardinality(HoldingSet') = Cardinality(HoldingSet) + 1 /\ Cardinality(HoldingSet) \in Nat
    <3>1. HoldingSet \in SUBSET Clients
      BY DEF HoldingSet
    <3> QED BY <2>2, <3>1, Counting
  <2>4. bodies \in Nat
    BY <1>0 DEF Typed
  <2>5. Conserved'
    BY <1>0, <1>1, <1>3, <2>1, <2>3, <2>4, GatewayAssumption DEF Conserved
  <2>6. Typed'
    <3>1. bodies' \in 0..BodyPermits /\ holding' \in [Clients -> BOOLEAN]
      BY <1>0, <2>1, GatewayAssumption DEF Typed
    <3> QED BY <1>0, <1>1, <1>4, <1>5, <2>1, <3>1, Zenon DEF Typed
  <2>7. Marked' /\ AuthorizedFirst'
    BY <1>0, <2>1 DEF Marked, AuthorizedFirst, Typed, Serving
  <2>8. GateFollows' /\ UsesCurrent'
    BY <1>0, <1>1, <2>1, Zenon DEF GateFollows, UsesCurrent
  <2> QED BY <1>6, <1>7, <2>5, <2>6, <2>7, <2>8 DEF ApplicationInv
<1>10. CASE BodyArrives(c) \/ EnterGate(c)
  <2>1. /\ UNCHANGED <<bodies, holding, uses>>
        /\ \/ /\ connection[c] = "collecting" /\ gate' = gate
              /\ connection' = [connection EXCEPT ![c] = "admitted"]
           \/ /\ connection[c] = "admitted" /\ gate.writer = "none"
              /\ gate' = [gate EXCEPT !.readers = gate.readers \union {c}]
              /\ connection' = [connection EXCEPT ![c] = "running"]
    BY <1>10 DEF BodyArrives, EnterGate
  <2>2. HoldingSet' = HoldingSet
    BY <2>1 DEF HoldingSet
  <2>3. Conserved'
    BY <1>0, <1>1, <1>3, <2>1, <2>2, CountKept
  <2>4. Typed'
    <3>1. /\ gate' \in [readers : SUBSET Clients, writer : {"none", "waiting", "holds"}]
          /\ gate'.writer = "holds" => gate'.readers = {}
      BY <1>0, <2>1 DEF Typed
    <3> QED BY <1>0, <1>1, <1>4, <1>5, <2>1, <3>1, Zenon DEF Typed
  <2>5. Marked'
    <3>1. ASSUME NEW d \in Clients
          PROVE  holding'[d] <=> connection'[d] \in Serving \ {"head"}
      BY <1>0, <2>1 DEF Typed, Marked, Serving
    <3>2. gate'.readers = {d \in Clients : connection'[d] \in {"running", "tool"}}
      BY <1>0, <2>1 DEF Typed, Marked
    <3> QED BY <3>1, <3>2 DEF Marked
  <2>6. AuthorizedFirst'
    <3>1. holding[c] /\ c \in Authorized
      BY <1>0, <2>1 DEF Marked, AuthorizedFirst, Serving
    <3> QED BY <1>0, <2>1, <3>1 DEF AuthorizedFirst, Typed
  <2>7. GateFollows' /\ UsesCurrent'
    BY <1>0, <1>1, <2>1 DEF GateFollows, UsesCurrent, Typed
  <2> QED BY <1>6, <1>7, <2>3, <2>4, <2>5, <2>6, <2>7 DEF ApplicationInv
<1>11. CASE TakeActor(c) \/ TakeService(c)
  <2>1. /\ UNCHANGED <<bodies, holding, gate>>
        /\ connection[c] = "running"
        /\ connection' = connection \/ connection' = [connection EXCEPT ![c] = "tool"]
    BY <1>11 DEF TakeActor, TakeService
  <2>0. PICK use \in [actor : 0..MaxInits, service : 0..MaxInits] :
          /\ uses' = [uses EXCEPT ![c] = use]
          /\ use.actor = actor
          /\ use.service # 0 => use.service = intelligence /\ use.actor # 0
    <3>1. CASE TakeActor(c)
      <4>1. /\ uses[c] \in [actor : 0..MaxInits, service : 0..MaxInits] /\ actor \in 0..MaxInits
            /\ uses[c].actor = 0 /\ actor # 0
        BY <1>0, <3>1 DEF Typed, TakeActor
      <4>2. uses[c].service = 0
        BY <1>0, <4>1 DEF UsesCurrent
      <4>3. uses' = [uses EXCEPT ![c] = [uses[c] EXCEPT !.actor = actor]]
        BY <3>1 DEF TakeActor
      <4> DEFINE taken == [uses[c] EXCEPT !.actor = actor]
      <4>4. /\ taken \in [actor : 0..MaxInits, service : 0..MaxInits]
            /\ taken.actor = actor /\ taken.service = 0
        BY <4>1, <4>2
      <4>5. uses' = [uses EXCEPT ![c] = taken]
        BY <4>3
      <4> HIDE DEF taken
      <4> QED BY <4>4, <4>5
    <3>2. CASE TakeService(c)
      <4>1. /\ uses[c] \in [actor : 0..MaxInits, service : 0..MaxInits]
            /\ intelligence \in 0..MaxInits /\ uses[c].actor # 0
        BY <1>0, <3>2 DEF Typed, TakeService
      <4>2. uses[c].actor = actor
        BY <1>0, <4>1 DEF UsesCurrent
      <4>3. uses' = [uses EXCEPT ![c] = [uses[c] EXCEPT !.service = intelligence]]
        BY <3>2 DEF TakeService
      <4> DEFINE taken == [uses[c] EXCEPT !.service = intelligence]
      <4>4. /\ taken \in [actor : 0..MaxInits, service : 0..MaxInits]
            /\ taken.actor = actor /\ taken.actor # 0 /\ taken.service = intelligence
        BY <4>1, <4>2
      <4>5. uses' = [uses EXCEPT ![c] = taken]
        BY <4>3
      <4> HIDE DEF taken
      <4> QED BY <4>4, <4>5
    <3> QED BY <1>11, <3>1, <3>2
  <2>2. HoldingSet' = HoldingSet
    BY <2>1 DEF HoldingSet
  <2>3. Conserved'
    BY <1>0, <1>1, <1>3, <2>1, <2>2, CountKept
  <2>4. Typed'
    <3>1. uses' \in [Clients -> [actor : 0..MaxInits, service : 0..MaxInits]]
      BY <1>0, <2>0 DEF Typed
    <3> QED BY <1>0, <1>1, <1>4, <1>5, <2>1, <3>1, Zenon DEF Typed
  <2>5. Marked'
    <3>1. ASSUME NEW d \in Clients
          PROVE  holding'[d] <=> connection'[d] \in Serving \ {"head"}
      BY <1>0, <2>1 DEF Typed, Marked, Serving
    <3>2. gate'.readers = {d \in Clients : connection'[d] \in {"running", "tool"}}
      BY <1>0, <2>1 DEF Typed, Marked
    <3> QED BY <3>1, <3>2 DEF Marked
  <2>6. AuthorizedFirst' /\ GateFollows'
    BY <1>0, <1>1, <2>1, Zenon DEF AuthorizedFirst, GateFollows
  <2>7. UsesCurrent'
    <3>1. c \in gate.readers
      BY <1>0, <2>1 DEF Marked
    <3> QED BY <1>0, <1>1, <2>0, <2>1, <3>1 DEF UsesCurrent, Typed
  <2> QED BY <1>6, <1>7, <2>3, <2>4, <2>5, <2>6, <2>7 DEF ApplicationInv
<1> QED BY <1>8, <1>9, <1>10, <1>11

LEMMA NextApplicationInv ==
  ASSUME ApplicationInv, [GatewayNext]_gatewayVars
  PROVE  ApplicationInv'
<1>1. CASE UNCHANGED gatewayVars
  BY <1>1, Zenon DEF gatewayVars, connectionVars, requestVars, applicationVars, ApplicationInv,
     Typed, Marked, AuthorizedFirst, BacklogWaits, GateFollows, FieldsInOrder, UsesCurrent,
     Conserved, ServingSet, HoldingSet, AcceptorHolds
<1>2. CASE Initialize \/ InitializeStep \/ AcceptLoop \/ AcceptFails
  BY <1>2, InitializeKeeps, AcceptLoopKeeps
<1>3. ASSUME NEW c \in Clients,
             \/ Connect(c) \/ ServeRequest(c) \/ IdleTimeout(c) \/ Disconnect(c)
             \/ Unauthorized(c) \/ NoCapacity(c) \/ Collect(c)
             \/ BodyTooLarge(c) \/ CallRefused(c)
      PROVE  ApplicationInv'
  <2>1. CASE ToolReturns(c) \/ BodyTooLarge(c) \/ CallRefused(c) \/ IdleTimeout(c) \/ Disconnect(c)
    <3>1. connection[c] \in Serving /\ (Reply(c) \/ Closed(c))
      BY <2>1 DEF ToolReturns, BodyTooLarge, CallRefused, IdleTimeout, Disconnect, Serving
    <3> QED BY <3>1, ReleasedKeeps
  <2>2. CASE Connect(c)
    BY <2>2, ConnectKeeps
  <2> QED BY <1>3, <2>1, <2>2, RequestKeeps DEF ServeRequest
<1> QED BY <1>1, <1>2, <1>3 DEF GatewayNext

(* The permits, the order of the layers and the readers of the gate, for   *)
(* any number of connections, permits, requests and failures               *)
(* (src/cli/mcp_transport.rs).                                             *)
THEOREM PermitsKept == GatewaySpec => []GatewayInv
<1>1. ASSUME ApplicationInv PROVE GatewayInv
  <2>1. Typed /\ Marked /\ AuthorizedFirst /\ Conserved
    BY <1>1 DEF ApplicationInv
  <2>2. \A c \in Clients : holding[c] = (connection[c] \in Serving \ {"head"})
    <3>1. \A c \in Clients : holding[c] \in BOOLEAN
      BY <2>1 DEF Typed
    <3>2. \A c \in Clients : holding[c] <=> connection[c] \in Serving \ {"head"}
      BY <2>1 DEF Marked
    <3> QED BY <3>1, <3>2
  <2>3. PermitsConserved
    BY <2>1, <2>2, Zenon DEF PermitsConserved, Conserved, Marked, ServingSet, HoldingSet,
       AcceptorHolds
  <2> QED BY <2>1, <2>3, TypedIsTypeOK DEF GatewayInv
<1> QED BY <1>1, InitApplicationInv, NextApplicationInv, PTL DEF GatewaySpec

(* "no operation observes a half-replaced workspace" (src/manager.rs), for *)
(* any number of operations and of calls of initialize.                    *)
THEOREM NoHalfReplacedWorkspace == GatewaySpec => []WholeWorkspace
<1>1. ASSUME ApplicationInv PROVE WholeWorkspace
  <2>1. Typed /\ GateFollows /\ FieldsInOrder /\ UsesCurrent
    BY <1>1 DEF ApplicationInv
  <2>2. gate.writer # "holds" => config = actor /\ actor = intelligence
    BY <2>1 DEF Typed, GateFollows, FieldsInOrder
  <2>3. ASSUME NEW c \in Clients, uses[c].service # 0
        PROVE  uses[c].service = uses[c].actor
    <3>1. c \in gate.readers /\ uses[c].actor = actor /\ uses[c].service = intelligence
      BY <2>1, <2>3 DEF UsesCurrent
    <3>2. gate.writer # "holds"
      BY <2>1, <3>1 DEF Typed
    <3> QED BY <2>2, <3>1, <3>2
  <2> QED BY <2>2, <2>3 DEF WholeWorkspace
<1> QED BY <1>1, InitApplicationInv, NextApplicationInv, PTL DEF GatewaySpec

=============================================================================
