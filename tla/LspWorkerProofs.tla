--------------------------- MODULE LspWorkerProofs ---------------------------
(***************************************************************************)
(* That the language-server worker implements SemanticBackend, keeps no    *)
(* state of an earlier server and begins no abandoned work, for any number *)
(* of callers, documents, texts, faults and messages and any capacity of   *)
(* the queue (src/intelligence/worker.rs, worker/server.rs); and that      *)
(* positions and edits of a server mean what they say for any text and any *)
(* number of edits (src/intelligence/position.rs, workspace_edit.rs).      *)
(***************************************************************************)
EXTENDS LspWorker, LspEdits, FiniteSetTheorems, SequenceLemmas, TLAPS

In(s) == {s[i] : i \in 1..Len(s)}
Distinct(s) == \A i, j \in 1..Len(s) : i # j => s[i] # s[j]

(* The command of a caller that has called, and waits unless it gave up.   *)
Outstanding(c) ==
  /\ caller[c] # "idle"
  /\ asked[c] \in Requests
  /\ c \notin late => caller[c] = "waiting"

(* A command is in the queue once, or in hand.                             *)
CommandsOnce ==
  /\ wpc \in Busy <=> cur \in Callers
  /\ cur \in Callers => Outstanding(cur)
  /\ \A c \in In(queue) : Outstanding(c) /\ c # cur
  /\ Distinct(queue)

(* Without a server nothing of one is left; with one, docs is what it was  *)
(* told, and it has been told the text of the command that awaits it.      *)
NoServer ==
  /\ docs = NoTexts /\ diags = NoTexts /\ told = NoTexts
  /\ nextId = 1 /\ proc = "none" /\ job = NoJob /\ inbox = <<>> /\ said = {}

ServerKept ==
  /\ wpc \in {"recv", "once", "exited"} /\ ~ready => NoServer
  /\ wpc = "exited" => ~ready
  /\ docs = told
  /\ CacheOfThisServer
  /\ wpc \in {"request", "publish"} => docs[asked[cur].uri] = asked[cur].text
  /\ wpc = "publish" => asked[cur].op # "position"

StatusKept ==
  /\ wpc \in {"recv", "once"} => (readiness = "ready" <=> ready)
  /\ wpc \in {"execute", "request", "publish"} => readiness = "ready"

(* A message on its way counts as said.                                    *)
Counted(m) == m.text # None => <<m.uri, m.text>> \in said

(* No message is newer than the last request; a response to it is about    *)
(* the document and the text of the command.                               *)
MessagesKept ==
  /\ nextId > 0 /\ job.id < nextId
  /\ \A m \in In(inbox) :
       /\ m.id < nextId
       /\ m.kind = "published" => m.uri \in Uris /\ m.text \in Texts
       /\ Counted(m)
  /\ wpc = "request" =>
       /\ nextId > 1
       /\ job.id = nextId - 1 => job.uri = asked[cur].uri
       /\ \A m \in In(inbox) : m.id = nextId - 1 => m.uri = asked[cur].uri /\ m.text = asked[cur].text

ConversationInv == TypeOK /\ CommandsOnce /\ ServerKept /\ StatusKept /\ MessagesKept

-----------------------------------------------------------------------------
LEMMA TailFacts ==
  ASSUME NEW S, NEW s \in Seq(S), s # <<>>
  PROVE  /\ Tail(s) \in Seq(S) /\ Head(s) \in S /\ Head(s) \in In(s)
         /\ In(Tail(s)) \subseteq In(s)
         /\ Len(Tail(s)) <= Len(s)
         /\ Distinct(s) => Distinct(Tail(s)) /\ Head(s) \notin In(Tail(s))
<1>1. /\ Tail(s) \in Seq(S) /\ Head(s) \in S /\ Head(s) = s[1] /\ Len(s) \in Nat \ {0}
      /\ Len(Tail(s)) = Len(s) - 1
      /\ \A i \in 1..Len(Tail(s)) : Tail(s)[i] = s[i+1]
  OBVIOUS
<1>2. /\ 1 \in 1..Len(s) /\ Len(Tail(s)) <= Len(s)
      /\ \A i \in 1..Len(Tail(s)) : i + 1 \in 1..Len(s) /\ i + 1 # 1
  BY <1>1
<1>3. Head(s) \in In(s) /\ In(Tail(s)) \subseteq In(s)
  BY <1>1, <1>2 DEF In
<1>4. ASSUME Distinct(s) PROVE Distinct(Tail(s))
  <2>1. ASSUME NEW i \in 1..Len(Tail(s)), NEW j \in 1..Len(Tail(s)), i # j
        PROVE  Tail(s)[i] # Tail(s)[j]
    <3>1. i + 1 # j + 1
      BY <1>1, <2>1
    <3> QED BY <1>1, <1>2, <1>4, <3>1 DEF Distinct
  <2> QED BY <2>1 DEF Distinct
<1>5. ASSUME Distinct(s) PROVE Head(s) \notin In(Tail(s))
  BY <1>1, <1>2, <1>5 DEF In, Distinct
<1> QED BY <1>1, <1>2, <1>3, <1>4, <1>5

LEMMA AppendFacts ==
  ASSUME NEW S, NEW s \in Seq(S), NEW x \in S
  PROVE  /\ Append(s, x) \in Seq(S)
         /\ In(Append(s, x)) = In(s) \union {x}
         /\ Len(Append(s, x)) = Len(s) + 1
         /\ Distinct(s) /\ x \notin In(s) => Distinct(Append(s, x))
<1> DEFINE a == Append(s, x)
<1>1. /\ a \in Seq(S) /\ Len(s) \in Nat /\ Len(a) = Len(s) + 1 /\ a[Len(s) + 1] = x
      /\ \A i \in 1..Len(s) : a[i] = s[i]
  OBVIOUS
<1> HIDE DEF a
<1>2. \A i \in 1..Len(a) : i \in 1..Len(s) \/ i = Len(s) + 1
  BY <1>1
<1>3. \A i \in 1..Len(s) : i \in 1..Len(a) /\ i # Len(s) + 1
  BY <1>1
<1>4. Len(s) + 1 \in 1..Len(a)
  BY <1>1
<1>5. In(a) = In(s) \union {x}
  BY <1>1, <1>2, <1>3, <1>4 DEF In
<1>6. ASSUME Distinct(s), x \notin In(s) PROVE Distinct(a)
  BY <1>1, <1>2, <1>6 DEF Distinct, In
<1> QED BY <1>1, <1>5, <1>6 DEF a

-----------------------------------------------------------------------------
(* Replies. *)

(* What a reply to c leaves alone.                                         *)
LEMMA ReplyFacts ==
  ASSUME TypeOK, NEW c \in Callers, NEW a \in [ok : BOOLEAN, text : Texts \union {None}],
         Reply(c, a)
  PROVE  /\ caller' \in [Callers -> {"idle", "waiting", "returned"}]
         /\ answer' \in [Callers -> [ok : BOOLEAN, text : Texts \union {None}] \union {None}]
         /\ UNCHANGED <<asked, late>>
         /\ \A d \in Callers : d # c /\ Outstanding(d) => Outstanding(d)'
<1>1. UNCHANGED <<asked, late>>
  BY DEF Reply
<1>2. \/ /\ caller' = [caller EXCEPT ![c] = "returned"]
         /\ answer' = [answer EXCEPT ![c] = a]
      \/ UNCHANGED <<caller, answer>>
  BY DEF Reply, Return
<1>3. caller \in [Callers -> {"idle", "waiting", "returned"}]
  BY DEF TypeOK
<1>4. answer' \in [Callers -> [ok : BOOLEAN, text : Texts \union {None}] \union {None}]
  BY <1>2 DEF TypeOK
<1>5. \A d \in Callers : d # c /\ Outstanding(d) => Outstanding(d)'
  BY <1>1, <1>2, <1>3 DEF Outstanding
<1> QED BY <1>1, <1>2, <1>3, <1>4, <1>5

(* A proper reply is an Answer of the backend.                             *)
LEMMA ReplyRefines ==
  ASSUME NEW c \in Callers, NEW a \in Backend!Proper(asked[c]), Reply(c, a)
  PROVE  [Backend!BackendNext]_<<caller, asked, answer>>
<1>1. CASE caller[c] = "waiting"
  <2>1. Backend!Answer(c)
    BY <1>1 DEF Reply, Return, Backend!Answer
  <2> QED BY <2>1 DEF Backend!BackendNext
<1>2. CASE caller[c] # "waiting"
  BY <1>2 DEF Reply
<1> QED BY <1>1, <1>2

LEMMA FailureIsProper ==
  ASSUME NEW c \in Callers, Outstanding(c)
  PROVE  /\ Failure \in Backend!Proper(asked[c])
         /\ Failure \in [ok : BOOLEAN, text : Texts \union {None}]
BY DEF Outstanding, Failure, Backend!Proper, Backend!Failure, Backend!Answers

-----------------------------------------------------------------------------
(* What has to be shown of every step: the invariant is kept, the step is  *)
(* one of the backend, and no abandoned work is begun.                     *)
Refines == [Backend!BackendNext]_<<caller, asked, answer>>
BeginsWanted == (wpc' = "once" /\ wpc # "once") => caller[cur'] = "waiting"
StepOK == ConversationInv' /\ Refines /\ BeginsWanted

(* An attempt ends without its server.                                     *)
LEMMA DiscardOK ==
  ASSUME ConversationInv, wpc \in Busy, NEW e, FailDiscarding(e), UNCHANGED <<queue, stop>>,
         faults' \in 0..MaxFaults, unasked' \in 0..MaxUnasked
  PROVE  StepOK
<1>0. TypeOK /\ CommandsOnce /\ ServerKept /\ StatusKept /\ MessagesKept
  BY DEF ConversationInv
<1>1. /\ NoServer' /\ ready' = FALSE /\ caps' = None
  BY DEF FailDiscarding, DropServer, NoServer
<1>2. cur \in Callers /\ Outstanding(cur) /\ cur \notin In(queue)
  BY <1>0 DEF CommandsOnce
<1>3. NoTexts \in [Uris -> Texts \union {None}] /\ <<>> \in Seq(Message) /\ In(<<>>) = {}
  BY DEF NoTexts, In
<1>4. NoJob \in [id : Nat, uri : Uris \union {None}] /\ NoJob.id = 0
  BY DEF NoJob
<1>5. In(queue) \subseteq Callers
  BY <1>0 DEF TypeOK, In
<1>6. MessagesKept' /\ (docs = told)' /\ CacheOfThisServer'
  <2>1. wpc' # "request"
    BY DEF FailDiscarding, Retry, Conclude
  <2> QED BY <1>1, <1>3, <1>4, <2>1 DEF MessagesKept, NoServer, NoTexts, CacheOfThisServer
<1>7. /\ docs' \in [Uris -> Texts \union {None}] /\ diags' \in [Uris -> Texts \union {None}]
      /\ told' \in [Uris -> Texts \union {None}] /\ nextId' \in Nat /\ proc' = "none"
      /\ job' \in [id : Nat, uri : Uris \union {None}] /\ inbox' \in Seq(Message)
      /\ said' \subseteq Uris \X Texts
  BY <1>1, <1>3, <1>4 DEF NoServer
<1>8. CASE MayRetry(e)
  <2>1. /\ wpc' = "once" /\ attempt' = 2 /\ readiness' = "lazy"
        /\ UNCHANGED <<caller, asked, late, answer, cur>>
    BY <1>8 DEF FailDiscarding, Retry, callVars
  <2>2. TypeOK'
    <3>1. wpc' \in Busy /\ attempt' \in {1, 2} /\ readiness' \in {"lazy", "starting", "ready"}
          /\ ready' \in BOOLEAN /\ caps' \in Capabilities \union {None}
          /\ proc' \in {"none", "alive", "mute", "dead"}
      BY <1>1, <1>7, <2>1 DEF Busy, Awaiting
    <3> QED BY <1>0, <1>7, <2>1, <3>1 DEF TypeOK
  <2>3. CommandsOnce'
    <3>1. wpc' \in Busy
      BY <2>1 DEF Busy, Awaiting
    <3> QED BY <1>0, <1>2, <2>1, <3>1 DEF CommandsOnce, Outstanding
  <2>4. ServerKept' /\ StatusKept'
    BY <1>1, <1>6, <2>1 DEF ServerKept, StatusKept
  <2>5. Refines
    BY <2>1 DEF Refines
  <2>6. BeginsWanted
    BY <1>2, <1>8, <2>1 DEF BeginsWanted, MayRetry, Outstanding
  <2> QED BY <1>6, <2>2, <2>3, <2>4, <2>5, <2>6 DEF StepOK, ConversationInv
<1>9. CASE ~MayRetry(e)
  <2>1. /\ wpc' = "recv" /\ attempt' = 1 /\ readiness' = "lazy" /\ cur' = None
        /\ Reply(cur, Failure)
    BY <1>9 DEF FailDiscarding, Conclude, Failure
  <2>2. /\ caller' \in [Callers -> {"idle", "waiting", "returned"}]
        /\ answer' \in [Callers -> [ok : BOOLEAN, text : Texts \union {None}] \union {None}]
        /\ UNCHANGED <<asked, late>>
        /\ \A d \in Callers : d # cur /\ Outstanding(d) => Outstanding(d)'
    BY <1>0, <1>2, <2>1, ReplyFacts, FailureIsProper
  <2>3. TypeOK'
    <3>1. attempt' \in {1, 2} /\ readiness' \in {"lazy", "starting", "ready"}
          /\ ready' \in BOOLEAN /\ caps' \in Capabilities \union {None}
          /\ proc' \in {"none", "alive", "mute", "dead"}
      BY <1>1, <1>7, <2>1
    <3> QED BY <1>0, <1>7, <2>1, <2>2, <3>1 DEF TypeOK
  <2>4. CommandsOnce'
    <3>1. wpc' \notin Busy /\ cur' \notin Callers
      BY <2>1, WorkerAssumption DEF Busy, Awaiting
    <3> QED BY <1>0, <1>2, <1>5, <2>2, <3>1 DEF CommandsOnce
  <2>5. ServerKept' /\ StatusKept'
    BY <1>1, <1>6, <2>1 DEF ServerKept, StatusKept
  <2>6. Refines
    BY <1>2, <2>1, FailureIsProper, ReplyRefines DEF Refines
  <2>7. BeginsWanted
    BY <2>1 DEF BeginsWanted
  <2> QED BY <1>6, <2>3, <2>4, <2>5, <2>6, <2>7 DEF StepOK, ConversationInv
<1> QED BY <1>8, <1>9

(* An attempt ends with a server that is kept.                             *)
LEMMA KeepOK ==
  ASSUME ConversationInv, wpc \in {"execute", "request", "publish"},
         NEW a \in Backend!Proper(asked[cur]), EndKeeping(a),
         UNCHANGED <<queue, stop, caps, nextId, proc, job, faults, unasked>>,
         inbox' \in Seq(Message), In(inbox') \subseteq In(inbox),
         docs' \in [Uris -> Texts \union {None}], docs' = told',
         diags' \in [Uris -> Texts \union {None}],
         said' \subseteq Uris \X Texts, CacheOfThisServer',
         \A m \in In(inbox') : Counted(m)'
  PROVE  StepOK
<1>0. TypeOK /\ CommandsOnce /\ ServerKept /\ StatusKept /\ MessagesKept
  BY DEF ConversationInv
<1>1. cur \in Callers /\ Outstanding(cur) /\ cur \notin In(queue)
  BY <1>0 DEF CommandsOnce, Busy, Awaiting
<1>2. a \in [ok : BOOLEAN, text : Texts \union {None}]
  <2>1. asked[cur] \in Requests
    BY <1>1 DEF Outstanding
  <2>2. asked[cur].text \in Texts
    BY <2>1 DEF Requests
  <2>3. /\ [ok |-> FALSE, text |-> None] \in [ok : BOOLEAN, text : Texts \union {None}]
        /\ \A t \in Texts : [ok |-> TRUE, text |-> t] \in [ok : BOOLEAN, text : Texts \union {None}]
    OBVIOUS
  <2>4. a = [ok |-> FALSE, text |-> None] \/ \E t \in Texts : a = [ok |-> TRUE, text |-> t]
    <3>1. CASE asked[cur].op = "position"
      BY <2>2, <3>1 DEF Backend!Proper, Backend!Failure, Backend!Success
    <3>2. CASE asked[cur].op # "position"
      BY <3>2 DEF Backend!Proper, Backend!Failure, Backend!Success, Backend!Answers
    <3> QED BY <3>1, <3>2
  <2> QED BY <2>3, <2>4
<1>3. /\ wpc' = "recv" /\ attempt' = 1 /\ cur' = None /\ ready' = TRUE
      /\ readiness' = "ready" /\ Reply(cur, a)
  BY <1>0 DEF EndKeeping, Conclude, StatusKept
<1>4. /\ caller' \in [Callers -> {"idle", "waiting", "returned"}]
      /\ answer' \in [Callers -> [ok : BOOLEAN, text : Texts \union {None}] \union {None}]
      /\ UNCHANGED <<asked, late>>
      /\ \A d \in Callers : d # cur /\ Outstanding(d) => Outstanding(d)'
  BY <1>0, <1>1, <1>2, <1>3, ReplyFacts
<1>5. TypeOK'
  BY <1>0, <1>3, <1>4 DEF TypeOK
<1>6. CommandsOnce'
  <2>1. wpc' \notin Busy /\ cur' \notin Callers
    BY <1>3, WorkerAssumption DEF Busy, Awaiting
  <2>2. In(queue) \subseteq Callers
    BY <1>0 DEF TypeOK, In
  <2> QED BY <1>0, <1>1, <1>4, <2>1, <2>2 DEF CommandsOnce
<1>7. ServerKept' /\ StatusKept'
  BY <1>3 DEF ServerKept, StatusKept
<1>8. MessagesKept'
  BY <1>0, <1>3 DEF MessagesKept
<1>9. Refines
  BY <1>1, <1>3, ReplyRefines DEF Refines
<1>10. BeginsWanted
  BY <1>3 DEF BeginsWanted
<1> QED BY <1>5, <1>6, <1>7, <1>8, <1>9, <1>10 DEF StepOK, ConversationInv

(* Steps of the thread that go on with the attempt: the command stays.     *)
LEMMA GoOnOK ==
  ASSUME ConversationInv, wpc \in Busy, wpc' \in Busy \ {"once"},
         UNCHANGED <<caller, asked, late, answer, queue, stop, cur, attempt>>,
         TypeOK', ServerKept', StatusKept', MessagesKept'
  PROVE  StepOK
<1>1. CommandsOnce'
  BY DEF ConversationInv, CommandsOnce, Outstanding
<1> QED BY <1>1 DEF StepOK, ConversationInv, Refines, BeginsWanted

-----------------------------------------------------------------------------
(* The steps. *)

LEMMA ReceiveOK ==
  ASSUME ConversationInv, Receive
  PROVE  StepOK
<1>0. TypeOK /\ CommandsOnce /\ ServerKept /\ StatusKept /\ MessagesKept
  BY DEF ConversationInv
<1> DEFINE h == Head(queue)
<1>1. /\ wpc = "recv" /\ queue # <<>> /\ queue' = Tail(queue)
      /\ UNCHANGED <<stop, readiness, ready, caps, docs, diags, nextId, proc, told, job, inbox,
                     said, faults, unasked>>
  BY DEF Receive, serverVars, procVars, boundVars
<1>2. /\ h \in Callers /\ h \in In(queue) /\ queue' \in Seq(Callers) /\ Len(queue') <= QueueCapacity
      /\ In(queue') \subseteq In(queue) /\ h \notin In(queue') /\ Distinct(queue')
  <2>1. /\ Tail(queue) \in Seq(Callers) /\ Head(queue) \in Callers /\ Head(queue) \in In(queue)
        /\ In(Tail(queue)) \subseteq In(queue) /\ Len(Tail(queue)) <= Len(queue)
        /\ Distinct(Tail(queue)) /\ Head(queue) \notin In(Tail(queue))
    BY <1>0, <1>1, TailFacts DEF TypeOK, CommandsOnce
  <2>2. Len(queue) \in Nat /\ Len(Tail(queue)) \in Nat /\ QueueCapacity \in Nat
        /\ Len(queue) <= QueueCapacity
    BY <1>0, <2>1, WorkerAssumption DEF TypeOK
  <2> QED BY <1>1, <2>1, <2>2
<1>3. Outstanding(h) /\ cur \notin Callers /\ In(queue) \subseteq Callers /\ cur = None
  <2>1. wpc \notin Busy
    BY <1>1 DEF Busy, Awaiting
  <2>2. Outstanding(h) /\ cur \notin Callers
    BY <1>0, <1>2, <2>1 DEF CommandsOnce
  <2>3. queue \in Seq(Callers) /\ cur \in Callers \union {None}
    BY <1>0 DEF TypeOK
  <2>4. In(queue) \subseteq Callers
    BY <2>3 DEF In
  <2> QED BY <2>2, <2>3, <2>4
<1>4. CASE stop \/ h \in late
  <2>1. Reply(h, Failure) /\ UNCHANGED <<wpc, cur, attempt>>
    BY <1>4 DEF Receive
  <2> HIDE DEF h
  <2>2. /\ caller' \in [Callers -> {"idle", "waiting", "returned"}]
        /\ answer' \in [Callers -> [ok : BOOLEAN, text : Texts \union {None}] \union {None}]
        /\ UNCHANGED <<asked, late>>
        /\ \A d \in Callers : d # h /\ Outstanding(d) => Outstanding(d)'
    BY <1>0, <1>2, <1>3, <2>1, ReplyFacts, FailureIsProper
  <2>3. TypeOK'
    BY <1>0, <1>1, <1>2, <2>1, <2>2 DEF TypeOK
  <2>4. CommandsOnce'
    BY <1>0, <1>2, <1>3, <2>1, <2>2 DEF CommandsOnce
  <2>5. ServerKept' /\ StatusKept' /\ MessagesKept'
    <3>1. wpc \notin {"request", "publish"}
      BY <1>1
    <3> QED BY <1>0, <1>1, <2>1, <3>1 DEF ServerKept, NoServer, StatusKept, MessagesKept, CacheOfThisServer, Counted
  <2>6. Refines /\ BeginsWanted
    BY <1>1, <1>2, <1>3, <2>1, FailureIsProper, ReplyRefines DEF Refines, BeginsWanted
  <2> QED BY <2>3, <2>4, <2>5, <2>6 DEF StepOK, ConversationInv
<1>5. CASE ~(stop \/ h \in late)
  <2>1. /\ wpc' = "once" /\ cur' = h /\ attempt' = 1
        /\ UNCHANGED <<caller, asked, late, answer>>
    BY <1>5 DEF Receive, callVars
  <2> HIDE DEF h
  <2>2. TypeOK'
    BY <1>0, <1>1, <1>2, <2>1 DEF TypeOK, Busy
  <2>3. CommandsOnce'
    <3>1. wpc' \in Busy
      BY <2>1 DEF Busy
    <3> QED BY <1>0, <1>2, <1>3, <2>1, <3>1 DEF CommandsOnce, Outstanding
  <2>4. ServerKept' /\ StatusKept' /\ MessagesKept'
    BY <1>0, <1>1, <2>1 DEF ServerKept, NoServer, StatusKept, MessagesKept, CacheOfThisServer, Counted
  <2>5. Refines /\ BeginsWanted
    BY <1>3, <1>5, <2>1 DEF Refines, BeginsWanted, Outstanding
  <2> QED BY <2>2, <2>3, <2>4, <2>5 DEF StepOK, ConversationInv
<1> QED BY <1>4, <1>5

LEMMA RunEndsOK ==
  ASSUME ConversationInv, RunEnds
  PROVE  StepOK
<1>0. TypeOK /\ CommandsOnce /\ ServerKept /\ StatusKept /\ MessagesKept
  BY DEF ConversationInv
<1>1. /\ wpc = "recv" /\ wpc' = "exited" /\ NoServer' /\ ready' = FALSE /\ caps' = None
      /\ UNCHANGED <<caller, asked, late, answer, queue, stop, cur, attempt, readiness, faults,
                     unasked>>
  BY DEF RunEnds, DropServer, NoServer, callVars, boundVars
<1>2. NoTexts \in [Uris -> Texts \union {None}] /\ <<>> \in Seq(Message) /\ In(<<>>) = {}
  BY DEF NoTexts, In
<1>3. NoJob \in [id : Nat, uri : Uris \union {None}] /\ NoJob.id = 0
  BY DEF NoJob
<1>4. TypeOK'
  BY <1>0, <1>1, <1>2, <1>3 DEF TypeOK, NoServer
<1>5. CommandsOnce'
  BY <1>0, <1>1 DEF CommandsOnce, Outstanding, Busy, Awaiting
<1>6. ServerKept' /\ StatusKept' /\ MessagesKept'
  BY <1>1, <1>2, <1>3 DEF ServerKept, CacheOfThisServer, Counted, StatusKept, MessagesKept, NoServer, NoTexts
<1>7. Refines /\ BeginsWanted
  BY <1>1 DEF Refines, BeginsWanted
<1> QED BY <1>4, <1>5, <1>6, <1>7 DEF StepOK, ConversationInv

LEMMA StartServerOK ==
  ASSUME ConversationInv, StartServer
  PROVE  StepOK
<1>0. TypeOK /\ CommandsOnce /\ ServerKept /\ StatusKept /\ MessagesKept
  BY DEF ConversationInv
<1>1. /\ wpc = "once" /\ ~ready /\ wpc' = "initialize" /\ readiness' = "starting"
      /\ proc' = "alive" /\ job' = [id |-> nextId, uri |-> None] /\ nextId' = nextId + 1
      /\ docs' = NoTexts
      /\ UNCHANGED <<caller, asked, late, answer, queue, stop, cur, attempt, ready, caps, diags,
                     told, inbox, said, faults, unasked>>
  BY DEF StartServer, callVars, boundVars
<1>2. NoServer
  BY <1>0, <1>1 DEF ServerKept
<1>3. NoTexts \in [Uris -> Texts \union {None}] /\ In(<<>>) = {}
  BY DEF NoTexts, In
<1>4. job' \in [id : Nat, uri : Uris \union {None}] /\ nextId' \in Nat /\ job'.id < nextId'
      /\ nextId' > 0
  BY <1>0, <1>1, <1>2 DEF TypeOK, NoServer
<1>5. TypeOK'
  BY <1>0, <1>1, <1>3, <1>4 DEF TypeOK, Busy, Awaiting
<1>6. ServerKept' /\ StatusKept'
  BY <1>0, <1>1, <1>2 DEF CacheOfThisServer, Counted, ServerKept, StatusKept, NoServer, NoTexts
<1>7. MessagesKept'
  BY <1>1, <1>2, <1>3, <1>4 DEF MessagesKept, NoServer
<1> QED BY <1>1, <1>5, <1>6, <1>7, GoOnOK DEF Busy, Awaiting

LEMMA TakeServerOK ==
  ASSUME ConversationInv, TakeServer
  PROVE  StepOK
<1>0. TypeOK /\ CommandsOnce /\ ServerKept /\ StatusKept /\ MessagesKept
  BY DEF ConversationInv
<1>1. /\ wpc = "once" /\ ready /\ ready' = FALSE /\ wpc' = "execute"
      /\ UNCHANGED <<caller, asked, late, answer, queue, stop, cur, attempt, readiness, caps, docs,
                     diags, nextId, proc, told, job, inbox, said, faults, unasked>>
  BY DEF TakeServer, callVars, procVars, boundVars
<1>2. TypeOK'
  BY <1>0, <1>1 DEF TypeOK, Busy
<1>3. ServerKept' /\ StatusKept' /\ MessagesKept'
  BY <1>0, <1>1 DEF CacheOfThisServer, Counted, ServerKept, StatusKept, MessagesKept
<1> QED BY <1>1, <1>2, <1>3, GoOnOK DEF Busy, Awaiting

(* The steps that begin with a received message.                           *)
LEMMA ReceivedMessage ==
  ASSUME ConversationInv, inbox # <<>>
  PROVE  /\ Head(inbox) \in Message /\ Head(inbox) \in In(inbox)
         /\ Tail(inbox) \in Seq(Message) /\ In(Tail(inbox)) \subseteq In(inbox)
BY TailFacts DEF ConversationInv, TypeOK

LEMMA HandleMessageOK ==
  ASSUME ConversationInv, HandleMessage
  PROVE  StepOK
<1>0. TypeOK /\ CommandsOnce /\ ServerKept /\ StatusKept /\ MessagesKept
  BY DEF ConversationInv
<1> DEFINE m == Head(inbox)
<1>1. /\ wpc \in Awaiting /\ inbox # <<>> /\ inbox' = Tail(inbox)
      /\ diags' = IF m.kind = "published" /\ m.exact THEN [diags EXCEPT ![m.uri] = m.text]
                  ELSE diags
      /\ UNCHANGED <<caller, asked, late, answer, queue, stop, cur, attempt, wpc, readiness, ready,
                     caps, docs, nextId, proc, told, job, said, faults, unasked>>
  BY DEF HandleMessage, CanReceive, callVars, workVars, Quiet, boundVars
<1>2. m \in Message /\ m \in In(inbox) /\ inbox' \in Seq(Message) /\ In(inbox') \subseteq In(inbox)
  BY <1>1, ReceivedMessage
<1> HIDE DEF m
<1>3. m.kind = "published" => m.uri \in Uris /\ m.text \in Texts /\ <<m.uri, m.text>> \in said
  BY <1>0, <1>2, WorkerAssumption DEF MessagesKept, Counted
<1>4. diags' \in [Uris -> Texts \union {None}] /\ CacheOfThisServer'
  BY <1>0, <1>1, <1>3 DEF TypeOK, ServerKept, CacheOfThisServer
<1>5. TypeOK'
  BY <1>0, <1>1, <1>2, <1>4 DEF TypeOK
<1>6. ServerKept' /\ StatusKept'
  BY <1>0, <1>1, <1>4 DEF ServerKept, StatusKept, NoServer, Awaiting
<1>7. MessagesKept'
  BY <1>0, <1>1, <1>2 DEF CacheOfThisServer, Counted, MessagesKept
<1> QED BY <1>1, <1>5, <1>6, <1>7, GoOnOK DEF Busy, Awaiting

LEMMA AnswerServerRequestOK ==
  ASSUME ConversationInv, AnswerServerRequest
  PROVE  StepOK
<1>0. TypeOK /\ CommandsOnce /\ ServerKept /\ StatusKept /\ MessagesKept
  BY DEF ConversationInv
<1>1. /\ wpc \in Awaiting /\ inbox # <<>> /\ UNCHANGED <<queue, stop, faults, unasked>>
  BY DEF AnswerServerRequest, CanReceive, Quiet, boundVars
<1>2. CASE proc = "dead"
  <2>1. FailDiscarding("ServerExited")
    BY <1>2 DEF AnswerServerRequest
  <2>2. wpc \in Busy /\ faults' \in 0..MaxFaults /\ unasked' \in 0..MaxUnasked
    BY <1>0, <1>1 DEF TypeOK, Busy
  <2> QED BY <1>1, <2>1, <2>2, DiscardOK
<1>3. CASE proc # "dead"
  <2>1. /\ inbox' = Tail(inbox)
        /\ UNCHANGED <<caller, asked, late, answer, cur, attempt, wpc, readiness, ready, caps, docs,
                       diags, nextId, proc, told, job, said>>
    BY <1>3 DEF AnswerServerRequest, callVars, workVars, serverVars
  <2>2. inbox' \in Seq(Message) /\ In(inbox') \subseteq In(inbox)
    BY <1>1, <2>1, ReceivedMessage
  <2>3. TypeOK'
    BY <1>0, <1>1, <2>1, <2>2 DEF TypeOK
  <2>4. ServerKept' /\ StatusKept' /\ MessagesKept'
    BY <1>0, <1>1, <2>1, <2>2 DEF ServerKept, CacheOfThisServer, Counted, StatusKept, MessagesKept, NoServer, Awaiting
  <2> QED BY <1>1, <2>1, <2>3, <2>4, GoOnOK DEF Busy, Awaiting
<1> QED BY <1>2, <1>3

LEMMA InitializedOK ==
  ASSUME ConversationInv, Initialized
  PROVE  StepOK
<1>0. TypeOK /\ CommandsOnce /\ ServerKept /\ StatusKept /\ MessagesKept
  BY DEF ConversationInv
<1>1. /\ wpc = "initialize" /\ inbox # <<>> /\ UNCHANGED <<queue, stop, faults, unasked>>
  BY DEF Initialized, CanReceive, Quiet, boundVars
<1>2. CASE proc = "dead"
  <2>1. FailDiscarding("ServerExited")
    BY <1>2 DEF Initialized
  <2>2. wpc \in Busy /\ faults' \in 0..MaxFaults /\ unasked' \in 0..MaxUnasked
    BY <1>0, <1>1 DEF TypeOK, Busy, Awaiting
  <2> QED BY <1>1, <2>1, <2>2, DiscardOK
<1>3. CASE proc # "dead"
  <2>1. /\ caps' \in Capabilities /\ wpc' = "execute" /\ readiness' = "ready"
        /\ inbox' = Tail(inbox)
        /\ UNCHANGED <<caller, asked, late, answer, cur, attempt, ready, docs, diags, nextId, proc,
                       told, job, said>>
    BY <1>3 DEF Initialized, callVars
  <2>2. inbox' \in Seq(Message) /\ In(inbox') \subseteq In(inbox)
    BY <1>1, <2>1, ReceivedMessage
  <2>3. TypeOK'
    BY <1>0, <1>1, <2>1, <2>2 DEF TypeOK, Busy
  <2>4. ServerKept' /\ StatusKept' /\ MessagesKept'
    BY <1>0, <1>1, <2>1, <2>2 DEF CacheOfThisServer, Counted, ServerKept, StatusKept, MessagesKept
  <2> QED BY <1>1, <2>1, <2>3, <2>4, GoOnOK DEF Busy, Awaiting
<1> QED BY <1>2, <1>3

(* The steps that end an attempt.                                          *)
LEMMA FailsOK ==
  ASSUME ConversationInv,
         \/ StartFails \/ SendFails
         \/ \E e \in {"Stopped", "TimedOut", "Protocol", "ServerExited"} : WaitFails(e)
  PROVE  StepOK
<1>0. TypeOK
  BY DEF ConversationInv
<1>1. CASE StartFails
  <2>1. /\ wpc \in Busy /\ FailDiscarding("StartFailed") /\ UNCHANGED <<queue, stop>>
        /\ faults' \in 0..MaxFaults /\ unasked' \in 0..MaxUnasked
    BY <1>0, <1>1, WorkerAssumption DEF StartFails, TypeOK, Busy
  <2> QED BY <2>1, DiscardOK
<1>2. CASE SendFails
  <2>1. /\ wpc \in Busy /\ FailDiscarding("ServerExited") /\ UNCHANGED <<queue, stop>>
        /\ faults' \in 0..MaxFaults /\ unasked' \in 0..MaxUnasked
    BY <1>0, <1>2 DEF SendFails, Executable, TypeOK, Busy, Quiet, boundVars
  <2> QED BY <2>1, DiscardOK
<1>3. ASSUME NEW e, WaitFails(e) PROVE StepOK
  <2>1. /\ wpc \in Busy /\ FailDiscarding(e) /\ UNCHANGED <<queue, stop>>
        /\ faults' \in 0..MaxFaults /\ unasked' \in 0..MaxUnasked
    BY <1>0, <1>3 DEF WaitFails, TypeOK, Busy, Quiet, boundVars
  <2> QED BY <2>1, DiscardOK
<1> QED BY <1>1, <1>2, <1>3

(* What the command in hand asks.                                          *)
LEMMA CommandInHand ==
  ASSUME ConversationInv, wpc \in Busy
  PROVE  /\ cur \in Callers /\ Outstanding(cur) /\ asked[cur] \in Requests
         /\ asked[cur].uri \in Uris /\ asked[cur].text \in Texts
         /\ Failure \in Backend!Proper(asked[cur])
         /\ Success(asked[cur].text) \in Backend!Proper(asked[cur])
         /\ asked[cur].op # "position" =>
              \A t \in Texts : Success(t) \in Backend!Proper(asked[cur])
<1>1. cur \in Callers /\ Outstanding(cur) /\ asked[cur] \in Requests
  BY DEF ConversationInv, CommandsOnce, Outstanding
<1>2. asked[cur].uri \in Uris /\ asked[cur].text \in Texts
  BY <1>1 DEF Requests
<1>3. Failure \in Backend!Proper(asked[cur])
  BY <1>1, FailureIsProper
<1>4. asked[cur].op # "position" => \A t \in Texts : Success(t) \in Backend!Proper(asked[cur])
  BY DEF Success, Backend!Proper, Backend!Success, Backend!Answers
<1>5. Success(asked[cur].text) \in Backend!Proper(asked[cur])
  BY <1>2, <1>4 DEF Success, Backend!Proper, Backend!Success
<1> QED BY <1>1, <1>2, <1>3, <1>4, <1>5

LEMMA RequestFailsOK ==
  ASSUME ConversationInv, RequestFails
  PROVE  StepOK
<1>0. TypeOK /\ CommandsOnce /\ ServerKept /\ StatusKept /\ MessagesKept
  BY DEF ConversationInv
<1>1. /\ wpc \in {"initialize", "request"} /\ inbox # <<>>
      /\ UNCHANGED <<queue, stop, faults, unasked>>
  BY DEF RequestFails, CanReceive, Quiet, boundVars
<1>2. wpc \in Busy /\ faults' \in 0..MaxFaults /\ unasked' \in 0..MaxUnasked
  BY <1>0, <1>1 DEF TypeOK, Busy, Awaiting
<1>3. CASE \E e \in {"Server", "Protocol"} : FailDiscarding(e)
  BY <1>1, <1>2, <1>3, DiscardOK
<1>4. CASE ~\E e \in {"Server", "Protocol"} : FailDiscarding(e)
  <2>1. /\ wpc = "request" /\ EndKeeping(Failure) /\ inbox' = Tail(inbox)
        /\ UNCHANGED <<caps, docs, diags, nextId, proc, told, job, said>>
    BY <1>1, <1>4 DEF RequestFails
  <2>2. Failure \in Backend!Proper(asked[cur])
    BY <1>2, CommandInHand
  <2>3. inbox' \in Seq(Message) /\ In(inbox') \subseteq In(inbox)
    BY <1>1, <2>1, ReceivedMessage
  <2>4. /\ docs' \in [Uris -> Texts \union {None}] /\ docs' = told'
        /\ diags' \in [Uris -> Texts \union {None}]
        /\ said' \subseteq Uris \X Texts /\ CacheOfThisServer'
        /\ \A m \in In(inbox') : Counted(m)'
    BY <1>0, <2>1, <2>3 DEF TypeOK, ServerKept, CacheOfThisServer, MessagesKept, Counted
  <2> QED BY <1>1, <2>1, <2>2, <2>3, <2>4, KeepOK
<1> QED BY <1>3, <1>4

LEMMA RequestAnsweredOK ==
  ASSUME ConversationInv, RequestAnswered
  PROVE  StepOK
<1>0. TypeOK /\ CommandsOnce /\ ServerKept /\ StatusKept /\ MessagesKept
  BY DEF ConversationInv
<1> DEFINE m == Head(inbox)
<1>1. /\ wpc = "request" /\ inbox # <<>> /\ m.id = nextId - 1 /\ inbox' = Tail(inbox)
      /\ EndKeeping(Success(m.text))
      /\ diags' = IF asked[cur].op = "diagnostics" THEN [diags EXCEPT ![asked[cur].uri] = m.text]
                  ELSE diags
      /\ UNCHANGED <<queue, stop, faults, unasked, caps, docs, nextId, proc, told, job, said>>
  BY DEF RequestAnswered, CanReceive, IsResponse, Quiet, boundVars
<1>2. m \in In(inbox) /\ inbox' \in Seq(Message) /\ In(inbox') \subseteq In(inbox)
  BY <1>1, ReceivedMessage
<1>3. /\ asked[cur].uri \in Uris /\ asked[cur].text \in Texts
      /\ Success(asked[cur].text) \in Backend!Proper(asked[cur])
  BY <1>1, CommandInHand DEF Busy, Awaiting
<1> HIDE DEF m
<1>4. m.uri = asked[cur].uri /\ m.text = asked[cur].text
  BY <1>0, <1>1, <1>2 DEF MessagesKept
<1>5. <<asked[cur].uri, m.text>> \in said
  BY <1>0, <1>2, <1>3, <1>4, WorkerAssumption DEF MessagesKept, Counted
<1>6. /\ docs' \in [Uris -> Texts \union {None}] /\ docs' = told'
      /\ diags' \in [Uris -> Texts \union {None}]
      /\ said' \subseteq Uris \X Texts /\ CacheOfThisServer'
      /\ \A n \in In(inbox') : Counted(n)'
  BY <1>0, <1>1, <1>2, <1>3, <1>4, <1>5
     DEF TypeOK, ServerKept, CacheOfThisServer, MessagesKept, Counted
<1> QED BY <1>1, <1>2, <1>3, <1>4, <1>6, KeepOK

LEMMA DiagnosticsArriveOK ==
  ASSUME ConversationInv, DiagnosticsArrive
  PROVE  StepOK
<1>0. TypeOK /\ CommandsOnce /\ ServerKept /\ StatusKept /\ MessagesKept
  BY DEF ConversationInv
<1> DEFINE m == Head(inbox)
<1>1. /\ wpc = "publish" /\ inbox # <<>> /\ m.kind = "published" /\ m.uri = asked[cur].uri
      /\ inbox' = Tail(inbox)
      /\ EndKeeping(Success(m.text))
      /\ diags' = [diags EXCEPT ![asked[cur].uri] = m.text]
      /\ UNCHANGED <<queue, stop, faults, unasked, caps, docs, nextId, proc, told, job, said>>
  BY DEF DiagnosticsArrive, CanReceive, EndsWait, Quiet, boundVars
<1>2. m \in In(inbox) /\ inbox' \in Seq(Message) /\ In(inbox') \subseteq In(inbox)
  BY <1>1, ReceivedMessage
<1>3. /\ asked[cur].uri \in Uris /\ asked[cur].text \in Texts
      /\ asked[cur].op # "position" => \A t \in Texts : Success(t) \in Backend!Proper(asked[cur])
  BY <1>1, CommandInHand DEF Busy, Awaiting
<1> HIDE DEF m
<1>4. m.text \in Texts
  BY <1>0, <1>1, <1>2 DEF MessagesKept
<1>5. <<asked[cur].uri, m.text>> \in said /\ asked[cur].op # "position"
  BY <1>0, <1>1, <1>2, <1>4, WorkerAssumption DEF MessagesKept, Counted, ServerKept
<1>6. /\ docs' \in [Uris -> Texts \union {None}] /\ docs' = told'
      /\ diags' \in [Uris -> Texts \union {None}]
      /\ said' \subseteq Uris \X Texts /\ CacheOfThisServer'
      /\ \A n \in In(inbox') : Counted(n)'
  BY <1>0, <1>1, <1>2, <1>3, <1>4, <1>5
     DEF TypeOK, ServerKept, CacheOfThisServer, MessagesKept, Counted
<1> QED BY <1>1, <1>2, <1>3, <1>4, <1>5, <1>6, KeepOK

(* Synchronize keeps docs and told together, and of what was said of the   *)
(* document what is still on its way; nothing older stays in the cache.    *)
LEMMA Synchronized ==
  ASSUME TypeOK, ServerKept, MessagesKept, NEW r, r.uri \in Uris, r.text \in Texts, Synchronize(r)
  PROVE  /\ docs' \in [Uris -> Texts \union {None}] /\ told' \in [Uris -> Texts \union {None}]
         /\ docs' = told' /\ docs'[r.uri] = r.text
         /\ diags' \in [Uris -> Texts \union {None}]
         /\ said' \subseteq Uris \X Texts /\ CacheOfThisServer'
         /\ \A m \in In(inbox) : m.text # None => <<m.uri, m.text>> \in said'
<1>1. /\ docs = told /\ docs \in [Uris -> Texts \union {None}]
      /\ diags \in [Uris -> Texts \union {None}]
      /\ said \subseteq Uris \X Texts /\ inbox \in Seq(Message)
  BY DEF ServerKept, TypeOK
<1>2. \A m \in In(inbox) : m.text # None => <<m.uri, m.text>> \in said
  BY DEF MessagesKept, Counted
<1>3. CASE ~Changed(r)
  <2>1. UNCHANGED <<docs, told, diags, said>> /\ docs[r.uri] = r.text
    BY <1>3 DEF Synchronize, Changed
  <2> QED BY <1>1, <1>2, <2>1 DEF ServerKept, CacheOfThisServer
<1>4. CASE Changed(r)
  <2>1. /\ docs' = [docs EXCEPT ![r.uri] = r.text] /\ told' = [told EXCEPT ![r.uri] = r.text]
        /\ said' = {x \in said : x[1] # r.uri} \union InFlight(r.uri)
        /\ diags' = [diags EXCEPT ![r.uri] = None]
    BY <1>4 DEF Synchronize, HandOver
  <2>2. InFlight(r.uri) \subseteq said
    BY DEF InFlight
  <2>3. ASSUME NEW m \in In(inbox), m.text # None PROVE <<m.uri, m.text>> \in said'
    <3>1. PICK i \in 1..Len(inbox) : inbox[i] = m
      BY DEF In
    <3>2. i \in DOMAIN inbox /\ <<inbox[i].uri, inbox[i].text>> = <<m.uri, m.text>>
      BY <1>1, <3>1
    <3>3. <<m.uri, m.text>> \in said /\ <<m.uri, m.text>>[1] = m.uri
      BY <1>2, <2>3
    <3>4. CASE m.uri = r.uri
      BY <2>1, <3>2, <3>3, <3>4 DEF InFlight
    <3>5. CASE m.uri # r.uri
      BY <2>1, <3>3, <3>5
    <3> QED BY <3>4, <3>5
  <2>4. CacheOfThisServer'
    <3>1. ASSUME NEW u \in Uris, diags'[u] # None PROVE <<u, diags'[u]>> \in said'
      <4>1. u # r.uri /\ diags'[u] = diags[u]
        BY <1>1, <2>1, <3>1
      <4>2. <<u, diags[u]>> \in said /\ <<u, diags[u]>>[1] = u
        BY <3>1, <4>1 DEF ServerKept, CacheOfThisServer
      <4> QED BY <2>1, <4>1, <4>2
    <3> QED BY <3>1 DEF CacheOfThisServer
  <2> QED BY <1>1, <2>1, <2>2, <2>3, <2>4
<1> QED BY <1>3, <1>4

LEMMA ExecuteEndsOK ==
  ASSUME ConversationInv, Refuse \/ AnswerFromCache \/ RejectPosition
  PROVE  StepOK
<1>0. TypeOK /\ CommandsOnce /\ ServerKept /\ StatusKept /\ MessagesKept
  BY DEF ConversationInv
<1>1. /\ wpc = "execute"
      /\ UNCHANGED <<queue, stop, faults, unasked, caps, nextId, proc, job, inbox>>
  BY DEF Refuse, AnswerFromCache, RejectPosition, Executable, Quiet, boundVars, procVars
<1>2. /\ asked[cur].uri \in Uris /\ asked[cur].text \in Texts
      /\ Failure \in Backend!Proper(asked[cur])
      /\ asked[cur].op # "position" => \A t \in Texts : Success(t) \in Backend!Proper(asked[cur])
  BY <1>1, CommandInHand DEF Busy, Awaiting
<1>3. inbox' \in Seq(Message) /\ In(inbox') \subseteq In(inbox)
  BY <1>0, <1>1 DEF TypeOK
<1>4. /\ docs' \in [Uris -> Texts \union {None}] /\ docs' = told'
      /\ diags' \in [Uris -> Texts \union {None}]
      /\ said' \subseteq Uris \X Texts /\ CacheOfThisServer'
      /\ \A m \in In(inbox') : Counted(m)'
  <2>1. CASE UNCHANGED <<docs, told, diags, said>>
    BY <1>0, <1>1, <2>1 DEF TypeOK, ServerKept, CacheOfThisServer, MessagesKept, Counted
  <2>2. CASE Synchronize(asked[cur])
    BY <1>0, <1>1, <1>2, <2>2, Synchronized DEF Counted
  <2> QED BY <2>1, <2>2 DEF Refuse, AnswerFromCache, RejectPosition, procVars
<1>5. \E a \in Backend!Proper(asked[cur]) : EndKeeping(a)
  <2>1. CASE Refuse \/ RejectPosition
    <3>1. EndKeeping(Failure)
      BY <2>1 DEF Refuse, RejectPosition
    <3> QED BY <1>2, <3>1
  <2>2. CASE AnswerFromCache
    <3>1. /\ EndKeeping(Success(diags[asked[cur].uri]))
          /\ asked[cur].op = "diagnostics" /\ diags[asked[cur].uri] # None
      BY <2>2 DEF AnswerFromCache, CachedFor
    <3>2. diags[asked[cur].uri] \in Texts
      BY <1>0, <1>2, <3>1 DEF TypeOK
    <3> QED BY <1>2, <3>1, <3>2
  <2> QED BY <2>1, <2>2
<1> QED BY <1>1, <1>3, <1>4, <1>5, KeepOK

LEMMA SendOK ==
  ASSUME ConversationInv, SendRequest \/ AwaitPublished
  PROVE  StepOK
<1>0. TypeOK /\ CommandsOnce /\ ServerKept /\ StatusKept /\ MessagesKept
  BY DEF ConversationInv
<1>1. /\ wpc = "execute" /\ Synchronize(asked[cur])
      /\ UNCHANGED <<caller, asked, late, answer, queue, stop, cur, attempt, readiness, ready, caps,
                     proc, inbox, faults, unasked>>
      /\ wpc' \in {"request", "publish"}
      /\ wpc' = "publish" => asked[cur].op # "position"
  BY DEF SendRequest, AwaitPublished, Executable, callVars, Quiet, boundVars
<1>2. asked[cur].uri \in Uris /\ asked[cur].text \in Texts
  BY <1>1, CommandInHand DEF Busy, Awaiting
<1>3. /\ docs' \in [Uris -> Texts \union {None}] /\ told' \in [Uris -> Texts \union {None}]
      /\ docs' = told' /\ docs'[asked[cur].uri] = asked[cur].text
      /\ diags' \in [Uris -> Texts \union {None}]
      /\ said' \subseteq Uris \X Texts /\ CacheOfThisServer'
      /\ \A m \in In(inbox) : m.text # None => <<m.uri, m.text>> \in said'
  BY <1>0, <1>1, <1>2, Synchronized
<1>4. nextId \in Nat /\ nextId > 0 /\ job.id < nextId /\ job \in [id : Nat, uri : Uris \union {None}]
  BY <1>0 DEF TypeOK, MessagesKept
<1>5. \/ /\ wpc' = "request" /\ nextId' = nextId + 1
         /\ job' = [id |-> nextId, uri |-> asked[cur].uri] \/ job' = NoJob
      \/ /\ wpc' = "publish" /\ nextId' = nextId /\ job' = job
  BY DEF SendRequest, AwaitPublished
<1>6. /\ nextId' \in Nat /\ nextId' >= nextId /\ nextId' > 0 /\ job'.id < nextId'
      /\ job' \in [id : Nat, uri : Uris \union {None}]
      /\ wpc' = "request" => /\ nextId' > 1 /\ nextId' - 1 = nextId
                             /\ job'.id = nextId' - 1 => job'.uri = asked[cur].uri
  BY <1>2, <1>4, <1>5 DEF NoJob
<1>7. TypeOK'
  BY <1>0, <1>1, <1>3, <1>6 DEF TypeOK, Busy, Awaiting
<1>8. ServerKept' /\ StatusKept'
  BY <1>0, <1>1, <1>3 DEF ServerKept, StatusKept
<1>9. MessagesKept'
  <2>1. ASSUME NEW m \in In(inbox)
        PROVE  /\ m.id < nextId' /\ m.id # nextId
               /\ m.kind = "published" => m.uri \in Uris /\ m.text \in Texts
               /\ Counted(m)'
    <3>1. m \in Message
      BY <1>0 DEF TypeOK, In
    <3>2. /\ m.id \in Nat /\ m.id < nextId
          /\ m.kind = "published" => m.uri \in Uris /\ m.text \in Texts
      BY <1>0, <3>1 DEF MessagesKept, Message
    <3> QED BY <1>3, <1>4, <1>6, <3>2 DEF Counted
  <2> QED BY <1>1, <1>6, <2>1 DEF MessagesKept
<1> QED BY <1>1, <1>7, <1>8, <1>9, GoOnOK DEF Busy, Awaiting

-----------------------------------------------------------------------------
(* The server process. *)

(* What MessagesKept says of one message, but for what counts as said.     *)
Acceptable(m) ==
  /\ m.id < nextId
  /\ m.kind = "published" => m.uri \in Uris /\ m.text \in Texts
  /\ m.text # None => m.uri \in Uris /\ m.text \in Texts
  /\ wpc = "request" /\ m.id = nextId - 1 => m.uri = asked[cur].uri /\ m.text = asked[cur].text

(* Whatever the process sends is acceptable: it knows what it was told.    *)
LEMMA SentIsAcceptable ==
  ASSUME ConversationInv, NEW k \in {"answer", "error", "empty", "question", "fatal"},
         NEW j \in {job, NoJob}
  PROVE  Response(k, j) \in Message /\ Acceptable(Response(k, j))
<1>0. TypeOK /\ ServerKept /\ MessagesKept
  BY DEF ConversationInv
<1>1. /\ nextId \in Nat /\ nextId > 0 /\ job.id < nextId
      /\ job \in [id : Nat, uri : Uris \union {None}]
      /\ told \in [Uris -> Texts \union {None}] /\ docs = told
  BY <1>0 DEF TypeOK, MessagesKept, ServerKept
<1>2. NoJob.id = 0 /\ NoJob \in [id : Nat, uri : Uris \union {None}]
  BY DEF NoJob
<1> DEFINE m == Response(k, j)
<1>3. j \in [id : Nat, uri : Uris \union {None}] /\ j.id < nextId
  BY <1>1, <1>2
<1>4. /\ m \in Message /\ m.id = j.id /\ m.kind = k /\ m.uri = j.uri
      /\ m.text = IF j.uri = None THEN None ELSE told[j.uri]
  BY <1>1, <1>3 DEF Response, Message
<1> HIDE DEF m
<1>5. ASSUME wpc = "request", m.id = nextId - 1 PROVE m.uri = asked[cur].uri /\ m.text = asked[cur].text
  <2>1. nextId > 1 /\ (job.id = nextId - 1 => job.uri = asked[cur].uri)
    BY <1>0, <1>5 DEF MessagesKept
  <2>2. j = job
    <3>1. j.id # 0
      BY <1>1, <1>4, <1>5, <2>1
    <3> QED BY <1>2, <3>1
  <2>3. j.uri = asked[cur].uri
    BY <1>4, <1>5, <2>1, <2>2
  <2>4. asked[cur].uri \in Uris /\ asked[cur].text \in Texts
    BY <1>5, CommandInHand DEF Busy, Awaiting
  <2>5. told[asked[cur].uri] = asked[cur].text /\ asked[cur].uri # None
    BY <1>0, <1>5, <2>4, WorkerAssumption DEF ServerKept
  <2> QED BY <1>4, <2>3, <2>5
<1>6. k # "published"
  OBVIOUS
<1>7. m \in Message /\ Acceptable(m)
  BY <1>1, <1>3, <1>4, <1>5, <1>6 DEF Acceptable
<1> QED BY <1>7 DEF m

LEMMA PublishedIsAcceptable ==
  ASSUME ConversationInv, NEW u \in Uris, NEW exact \in BOOLEAN, NEW t \in Texts
  PROVE  Published(u, exact, t) \in Message /\ Acceptable(Published(u, exact, t))
<1>1. nextId \in Nat /\ nextId > 0 /\ (wpc = "request" => nextId > 1)
  BY DEF ConversationInv, TypeOK, MessagesKept
<1> DEFINE m == Published(u, exact, t)
<1>2. m \in Message /\ m.id = 0 /\ m.uri = u /\ m.text = t
  BY DEF Published, Message
<1> HIDE DEF m
<1>3. m \in Message /\ Acceptable(m)
  BY <1>1, <1>2 DEF Acceptable
<1> QED BY <1>3 DEF m

LEMMA ServerOK ==
  ASSUME ConversationInv, Server
  PROVE  StepOK
<1>0. TypeOK /\ CommandsOnce /\ ServerKept /\ StatusKept /\ MessagesKept
  BY DEF ConversationInv
<1>1. /\ proc = "alive" /\ proc' \in {"alive", "mute", "dead"}
      /\ UNCHANGED <<caller, asked, late, answer, queue, stop, wpc, cur, attempt, readiness, ready,
                     caps, docs, diags, nextId, told>>
  BY DEF Server, ServerAnswers, ServerSpeaks, ServerBreaks, Outside, callVars, workVars, serverVars
<1>2. job' \in {job, NoJob} /\ NoJob.id = 0 /\ NoJob \in [id : Nat, uri : Uris \union {None}]
  BY DEF Server, ServerAnswers, ServerSpeaks, ServerBreaks, NoJob
<1>3. faults' \in 0..MaxFaults /\ unasked' \in 0..MaxUnasked
  <2>1. CASE \E k \in {"answer", "error", "empty"} : ServerAnswers(k)
    BY <1>0, <2>1, WorkerAssumption DEF TypeOK, ServerAnswers
  <2>2. CASE ServerSpeaks
    BY <1>0, <2>2, WorkerAssumption DEF TypeOK, ServerSpeaks
  <2>3. CASE \E p \in {"mute", "dead"} : ServerBreaks(p)
    BY <1>0, <2>3, WorkerAssumption DEF TypeOK, ServerBreaks
  <2> QED BY <2>1, <2>2, <2>3 DEF Server
<1>4. \/ UNCHANGED <<inbox, said>>
      \/ \E m \in Message : Say(m) /\ Acceptable(m)
  <2>1. CASE \E k \in {"answer", "error", "empty"} : ServerAnswers(k)
    <3>1. PICK k \in {"answer", "error", "empty"} : Say(Response(k, job))
      BY <2>1 DEF ServerAnswers
    <3> QED BY <3>1, SentIsAcceptable
  <2>2. CASE ServerSpeaks
    <3>1. CASE Say(Response("question", NoJob))
      BY <3>1, SentIsAcceptable
    <3>2. CASE \E u \in Uris, exact \in BOOLEAN, t \in Texts : Say(Published(u, exact, t))
      BY <3>2, PublishedIsAcceptable
    <3> QED BY <2>2, <3>1, <3>2 DEF ServerSpeaks, Unasked
  <2>3. CASE \E p \in {"mute", "dead"} : ServerBreaks(p)
    <3>1. UNCHANGED <<inbox, said>> \/ Say(Response("fatal", NoJob))
      BY <2>3 DEF ServerBreaks, Unasked, Say, Response, NoJob
    <3> QED BY <3>1, SentIsAcceptable
  <2> QED BY <2>1, <2>2, <2>3 DEF Server
<1>5. /\ inbox' \in Seq(Message)
      /\ \A m \in In(inbox') : Acceptable(m) /\ Counted(m)'
      /\ said \subseteq said' /\ said' \subseteq Uris \X Texts
  <2>1. /\ inbox \in Seq(Message) /\ said \subseteq Uris \X Texts
        /\ \A m \in In(inbox) : m \in Message /\ m.id < nextId /\ Counted(m)
    BY <1>0 DEF TypeOK, MessagesKept, In
  <2>2. \A m \in In(inbox) : Acceptable(m)
    <3>1. \A m \in In(inbox) : m.text # None => m.uri \in Uris /\ m.text \in Texts
      BY <2>1 DEF Counted
    <3> QED BY <1>0, <3>1 DEF MessagesKept, Acceptable
  <2>3. CASE UNCHANGED <<inbox, said>>
    BY <2>1, <2>2, <2>3 DEF Counted
  <2>4. ASSUME NEW m \in Message, Say(m), Acceptable(m)
        PROVE  /\ inbox' \in Seq(Message)
               /\ \A n \in In(inbox') : Acceptable(n) /\ Counted(n)'
               /\ said \subseteq said' /\ said' \subseteq Uris \X Texts
    <3>1. inbox' \in Seq(Message) /\ In(inbox') = In(inbox) \union {m}
      BY <2>1, <2>4, AppendFacts DEF Say
    <3>2. said \subseteq said' /\ said' \subseteq Uris \X Texts /\ Counted(m)'
      BY <2>1, <2>4 DEF Say, Acceptable, Counted
    <3> QED BY <2>1, <2>2, <2>4, <3>1, <3>2 DEF Counted
  <2> QED BY <1>4, <2>3, <2>4
<1>6. TypeOK'
  BY <1>0, <1>1, <1>2, <1>3, <1>5 DEF TypeOK
<1>7. CommandsOnce' /\ StatusKept' /\ Refines /\ BeginsWanted
  BY <1>0, <1>1 DEF CommandsOnce, Outstanding, StatusKept, Refines, BeginsWanted
<1>8. ServerKept'
  BY <1>0, <1>1, <1>5 DEF ServerKept, NoServer, CacheOfThisServer
<1>9. MessagesKept'
  <2>1. nextId \in Nat /\ nextId > 0 /\ job.id < nextId /\ job'.id < nextId
    BY <1>0, <1>2 DEF TypeOK, MessagesKept
  <2>2. wpc = "request" => /\ nextId > 1
                           /\ job'.id = nextId - 1 => job'.uri = asked[cur].uri
    BY <1>0, <1>2, <2>1 DEF MessagesKept
  <2> QED BY <1>1, <1>5, <2>1, <2>2 DEF MessagesKept, Acceptable
<1> QED BY <1>6, <1>7, <1>8, <1>9 DEF StepOK, ConversationInv

-----------------------------------------------------------------------------
(* The callers. *)

LEMMA ExecuteOK ==
  ASSUME ConversationInv, NEW c \in Callers, NEW r \in Requests, Execute(c, r)
  PROVE  StepOK
<1>0. TypeOK /\ CommandsOnce /\ ServerKept /\ StatusKept /\ MessagesKept
  BY DEF ConversationInv
<1>1. /\ caller[c] = "idle" /\ asked' = [asked EXCEPT ![c] = r]
      /\ UNCHANGED <<late, stop, wpc, cur, attempt, readiness, ready, caps, docs, diags, nextId,
                     proc, told, job, inbox, said, faults, unasked>>
  BY DEF Execute, workVars, serverVars, procVars, boundVars
<1>2. /\ queue \in Seq(Callers) /\ In(queue) \subseteq Callers
      /\ caller \in [Callers -> {"idle", "waiting", "returned"}]
      /\ asked \in [Callers -> Requests \union {None}] /\ asked' \in [Callers -> Requests \union {None}]
      /\ answer \in [Callers -> [ok : BOOLEAN, text : Texts \union {None}] \union {None}]
  BY <1>0, <1>1 DEF TypeOK, In
<1>3. c \notin In(queue) /\ c # cur
  BY <1>0, <1>1 DEF CommandsOnce, Outstanding
<1>4. \/ /\ Len(queue) < QueueCapacity /\ queue' = Append(queue, c)
         /\ caller' = [caller EXCEPT ![c] = "waiting"] /\ answer' = answer
      \/ /\ caller' = [caller EXCEPT ![c] = "returned"]
         /\ answer' = [answer EXCEPT ![c] = Failure] /\ queue' = queue
  BY DEF Execute, Return
<1>5. /\ caller' \in [Callers -> {"idle", "waiting", "returned"}]
      /\ answer' \in [Callers -> [ok : BOOLEAN, text : Texts \union {None}] \union {None}]
  <2>1. Failure \in [ok : BOOLEAN, text : Texts \union {None}]
    BY DEF Failure
  <2> QED BY <1>2, <1>4, <2>1
<1>6. /\ queue' \in Seq(Callers) /\ Len(queue') <= QueueCapacity /\ Distinct(queue')
      /\ In(queue') \subseteq In(queue) \union {c}
      /\ c \in In(queue') => caller'[c] = "waiting"
  <2>1. CASE queue' = queue
    BY <1>0, <1>3, <2>1 DEF TypeOK, CommandsOnce
  <2>2. CASE Len(queue) < QueueCapacity /\ queue' = Append(queue, c)
             /\ caller' = [caller EXCEPT ![c] = "waiting"]
    <3>1. /\ Append(queue, c) \in Seq(Callers) /\ In(Append(queue, c)) = In(queue) \union {c}
          /\ Len(Append(queue, c)) = Len(queue) + 1 /\ Distinct(Append(queue, c))
      BY <1>0, <1>2, <1>3, AppendFacts DEF CommandsOnce
    <3>2. Len(queue) \in Nat /\ QueueCapacity \in Nat
      BY <1>2, WorkerAssumption
    <3> QED BY <1>2, <2>2, <3>1, <3>2
  <2> QED BY <1>4, <2>1, <2>2
<1>7. \A d \in Callers : d # c /\ Outstanding(d) => Outstanding(d)'
  BY <1>1, <1>2, <1>4 DEF Outstanding
<1>8. c \in In(queue') => Outstanding(c)'
  BY <1>1, <1>2, <1>6 DEF Outstanding
<1>9. TypeOK'
  BY <1>0, <1>1, <1>2, <1>5, <1>6 DEF TypeOK
<1>10. CommandsOnce'
  BY <1>0, <1>1, <1>2, <1>3, <1>6, <1>7, <1>8 DEF CommandsOnce
<1>11. asked'[cur] = asked[cur]
  BY <1>1, <1>2, <1>3
<1>12. ServerKept'
  BY <1>0, <1>1, <1>11 DEF CacheOfThisServer, Counted, ServerKept, NoServer
<1>13. MessagesKept' /\ StatusKept'
  BY <1>0, <1>1, <1>11 DEF CacheOfThisServer, Counted, MessagesKept, StatusKept
<1>14. Refines
  <2>1. Backend!Begin(c, r)
    BY <1>1, <1>4 DEF Backend!Begin, Failure, Backend!Failure
  <2>2. r \in Backend!Requests
    BY DEF Requests, Operations, Backend!Requests, Backend!Operations
  <2> QED BY <2>1, <2>2 DEF Refines, Backend!BackendNext
<1>15. BeginsWanted
  BY <1>1 DEF BeginsWanted
<1> QED BY <1>9, <1>10, <1>12, <1>13, <1>14, <1>15 DEF StepOK, ConversationInv

LEMMA DeadlineOK ==
  ASSUME ConversationInv, NEW c \in Callers, DeadlinePasses(c)
  PROVE  StepOK
<1>1. /\ late' = late \union {c}
      /\ UNCHANGED <<caller, asked, answer, queue, stop, wpc, cur, attempt, readiness, ready, caps,
                     docs, diags, nextId, proc, told, job, inbox, said, faults, unasked>>
  BY DEF DeadlinePasses, workVars, serverVars, procVars, boundVars
<1>2. TypeOK'
  BY <1>1 DEF ConversationInv, TypeOK
<1>3. CommandsOnce'
  BY <1>1 DEF ConversationInv, CommandsOnce, Outstanding
<1>4. ServerKept' /\ StatusKept' /\ MessagesKept'
  BY <1>1 DEF ConversationInv, ServerKept, NoServer, StatusKept, MessagesKept, CacheOfThisServer, Counted
<1> QED BY <1>1, <1>2, <1>3, <1>4 DEF StepOK, ConversationInv, Refines, BeginsWanted

LEMMA GiveUpOK ==
  ASSUME ConversationInv, NEW c \in Callers, GiveUp(c)
  PROVE  StepOK
<1>0. TypeOK /\ CommandsOnce /\ ServerKept /\ StatusKept /\ MessagesKept
  BY DEF ConversationInv
<1>1. /\ caller[c] = "waiting" /\ c \in late
      /\ caller' = [caller EXCEPT ![c] = "returned"] /\ answer' = [answer EXCEPT ![c] = Failure]
      /\ UNCHANGED <<asked, late, queue, stop, wpc, cur, attempt, readiness, ready, caps, docs,
                     diags, nextId, proc, told, job, inbox, said, faults, unasked>>
  BY DEF GiveUp, Return, workVars, serverVars, procVars, boundVars
<1>2. TypeOK'
  BY <1>0, <1>1 DEF TypeOK, Failure
<1>3. \A d \in Callers : Outstanding(d) => Outstanding(d)'
  BY <1>0, <1>1 DEF Outstanding, TypeOK
<1>4. CommandsOnce'
  BY <1>0, <1>1, <1>3 DEF CommandsOnce, TypeOK, In
<1>5. ServerKept' /\ StatusKept' /\ MessagesKept'
  BY <1>0, <1>1 DEF ServerKept, NoServer, StatusKept, MessagesKept, CacheOfThisServer, Counted
<1>6. Refines
  <2>1. Failure \in Backend!Proper(asked[c])
    BY DEF Failure, Backend!Proper, Backend!Failure, Backend!Answers
  <2>2. Backend!Answer(c)
    BY <1>1, <2>1 DEF Backend!Answer
  <2> QED BY <2>2 DEF Refines, Backend!BackendNext
<1> QED BY <1>1, <1>2, <1>4, <1>5, <1>6 DEF StepOK, ConversationInv, BeginsWanted

(* Dropping the handle, or no step at all.                                 *)
LEMMA StillOK ==
  ASSUME ConversationInv, stop' \in BOOLEAN,
         UNCHANGED <<callVars, queue, workVars, serverVars, procVars, boundVars>>
  PROVE  StepOK
<1>1. UNCHANGED <<caller, asked, late, answer, queue, wpc, cur, attempt, readiness, ready, caps,
                  docs, diags, nextId, proc, told, job, inbox, said, faults, unasked>>
  BY DEF callVars, workVars, serverVars, procVars, boundVars
<1>2. TypeOK'
  BY <1>1 DEF ConversationInv, TypeOK
<1>3. CommandsOnce'
  BY <1>1 DEF ConversationInv, CommandsOnce, Outstanding
<1>4. ServerKept' /\ StatusKept' /\ MessagesKept'
  BY <1>1 DEF ConversationInv, ServerKept, NoServer, StatusKept, MessagesKept, CacheOfThisServer, Counted
<1> QED BY <1>1, <1>2, <1>3, <1>4 DEF StepOK, ConversationInv, Refines, BeginsWanted

-----------------------------------------------------------------------------
LEMMA InitConversation == Init => ConversationInv
<1> SUFFICES ASSUME Init PROVE ConversationInv
  OBVIOUS
<1>1. /\ NoTexts \in [Uris -> Texts \union {None}] /\ <<>> \in Seq(Message)
      /\ <<>> \in Seq(Callers) /\ Len(<<>>) = 0 /\ In(<<>>) = {}
  BY DEF NoTexts, In
<1>2. NoJob \in [id : Nat, uri : Uris \union {None}] /\ NoJob.id = 0
  BY DEF NoJob
<1>3. TypeOK
  <2>1. /\ 0 \in 0..MaxFaults /\ 0 \in 0..MaxUnasked /\ 0 <= QueueCapacity /\ 1 \in Nat
    BY WorkerAssumption
  <2>2. /\ caller \in [Callers -> {"idle", "waiting", "returned"}]
        /\ asked \in [Callers -> Requests \union {None}] /\ late \subseteq Callers
        /\ answer \in [Callers -> [ok : BOOLEAN, text : Texts \union {None}] \union {None}]
    BY DEF Init
  <2> QED BY <1>1, <1>2, <2>1, <2>2 DEF Init, TypeOK
<1>4. CommandsOnce
  BY <1>1, WorkerAssumption DEF Init, CommandsOnce, Busy, Awaiting, Distinct
<1>5. ServerKept /\ StatusKept
  BY DEF CacheOfThisServer, Counted, Init, ServerKept, NoServer, StatusKept, NoTexts
<1>6. MessagesKept
  BY <1>1, <1>2 DEF Init, MessagesKept
<1> QED BY <1>3, <1>4, <1>5, <1>6 DEF ConversationInv

LEMMA EveryStep ==
  ASSUME ConversationInv, [Next]_vars
  PROVE  StepOK
<1>1. CASE Thread
  <2>1. CASE Receive \/ RunEnds
    BY <2>1, ReceiveOK, RunEndsOK
  <2>2. CASE StartServer \/ TakeServer
    BY <2>2, StartServerOK, TakeServerOK
  <2>3. CASE StartFails \/ SendFails \/ \E e \in {"Stopped", "TimedOut", "Protocol", "ServerExited"} : WaitFails(e)
    BY <2>3, FailsOK
  <2>4. CASE HandleMessage \/ AnswerServerRequest \/ Initialized
    BY <2>4, HandleMessageOK, AnswerServerRequestOK, InitializedOK
  <2>5. CASE RequestFails \/ RequestAnswered \/ DiagnosticsArrive
    BY <2>5, RequestFailsOK, RequestAnsweredOK, DiagnosticsArriveOK
  <2>6. CASE Refuse \/ AnswerFromCache \/ RejectPosition
    BY <2>6, ExecuteEndsOK
  <2>7. CASE SendRequest \/ AwaitPublished
    BY <2>7, SendOK
  <2> QED BY <1>1, <2>1, <2>2, <2>3, <2>4, <2>5, <2>6, <2>7 DEF Thread
<1>2. CASE Server
  BY <1>2, ServerOK
<1>3. CASE Timers
  BY <1>3, DeadlineOK, GiveUpOK DEF Timers
<1>4. CASE DropWorker
  BY <1>4, StillOK DEF DropWorker
<1>5. CASE \E c \in Callers, request \in Requests : Execute(c, request)
  BY <1>5, ExecuteOK
<1>6. CASE UNCHANGED vars
  <2>1. stop' \in BOOLEAN
    BY <1>6 DEF ConversationInv, TypeOK, vars
  <2> QED BY <1>6, <2>1, StillOK DEF vars
<1> QED BY <1>1, <1>2, <1>3, <1>4, <1>5, <1>6 DEF Next

(* What the worker keeps belongs to the server it has, in every run of the *)
(* thread (worker.rs execute_once, record_success, record_failure): no     *)
(* cached diagnostics of an earlier process or from before the document    *)
(* was handed over, no process without an owner, and a status that tells   *)
(* the truth between two commands.                                         *)
THEOREM ServerStateKept == Spec => []WorkerInv
<1>1. ConversationInv /\ [Next]_vars => ConversationInv'
  BY EveryStep DEF StepOK
<1>2. ConversationInv => WorkerInv
  <2> SUFFICES ASSUME ConversationInv PROVE WorkerInv
    OBVIOUS
  <2>1. TypeOK /\ ServerKept /\ StatusKept
    BY DEF ConversationInv
  <2>2. CacheOfThisServer /\ StatusHonest
    BY <2>1 DEF CacheOfThisServer, ServerKept, StatusHonest, StatusKept
  <2>3. ServerOwned
    BY <2>1 DEF ServerOwned, ServerKept, NoServer, TypeOK, Busy, Awaiting
  <2> QED BY <2>1, <2>2, <2>3 DEF WorkerInv
<1> QED BY InitConversation, <1>1, <1>2, PTL DEF Spec

(* The thread begins an attempt, first or second, only for a caller that   *)
(* still waits (worker.rs:385).                                            *)
THEOREM OnlyWantedWork == Spec => NoAbandonedWork
<1>1. ConversationInv /\ [Next]_vars => ConversationInv'
  BY EveryStep DEF StepOK
<1>2. ConversationInv /\ [Next]_vars =>
        [(wpc' = "once" /\ wpc # "once") => caller[cur'] = "waiting"]_vars
  BY EveryStep DEF StepOK, BeginsWanted
<1> QED BY InitConversation, <1>1, <1>2, PTL DEF Spec, NoAbandonedWork

(* The worker implements SemanticBackend: execute returns at most once,    *)
(* and an answer at a position is about exactly the text handed over       *)
(* (backend.rs:16), through restarts, reused servers, timeouts and         *)
(* shutdown.                                                               *)
THEOREM WorkerIsABackend == Spec => ImplementsBackend
<1>1. Init => Backend!BackendInit
  BY DEF Init, Backend!BackendInit
<1>2. ConversationInv /\ [Next]_vars => ConversationInv'
  BY EveryStep DEF StepOK
<1>3. ConversationInv /\ [Next]_vars => [Backend!BackendNext]_<<caller, asked, answer>>
  BY EveryStep DEF StepOK, Refines
<1> QED BY InitConversation, <1>1, <1>2, <1>3, PTL
        DEF Spec, ImplementsBackend, Backend!BackendSpec, Backend!backendVars

-----------------------------------------------------------------------------
(* Positions and edits.                                                    *)

(* The code units of the first k characters of s, for every k.             *)
UnitSums(u, encoding, s) ==
  /\ u \in [0..Len(s) -> Nat]
  /\ u[0] = 0
  /\ \A k \in 1..Len(s) : u[k] = u[k - 1] + Units[encoding][s[k]]

(* Each character takes some.                                              *)
LEMMA UnitsTaken ==
  ASSUME NEW encoding \in Encodings, NEW s \in Seq(Glyphs)
  PROVE  \A k \in 1..Len(s) : Units[encoding][s[k]] \in Nat \ {0}
<1>1. \A c \in Glyphs : Units[encoding][c] \in Nat \ {0}  BY LspEditsAssumption, Zenon
<1>2. \A k \in 1..Len(s) : s[k] \in Glyphs  OBVIOUS
<1> QED  BY <1>1, <1>2, Zenon

(* UnitsOf is the last sum.                                                *)
LEMMA UnitsSummed ==
  ASSUME NEW encoding \in Encodings, NEW s \in Seq(Glyphs)
  PROVE  \E u : UnitSums(u, encoding, s) /\ UnitsOf(encoding, s) = u[Len(s)]
<1> DEFINE n == Len(s)
           step == [sk \in Nat \X (1..n) |-> sk[1] + Units[encoding][s[sk[2]]]]
           Sat(f) == f = [k \in 0..n |-> IF k = 0 THEN 0 ELSE f[k - 1] + Units[encoding][s[k]]]
<1>1. n \in Nat  OBVIOUS
<1>2. \A k \in 1..n : Units[encoding][s[k]] \in Nat  BY UnitsTaken
<1> HIDE DEF n
<1>3. step \in [Nat \X (1..n) -> Nat]
  <2>1. ASSUME NEW m \in Nat, NEW k \in 1..n PROVE m + Units[encoding][s[k]] \in Nat
    <3>1. PICK w \in Nat : w = Units[encoding][s[k]]  BY <1>2
    <3> QED  BY <3>1
  <2> QED  BY <2>1
<1>4. \E f : Sat(f)
  <2>1. \A m \in Nat, k \in 1..n : step[<<m, k>>] = m + Units[encoding][s[k]]  OBVIOUS
  <2> HIDE DEF step
  <2>2. PICK e \in Nat : e = 0  OBVIOUS
  <2>3. PICK f \in [0..n -> Nat] : Steps(n, e, step, f)  BY <1>1, <1>3, StepRecursion
  <2>4. f[0] = 0 /\ \A k \in 1..n : f[k] = step[<<f[k - 1], k>>]  BY <2>2, <2>3 DEF Steps
  <2>5. ASSUME NEW k \in 0..n
        PROVE  f[k] = IF k = 0 THEN 0 ELSE f[k - 1] + Units[encoding][s[k]]
    <3>1. CASE k = 0  BY <2>4, <3>1
    <3>2. CASE k # 0
      <4>1. k \in 1..n /\ k - 1 \in 0..n  BY <1>1, <3>2
      <4>2. PICK m \in Nat : m = f[k - 1]  BY <4>1
      <4>3. step[<<m, k>>] = m + Units[encoding][s[k]]  BY <2>1, <4>1
      <4> QED  BY <2>4, <3>2, <4>1, <4>2, <4>3, Zenon
    <3> QED  BY <3>1, <3>2
  <2>6. f = [k \in 0..n |-> f[k]]  OBVIOUS
  <2> QED  BY <2>5, <2>6, Zenon
<1> DEFINE u == CHOOSE f : Sat(f)
<1>5. Sat(u)  BY <1>4, Zenon
<1>6. UnitsOf(encoding, s) = u[n]  BY Zenon DEF UnitsOf, n
<1> HIDE DEF u, step
<1>7. u[0] = 0 /\ \A k \in 1..n : u[k] = u[k - 1] + Units[encoding][s[k]]
  <2>1. 0 \in 0..n /\ \A k \in 1..n : k \in 0..n /\ k # 0  BY <1>1
  <2> QED  BY <1>5, <2>1, Zenon
<1> DEFINE T == {k \in 0..n : u[k] \in Nat}
<1>8. 0 \in T
  <2>1. 0 \in 0..n  BY <1>1
  <2> QED  BY <1>7, <2>1
<1>9. ASSUME NEW k \in 1..n, k - 1 \in T PROVE k \in T
  <2>1. PICK m \in Nat, w \in Nat : m = u[k - 1] /\ w = Units[encoding][s[k]]
    BY <1>2, <1>9
  <2>2. u[k] = m + w  BY <1>7, <2>1, Zenon
  <2>3. k \in 0..n  BY <1>1
  <2> QED  BY <2>2, <2>3
<1>10. \A k \in 0..n : u[k] \in Nat
  <2> HIDE DEF T
  <2>1. \A k \in 0..n : k \in T  BY <1>1, <1>8, <1>9, UpwardInduction
  <2> QED  BY <2>1 DEF T
<1>11. u \in [0..n -> Nat]
  <2>1. u = [k \in 0..n |-> u[k]]  BY <1>5
  <2> QED  BY <1>10, <2>1, Zenon
<1>12. UnitSums(u, encoding, s)  BY <1>7, <1>11, Zenon DEF UnitSums, n
<1> QED  BY <1>6, <1>12, Zenon DEF n

(* The same characters take the same units.                                *)
LEMMA SumsAgree ==
  ASSUME NEW encoding \in Encodings, NEW s \in Seq(Glyphs), NEW t \in Seq(Glyphs),
         Len(t) <= Len(s), \A k \in 1..Len(t) : t[k] = s[k],
         NEW u, UnitSums(u, encoding, s), NEW v, UnitSums(v, encoding, t)
  PROVE  v[Len(t)] = u[Len(t)]
<1> DEFINE n == Len(t)
           T == {k \in 0..n : v[k] = u[k]}
<1>1. n \in Nat  OBVIOUS
<1>2. \A k \in 1..n : k \in 1..Len(s) /\ t[k] = s[k]  OBVIOUS
<1>3. /\ u[0] = 0 /\ \A k \in 1..Len(s) : u[k] = u[k - 1] + Units[encoding][s[k]]
      /\ v[0] = 0 /\ \A k \in 1..n : v[k] = v[k - 1] + Units[encoding][t[k]]
  BY Zenon DEF UnitSums
<1> HIDE DEF n
<1>4. 0 \in T
  <2>1. 0 \in 0..n  BY <1>1
  <2> QED  BY <1>3, <2>1, Zenon
<1>5. ASSUME NEW k \in 1..n, k - 1 \in T PROVE k \in T
  <2>1. v[k] = u[k]  BY <1>2, <1>3, <1>5, Zenon
  <2>2. k \in 0..n  BY <1>1
  <2> QED  BY <2>1, <2>2
<1>6. \A k \in 0..n : k \in T
  <2> HIDE DEF T
  <2> QED  BY <1>1, <1>4, <1>5, UpwardInduction
<1>7. n \in 0..n  BY <1>1
<1> QED  BY <1>6, <1>7 DEF n

(* The sums are the units of the prefixes, and each is larger than those   *)
(* before it.                                                              *)
UnitsAlong(u, encoding, s) ==
  /\ u \in [0..Len(s) -> Nat] /\ u[0] = 0
  /\ \A k \in 1..Len(s) : u[k] = u[k - 1] + Units[encoding][s[k]]
  /\ \A k \in 0..Len(s) : UnitsOf(encoding, SubSeq(s, 1, k)) = u[k]
  /\ \A j, k \in 0..Len(s) : j < k => u[j] < u[k]

LEMMA UnitsRise ==
  ASSUME NEW encoding \in Encodings, NEW s \in Seq(Glyphs)
  PROVE  \E u : UnitsAlong(u, encoding, s)
<1> DEFINE n == Len(s)
<1>1. n \in Nat  OBVIOUS
<1>2. PICK u : UnitSums(u, encoding, s)  BY UnitsSummed
<1>3. /\ u \in [0..n -> Nat] /\ u[0] = 0
      /\ \A k \in 1..n : u[k] = u[k - 1] + Units[encoding][s[k]]
  BY <1>2, Zenon DEF UnitSums
<1>4. ASSUME NEW k \in 0..n PROVE UnitsOf(encoding, SubSeq(s, 1, k)) = u[k]
  <2>1. PICK one : one = 1  OBVIOUS
  <2>2. one \in 1..Len(s) + 1 /\ k \in one - 1..Len(s) /\ k - one + 1 = k  BY <1>1, <2>1
  <2>3. PICK t : t = SubSeq(s, one, k)  OBVIOUS
  <2>4. t \in Seq(Glyphs) /\ Len(t) = k /\ \A i \in 1..k : t[i] = s[one + i - 1]
    BY <2>2, <2>3, PartOf
  <2>5. Len(t) <= Len(s) /\ \A i \in 1..Len(t) : t[i] = s[i]
    <3>1. \A i \in 1..k : one + i - 1 = i  BY <2>1
    <3>2. \A i \in 1..k : t[i] = s[i]  BY <2>4, <3>1, Zenon
    <3>3. k <= Len(s)  BY <1>1
    <3> QED  BY <2>4, <3>2, <3>3, Zenon
  <2>6. PICK v : UnitSums(v, encoding, t) /\ UnitsOf(encoding, t) = v[Len(t)]
    BY <2>4, UnitsSummed
  <2>7. v[Len(t)] = u[Len(t)]  BY <1>2, <2>4, <2>5, <2>6, SumsAgree
  <2> QED  BY <2>1, <2>3, <2>4, <2>6, <2>7, Zenon
<1>5. \A k \in 1..n : u[k - 1] < u[k]
  <2>1. ASSUME NEW k \in 1..n PROVE u[k - 1] < u[k]
    <3>1. PICK w \in Nat \ {0} : w = Units[encoding][s[k]]  BY UnitsTaken
    <3>2. k - 1 \in 0..n  BY <1>1
    <3>3. PICK m \in Nat : m = u[k - 1]  BY <1>3, <3>2
    <3>4. u[k] = m + w  BY <1>3, <3>1, <3>3, Zenon
    <3> QED  BY <3>3, <3>4
  <2> QED  BY <2>1
<1> HIDE DEF n
<1> DEFINE T == {k \in 0..n : \A j \in 0..n : j < k => u[j] < u[k]}
<1>6. 0 \in T
  <2>1. 0 \in 0..n /\ \A j \in 0..n : ~ (j < 0)  BY <1>1
  <2> QED  BY <2>1
<1>7. ASSUME NEW k \in 1..n, k - 1 \in T PROVE k \in T
  <2>1. k \in 0..n /\ k - 1 \in 0..n  BY <1>1
  <2>2. ASSUME NEW j \in 0..n, j < k PROVE u[j] < u[k]
    <3>1. j < k - 1 \/ j = k - 1  BY <1>1, <2>2
    <3>2. CASE j = k - 1  BY <1>5, <3>2
    <3>3. CASE j < k - 1
      <4>1. u[j] < u[k - 1]  BY <1>7, <3>3
      <4>2. PICK x \in Nat, y \in Nat, z \in Nat : x = u[j] /\ y = u[k - 1] /\ z = u[k]
        BY <1>3, <2>1
      <4>3. y < z  BY <1>5, <4>2, Zenon
      <4>4. x < y  BY <4>1, <4>2, Zenon
      <4>5. x < z  BY <4>3, <4>4
      <4> QED  BY <4>2, <4>5, Zenon
    <3> QED  BY <3>1, <3>2, <3>3
  <2> QED  BY <2>1, <2>2
<1>8. \A k \in 0..n : k \in T
  <2> HIDE DEF T
  <2> QED  BY <1>1, <1>6, <1>7, UpwardInduction
<1>9. \A j, k \in 0..n : j < k => u[j] < u[k]  BY <1>8
<1>10. UnitsAlong(u, encoding, s)
  BY <1>3, <1>4, <1>9, Zenon DEF UnitsAlong, n
<1> QED  BY <1>10

(* Every character is one unit of UTF-32.                                  *)
LEMMA UnitsOfUtf32 ==
  ASSUME NEW s \in Seq(Glyphs), NEW u, UnitsAlong(u, "utf-32", s)
  PROVE  \A k \in 0..Len(s) : u[k] = k
<1> DEFINE n == Len(s)
           T == {k \in 0..n : u[k] = k}
<1>1. n \in Nat  OBVIOUS
<1>2. u[0] = 0 /\ \A k \in 1..n : u[k] = u[k - 1] + Units["utf-32"][s[k]]
  BY Zenon DEF UnitsAlong
<1>3. \A k \in 1..n : Units["utf-32"][s[k]] = 1
  <2>1. \A k \in 1..n : s[k] \in Glyphs  OBVIOUS
  <2> QED  BY <2>1, LspEditsAssumption, Zenon
<1> HIDE DEF n
<1>4. 0 \in T
  <2>1. 0 \in 0..n  BY <1>1
  <2> QED  BY <1>2, <2>1
<1>5. ASSUME NEW k \in 1..n, k - 1 \in T PROVE k \in T
  <2>1. u[k] = (k - 1) + 1  BY <1>2, <1>3, <1>5, Zenon
  <2> QED  BY <1>1, <2>1
<1>6. \A k \in 0..n : k \in T
  <2> HIDE DEF T
  <2> QED  BY <1>1, <1>4, <1>5, UpwardInduction
<1> QED  BY <1>6 DEF n

-----------------------------------------------------------------------------
(* Columns. *)

(* How far a scan for a column is, and the scan of one more character.     *)
Scans ==
  {at \in [stopped : BOOLEAN, units : Nat, k : Nat \union {Invalid}] :
     at.stopped \/ at.k \in Nat}

Scanned(at, c, column) ==
  IF at.stopped \/ at.units = column
  THEN [stopped |-> TRUE, units |-> at.units, k |-> at.k]
  ELSE IF at.units + Units["utf-16"][c] > column
  THEN [stopped |-> TRUE, units |-> at.units, k |-> Invalid]
  ELSE [stopped |-> FALSE, units |-> at.units + Units["utf-16"][c], k |-> at.k + 1]

LEMMA ScansGoOn ==
  ASSUME NEW at \in Scans, NEW c, Units["utf-16"][c] \in Nat, NEW column
  PROVE  Scanned(at, c, column) \in Scans
<1>1. PICK w \in Nat : w = Units["utf-16"][c]  OBVIOUS
<1>2. PICK b, m, i : b = at.stopped /\ m = at.units /\ i = at.k  OBVIOUS
<1>3. b \in BOOLEAN /\ m \in Nat /\ i \in Nat \union {Invalid} /\ (b \/ i \in Nat)
  BY <1>2 DEF Scans
<1>4. CASE b \/ m = column
  <2>1. Scanned(at, c, column) = [stopped |-> TRUE, units |-> m, k |-> i]
    BY <1>2, <1>4, Zenon DEF Scanned
  <2>2. [stopped |-> TRUE, units |-> m, k |-> i] \in Scans  BY <1>3 DEF Scans
  <2> QED  BY <2>1, <2>2, Zenon
<1>5. CASE ~ (b \/ m = column) /\ m + w > column
  <2>1. Scanned(at, c, column) = [stopped |-> TRUE, units |-> m, k |-> Invalid]
    BY <1>1, <1>2, <1>5, Zenon DEF Scanned
  <2>2. [stopped |-> TRUE, units |-> m, k |-> Invalid] \in Scans  BY <1>3 DEF Scans
  <2> QED  BY <2>1, <2>2, Zenon
<1>6. CASE ~ (b \/ m = column) /\ ~ (m + w > column)
  <2>1. Scanned(at, c, column) = [stopped |-> FALSE, units |-> m + w, k |-> i + 1]
    BY <1>1, <1>2, <1>6, Zenon DEF Scanned
  <2>2. [stopped |-> FALSE, units |-> m + w, k |-> i + 1] \in Scans  BY <1>3, <1>6 DEF Scans
  <2> QED  BY <2>1, <2>2, Zenon
<1> QED  BY <1>4, <1>5, <1>6

(* The scan, character by character.                                       *)
ScansAlong(f, line, column) ==
  /\ f[0] = [stopped |-> FALSE, units |-> 0, k |-> 0]
  /\ \A k \in 1..Len(line) : f[k] = Scanned(f[k - 1], line[k], column)

LEMMA ScanFound ==
  ASSUME NEW line \in Seq(Glyphs), NEW column
  PROVE  \E f : /\ ScansAlong(f, line, column)
                /\ PrefixForUtf16(line, column) =
                     IF f[Len(line)].k # Invalid /\ f[Len(line)].units # column
                     THEN Invalid ELSE f[Len(line)].k
<1> DEFINE n == Len(line)
           step == [sk \in Scans \X (1..n) |-> Scanned(sk[1], line[sk[2]], column)]
           Sat(f) == f = [k \in 0..n |-> IF k = 0 THEN [stopped |-> FALSE, units |-> 0, k |-> 0]
                                         ELSE Scanned(f[k - 1], line[k], column)]
<1>1. n \in Nat  OBVIOUS
<1>2. \A k \in 1..n : Units["utf-16"][line[k]] \in Nat
  <2>1. "utf-16" \in Encodings  BY DEF Encodings
  <2> QED  BY <2>1, UnitsTaken
<1> HIDE DEF n
<1>3. step \in [Scans \X (1..n) -> Scans]
  <2>1. \A at \in Scans : \A k \in 1..n : Scanned(at, line[k], column) \in Scans
    BY <1>2, ScansGoOn
  <2> HIDE DEF Scans, Scanned
  <2> QED  BY <2>1
<1>4. \E f : Sat(f)
  <2>1. \A at \in Scans, k \in 1..n : step[<<at, k>>] = Scanned(at, line[k], column)  OBVIOUS
  <2> HIDE DEF step
  <2>2. PICK e : e = [stopped |-> FALSE, units |-> 0, k |-> 0]  OBVIOUS
  <2>3. e \in Scans  BY <2>2 DEF Scans
  <2>4. PICK f \in [0..n -> Scans] : Steps(n, e, step, f)  BY <1>1, <1>3, <2>3, StepRecursion
  <2>5. f[0] = e /\ \A k \in 1..n : f[k] = step[<<f[k - 1], k>>]  BY <2>4, Zenon DEF Steps
  <2>6. ASSUME NEW k \in 0..n
        PROVE  f[k] = IF k = 0 THEN [stopped |-> FALSE, units |-> 0, k |-> 0]
                      ELSE Scanned(f[k - 1], line[k], column)
    <3>1. CASE k = 0  BY <2>2, <2>5, <3>1, Zenon
    <3>2. CASE k # 0
      <4>1. k \in 1..n /\ k - 1 \in 0..n  BY <1>1, <3>2
      <4>2. PICK at \in Scans : at = f[k - 1]  BY <4>1
      <4>3. step[<<at, k>>] = Scanned(at, line[k], column)  BY <2>1, <4>1, Zenon
      <4> QED  BY <2>5, <3>2, <4>1, <4>2, <4>3, Zenon
    <3> QED  BY <3>1, <3>2
  <2>7. f = [k \in 0..n |-> f[k]]  OBVIOUS
  <2> QED  BY <2>6, <2>7, Zenon
<1> DEFINE f == CHOOSE f : Sat(f)
<1>5. Sat(f)  BY <1>4, Zenon
<1>6. PrefixForUtf16(line, column) =
        IF f[n].k # Invalid /\ f[n].units # column THEN Invalid ELSE f[n].k
  BY Zenon DEF PrefixForUtf16, Scanned, n
<1> HIDE DEF f, step
<1>7. ScansAlong(f, line, column)
  <2>1. 0 \in 0..n /\ \A k \in 1..n : k \in 0..n /\ k # 0  BY <1>1
  <2> QED  BY <1>5, <2>1, Zenon DEF ScansAlong, n
<1> QED  BY <1>6, <1>7, Zenon DEF n

(* Where the scan of a line stands.                                        *)
ScanAt(at, k, u, column) ==
  \/ /\ at = [stopped |-> FALSE, units |-> u[k], k |-> k]
     /\ u[k] <= column /\ \A j \in 0..k : j # k => u[j] # column
  \/ \E i \in 0..k : u[i] = column /\ at = [stopped |-> TRUE, units |-> column, k |-> i]
  \/ \E j \in 1..k, m \in Nat : /\ u[j - 1] < column /\ column < u[j]
                                /\ at = [stopped |-> TRUE, units |-> m, k |-> Invalid]

LEMMA ScanStep ==
  ASSUME NEW line \in Seq(Glyphs), NEW column \in Nat, NEW u, UnitsAlong(u, "utf-16", line),
         NEW k \in 1..Len(line), NEW at, ScanAt(at, k - 1, u, column)
  PROVE  ScanAt(Scanned(at, line[k], column), k, u, column)
<1>1. PICK n \in Nat : n = Len(line)  OBVIOUS
<1>2. u \in [0..n -> Nat] /\ u[k] = u[k - 1] + Units["utf-16"][line[k]]
  BY <1>1, Zenon DEF UnitsAlong
<1>3. PICK w \in Nat \ {0} : w = Units["utf-16"][line[k]]
  <2>1. "utf-16" \in Encodings  BY DEF Encodings
  <2> QED  BY <2>1, UnitsTaken
<1>4. k - 1 \in 0..n /\ k \in 0..n  BY <1>1
<1>5. PICK m \in Nat : m = u[k - 1] /\ u[k] = m + w
  BY <1>2, <1>3, <1>4
<1>6. PICK y : y = Scanned(at, line[k], column)  OBVIOUS
<1>7. CASE /\ at = [stopped |-> FALSE, units |-> u[k - 1], k |-> k - 1]
           /\ u[k - 1] <= column /\ \A j \in 0..k - 1 : j # k - 1 => u[j] # column
  <2>1. at.stopped = FALSE /\ at.units = m /\ at.k = k - 1  BY <1>5, <1>7
  <2>2. CASE m = column
    <3>1. y = [stopped |-> TRUE, units |-> m, k |-> k - 1]
      BY <1>6, <2>1, <2>2, Zenon DEF Scanned
    <3>2. k - 1 \in 0..k  BY <1>4
    <3> QED  BY <1>5, <1>6, <2>2, <3>1, <3>2, Zenon DEF ScanAt
  <2>3. CASE m # column /\ m + w > column
    <3>1. y = [stopped |-> TRUE, units |-> m, k |-> Invalid]
      BY <1>3, <1>6, <2>1, <2>3, Zenon DEF Scanned
    <3>2. u[k - 1] < column /\ column < u[k]  BY <1>5, <1>7, <2>3
    <3>3. k \in 1..k  BY <1>1
    <3> QED  BY <1>6, <3>1, <3>2, <3>3, Zenon DEF ScanAt
  <2>4. CASE m # column /\ ~ (m + w > column)
    <3>1. y = [stopped |-> FALSE, units |-> m + w, k |-> (k - 1) + 1]
      BY <1>3, <1>6, <2>1, <2>4, Zenon DEF Scanned
    <3>2. (k - 1) + 1 = k  BY <1>1
    <3>3. u[k] <= column  BY <1>5, <2>4
    <3>4. ASSUME NEW j \in 0..k, j # k PROVE u[j] # column
      <4>1. j \in 0..k - 1  BY <3>4
      <4>2. CASE j = k - 1  BY <1>5, <2>4, <4>2
      <4>3. CASE j # k - 1  BY <1>7, <4>1, <4>3
      <4> QED  BY <4>2, <4>3
    <3>5. y = [stopped |-> FALSE, units |-> u[k], k |-> k]  BY <1>5, <3>1, <3>2, Zenon
    <3> QED  BY <1>6, <3>3, <3>4, <3>5, Zenon DEF ScanAt
  <2> QED  BY <2>2, <2>3, <2>4
<1>8. ASSUME NEW i \in 0..k - 1, u[i] = column,
             at = [stopped |-> TRUE, units |-> column, k |-> i]
      PROVE  ScanAt(y, k, u, column)
  <2>1. at.stopped = TRUE /\ at.units = column /\ at.k = i  BY <1>8
  <2>2. y = [stopped |-> TRUE, units |-> column, k |-> i]  BY <1>6, <2>1, Zenon DEF Scanned
  <2>3. i \in 0..k  BY <1>1
  <2> QED  BY <1>8, <2>2, <2>3, Zenon DEF ScanAt
<1>9. ASSUME NEW j \in 1..k - 1, NEW l \in Nat, u[j - 1] < column, column < u[j],
             at = [stopped |-> TRUE, units |-> l, k |-> Invalid]
      PROVE  ScanAt(y, k, u, column)
  <2>1. at.stopped = TRUE /\ at.units = l /\ at.k = Invalid  BY <1>9
  <2>2. y = [stopped |-> TRUE, units |-> l, k |-> Invalid]  BY <1>6, <2>1, Zenon DEF Scanned
  <2>3. j \in 1..k  BY <1>1
  <2> QED  BY <1>9, <2>2, <2>3, Zenon DEF ScanAt
<1> QED  BY <1>6, <1>7, <1>8, <1>9, Zenon DEF ScanAt

(* The prefix that takes a number of units, or Invalid if there is none.   *)
PrefixIs(r, u, n, column) ==
  \/ r \in 0..n /\ u[r] = column
  \/ r = Invalid /\ \A k \in 0..n : u[k] # column

LEMMA PrefixOfUtf16 ==
  ASSUME NEW line \in Seq(Glyphs), NEW column \in Nat, NEW u, UnitsAlong(u, "utf-16", line)
  PROVE  PrefixIs(PrefixForUtf16(line, column), u, Len(line), column)
<1> DEFINE n == Len(line)
<1>1. n \in Nat  OBVIOUS
<1>2. /\ u \in [0..n -> Nat] /\ u[0] = 0
      /\ \A j, k \in 0..n : j < k => u[j] < u[k]
  BY Zenon DEF UnitsAlong
<1>3. PICK f : /\ ScansAlong(f, line, column)
               /\ PrefixForUtf16(line, column) =
                    IF f[n].k # Invalid /\ f[n].units # column THEN Invalid ELSE f[n].k
  BY ScanFound
<1>4. /\ f[0] = [stopped |-> FALSE, units |-> 0, k |-> 0]
      /\ \A k \in 1..n : f[k] = Scanned(f[k - 1], line[k], column)
  BY <1>3, Zenon DEF ScansAlong
<1> DEFINE T == {k \in 0..n : ScanAt(f[k], k, u, column)}
<1>5. 0 \in T
  <2>1. f[0] = [stopped |-> FALSE, units |-> u[0], k |-> 0]  BY <1>2, <1>4, Zenon
  <2>2. u[0] <= column /\ \A j \in 0..0 : j = 0  BY <1>2
  <2>3. ScanAt(f[0], 0, u, column)  BY <2>1, <2>2, Zenon DEF ScanAt
  <2>4. 0 \in 0..n  BY <1>1
  <2> QED  BY <2>3, <2>4
<1>6. ASSUME NEW k \in 1..n, k - 1 \in T PROVE k \in T
  <2>1. ScanAt(f[k - 1], k - 1, u, column)  BY <1>6
  <2>2. ScanAt(Scanned(f[k - 1], line[k], column), k, u, column)  BY <2>1, ScanStep
  <2>3. k \in 0..n  BY <1>1
  <2> QED  BY <1>4, <2>2, <2>3, Zenon
<1>7. ScanAt(f[n], n, u, column)
  <2>1. \A k \in 0..n : k \in T
    <3> HIDE DEF T, n
    <3> QED  BY <1>1, <1>5, <1>6, UpwardInduction
  <2>2. n \in 0..n  BY <1>1
  <2> QED  BY <2>1, <2>2
<1> HIDE DEF n
<1>8. PICK r, end : r = PrefixForUtf16(line, column) /\ end = f[n]  OBVIOUS
<1>9. CASE /\ end = [stopped |-> FALSE, units |-> u[n], k |-> n]
           /\ u[n] <= column /\ \A j \in 0..n : j # n => u[j] # column
  <2>1. end.k = n /\ end.units = u[n] /\ n # Invalid  BY <1>1, <1>9, LspEditsAssumption
  <2>2. n \in 0..n  BY <1>1
  <2>3. CASE u[n] = column
    <3>1. r = n  BY <1>3, <1>8, <2>1, <2>3, Zenon
    <3> QED  BY <1>8, <2>2, <2>3, <3>1, Zenon DEF PrefixIs, n
  <2>4. CASE u[n] # column
    <3>1. r = Invalid  BY <1>3, <1>8, <2>1, <2>4, Zenon
    <3>2. \A k \in 0..n : u[k] # column  BY <1>9, <2>4, Zenon
    <3> QED  BY <1>8, <3>1, <3>2, Zenon DEF PrefixIs, n
  <2> QED  BY <2>3, <2>4
<1>10. ASSUME NEW i \in 0..n, u[i] = column,
              end = [stopped |-> TRUE, units |-> column, k |-> i]
       PROVE  PrefixIs(r, u, n, column)
  <2>1. end.units = column /\ end.k = i  BY <1>10
  <2>2. r = i  BY <1>3, <1>8, <2>1, Zenon
  <2> QED  BY <1>10, <2>2, Zenon DEF PrefixIs
<1>11. ASSUME NEW j \in 1..n, NEW m \in Nat, u[j - 1] < column, column < u[j],
              end = [stopped |-> TRUE, units |-> m, k |-> Invalid]
       PROVE  PrefixIs(r, u, n, column)
  <2>1. end.k = Invalid  BY <1>11
  <2>2. r = Invalid  BY <1>3, <1>8, <2>1, Zenon
  <2>3. ASSUME NEW k \in 0..n PROVE u[k] # column
    <3>1. j - 1 \in 0..n /\ j \in 0..n  BY <1>1
    <3>2. k < j - 1 \/ k = j - 1 \/ k = j \/ j < k  BY <1>1
    <3>3. PICK x \in Nat, y \in Nat, z \in Nat : x = u[j - 1] /\ y = u[j] /\ z = u[k]
      BY <1>2, <3>1
    <3>4. x < column /\ column < y  BY <1>11, <3>3
    <3>5. (k < j - 1 => z < x) /\ (k = j - 1 => z = x) /\ (k = j => z = y) /\ (j < k => y < z)
      BY <1>2, <3>1, <3>3
    <3>6. z # column  BY <3>2, <3>4, <3>5
    <3> QED  BY <3>3, <3>6, Zenon
  <2> QED  BY <2>2, <2>3, Zenon DEF PrefixIs
<1>12. ScanAt(end, n, u, column)  BY <1>7, <1>8, Zenon
<1> QED  BY <1>8, <1>9, <1>10, <1>11, <1>12, Zenon DEF ScanAt, n

(* It is for each encoding.                                                *)
LEMMA PrefixOfServer ==
  ASSUME NEW line \in Seq(Glyphs), NEW column \in Nat, NEW encoding \in Encodings,
         NEW u, UnitsAlong(u, encoding, line)
  PROVE  PrefixIs(PrefixForServer(line, column, encoding), u, Len(line), column)
<1>1. PICK n \in Nat : n = Len(line)  OBVIOUS
<1>2. \A k \in 0..n : UnitsOf(encoding, SubSeq(line, 1, k)) = u[k]
  BY <1>1, Zenon DEF UnitsAlong
<1>3. PICK r : r = PrefixForServer(line, column, encoding)  OBVIOUS
<1>4. CASE encoding = "utf-8"
  <2>1. r = IF \E k \in 0..n : UnitsOf("utf-8", SubSeq(line, 1, k)) = column
            THEN CHOOSE k \in 0..n : UnitsOf("utf-8", SubSeq(line, 1, k)) = column
            ELSE Invalid
    BY <1>1, <1>3, <1>4 DEF PrefixForServer
  <2>2. \A k \in 0..n : UnitsOf("utf-8", SubSeq(line, 1, k)) = u[k]  BY <1>2, <1>4, Zenon
  <2>3. CASE \E k \in 0..n : UnitsOf("utf-8", SubSeq(line, 1, k)) = column
    <3>1. r \in 0..n /\ UnitsOf("utf-8", SubSeq(line, 1, r)) = column  BY <2>1, <2>3, Zenon
    <3> QED  BY <1>1, <1>3, <2>2, <3>1, Zenon DEF PrefixIs
  <2>4. CASE ~ \E k \in 0..n : UnitsOf("utf-8", SubSeq(line, 1, k)) = column
    <3>1. r = Invalid  BY <2>1, <2>4, Zenon
    <3> QED  BY <1>1, <1>3, <2>2, <2>4, <3>1, Zenon DEF PrefixIs
  <2> QED  BY <2>3, <2>4
<1>5. CASE encoding = "utf-16"
  <2>1. r = PrefixForUtf16(line, column)  BY <1>3, <1>5 DEF PrefixForServer
  <2> QED  BY <1>3, <1>5, <2>1, PrefixOfUtf16, Zenon
<1>6. CASE encoding = "utf-32"
  <2>1. r = IF column <= n THEN column ELSE Invalid  BY <1>1, <1>3, <1>6 DEF PrefixForServer
  <2>2. \A k \in 0..n : u[k] = k  BY <1>1, <1>6, UnitsOfUtf32
  <2>3. CASE column <= n
    <3>1. column \in 0..n  BY <2>3
    <3> QED  BY <1>1, <1>3, <2>1, <2>2, <2>3, <3>1, Zenon DEF PrefixIs
  <2>4. CASE ~ (column <= n)
    <3>1. \A k \in 0..n : k # column  BY <1>1, <2>4
    <3> QED  BY <1>1, <1>3, <2>1, <2>2, <2>4, <3>1, Zenon DEF PrefixIs
  <2> QED  BY <2>3, <2>4
<1> QED  BY <1>4, <1>5, <1>6 DEF Encodings

-----------------------------------------------------------------------------
(* Lines. *)

(* The line of a place, and what it spans.                                 *)
LineOf(text, i) == Cardinality({j \in LineEnds(text) : j <= i})

LineSpan(text, n, start, end) ==
  /\ start \in 0..end /\ end \in 0..Len(text)
  /\ LineStart(text, n) = start
  /\ LineTail(text, n) = SubSeq(text, start + 1, end)
  /\ \A i \in 0..Len(text) : LineOf(text, i) = n <=> start <= i /\ i <= end
  /\ n = Cardinality(LineEnds(text)) /\ text # <<>> /\ text[Len(text)] = LineEnd
       => start = Len(text)

(* The ends of lines, counted.                                             *)
LinesCounted(text, c, f) ==
  /\ c \in 0..Len(text) /\ c = Cardinality(LineEnds(text))
  /\ f \in [1..c -> 1..Len(text)]
  /\ \A j \in 1..Len(text) : j \in LineEnds(text) <=> \E k \in 1..c : f[k] = j
  /\ \A j, k \in 1..c : j < k => f[j] < f[k]
  /\ \A i \in 0..Len(text) :
       /\ LineOf(text, i) \in 0..c
       /\ \A k \in 1..c : /\ i < f[k] => LineOf(text, i) < k
                          /\ f[k] <= i => k <= LineOf(text, i)

LEMMA CountLines ==
  ASSUME NEW text \in Seq(Glyphs)
  PROVE  \E c, f : LinesCounted(text, c, f)
<1>1. PICK l \in Nat : l = Len(text)  OBVIOUS
<1>2. PICK E : E = LineEnds(text)  OBVIOUS
<1>3. E \subseteq 1..l /\ \A j \in 1..l : j \in LineEnds(text) <=> j \in E
  BY <1>1, <1>2 DEF LineEnds
<1>4. E \in SUBSET Nat  BY <1>3
<1>5. IsFiniteSet(E) /\ Cardinality(E) <= l
  <2>1. l \in Int /\ 1 \in Int  OBVIOUS
  <2>2. IsFiniteSet(1..l) /\ Cardinality(1..l) = IF 1 > l THEN 0 ELSE l - 1 + 1
    BY <2>1, FS_Interval
  <2>3. Cardinality(1..l) = l  BY <2>2
  <2> QED  BY <1>3, <2>2, <2>3, FS_Subset
<1>6. PICK f : f = Ascending(E)  OBVIOUS
<1>7. Ascends(f, E)  BY <1>4, <1>5, <1>6, AscendingAscends
<1>8. PICK c \in Nat : c = Cardinality(E)  BY <1>7 DEF Ascends
<1>9. /\ f \in [1..c -> E] /\ \A x \in E : \E k \in 1..c : f[k] = x
      /\ \A j, k \in 1..c : j < k => f[j] < f[k]
  BY <1>7, <1>8 DEF Ascends
<1>10. ASSUME NEW i \in 0..l
       PROVE  /\ LineOf(text, i) \in 0..c
              /\ \A k \in 1..c : /\ i < f[k] => LineOf(text, i) < k
                                 /\ f[k] <= i => k <= LineOf(text, i)
  <2>1. LineOf(text, i) = Cardinality(NotAbove(E, i))  BY <1>2 DEF LineOf, NotAbove
  <2>2. i \in Nat  OBVIOUS
  <2>3. /\ Cardinality(NotAbove(E, i)) \in 0..Cardinality(E)
        /\ \A k \in 1..Cardinality(E) :
             /\ i < f[k] => Cardinality(NotAbove(E, i)) < k
             /\ f[k] <= i => k <= Cardinality(NotAbove(E, i))
    BY <1>4, <1>5, <1>7, <2>2, CountsUpTo
  <2> QED  BY <1>8, <2>1, <2>3, Zenon
<1>11. c \in 0..l  BY <1>5, <1>8
<1>12. f \in [1..c -> 1..l]  BY <1>3, <1>9
<1>13. \A j \in 1..l : j \in LineEnds(text) <=> \E k \in 1..c : f[k] = j  BY <1>3, <1>9
<1>14. LinesCounted(text, c, f)
  BY <1>1, <1>2, <1>8, <1>9, <1>10, <1>11, <1>12, <1>13, Zenon DEF LinesCounted
<1> QED  BY <1>14

(* Each line there is spans some places.                                   *)
LEMMA LineSpans ==
  ASSUME NEW text \in Seq(Glyphs), NEW n \in Nat, HasLine(text, n)
  PROVE  \E start, end : LineSpan(text, n, start, end)
<1>1. PICK l \in Nat : l = Len(text)  OBVIOUS
<1>2. PICK c, f : LinesCounted(text, c, f)  BY CountLines
<1>3. /\ c \in 0..l /\ c = Cardinality(LineEnds(text))
      /\ f \in [1..c -> 1..l]
      /\ \A j \in 1..l : j \in LineEnds(text) <=> \E k \in 1..c : f[k] = j
      /\ \A j, k \in 1..c : j < k => f[j] < f[k]
      /\ \A i \in 0..l :
           /\ LineOf(text, i) \in 0..c
           /\ \A k \in 1..c : /\ i < f[k] => LineOf(text, i) < k
                              /\ f[k] <= i => k <= LineOf(text, i)
  BY <1>1, <1>2, Zenon DEF LinesCounted
<1>4. n <= c  BY <1>3 DEF HasLine
<1>5. PICK start, end :
        /\ start = IF n = 0 THEN 0 ELSE f[n]
        /\ end = IF n = c THEN l ELSE f[n + 1] - 1
  OBVIOUS
<1>6. (n # 0 => n \in 1..c) /\ (n # c => n + 1 \in 1..c)  BY <1>3, <1>4
<1>7. /\ start \in 0..l /\ (n # 0 => start = f[n]) /\ (n = 0 => start = 0)
      /\ end \in 0..l /\ (n # c => f[n + 1] = end + 1) /\ (n = c => end = l)
  <2>1. CASE n = c  BY <1>3, <1>5, <1>6, <2>1
  <2>2. CASE n # c
    <3>1. PICK b \in 1..l : b = f[n + 1]  BY <1>3, <1>6, <2>2
    <3>2. end = b - 1  BY <1>5, <2>2, <3>1
    <3>3. end \in 0..l /\ f[n + 1] = end + 1  BY <3>1, <3>2
    <3>4. start \in 0..l /\ (n # 0 => start = f[n]) /\ (n = 0 => start = 0)
      <4>1. CASE n = 0  BY <1>5, <4>1
      <4>2. CASE n # 0
        <5>1. PICK a \in 1..l : a = f[n]  BY <1>3, <1>6, <4>2
        <5> QED  BY <1>5, <4>2, <5>1
      <4> QED  BY <4>1, <4>2
    <3> QED  BY <2>2, <3>3, <3>4, Zenon
  <2> QED  BY <2>1, <2>2
<1>8. start <= end
  <2>1. CASE n = 0 \/ n = c  BY <1>7, <2>1
  <2>2. CASE n # 0 /\ n # c
    <3>1. f[n] < f[n + 1]  BY <1>3, <1>6, <2>2
    <3> QED  BY <1>7, <2>2, <3>1
  <2> QED  BY <2>1, <2>2
<1>9. \A i \in 0..l : LineOf(text, i) = n <=> start <= i /\ i <= end
  <2>1. ASSUME NEW i \in 0..l, LineOf(text, i) = n PROVE start <= i /\ i <= end
    <3>1. start <= i
      <4>1. CASE n = 0  BY <1>7, <4>1
      <4>2. CASE n # 0
        <5>1. i < f[n] => n < n  BY <1>3, <1>6, <2>1, <4>2, Zenon
        <5> QED  BY <1>7, <4>2, <5>1
      <4> QED  BY <4>1, <4>2
    <3>2. i <= end
      <4>1. CASE n = c  BY <1>7, <4>1
      <4>2. CASE n # c
        <5>1. f[n + 1] <= i => n + 1 <= n  BY <1>3, <1>6, <2>1, <4>2, Zenon
        <5> QED  BY <1>7, <4>2, <5>1
      <4> QED  BY <4>1, <4>2
    <3> QED  BY <3>1, <3>2
  <2>2. ASSUME NEW i \in 0..l, start <= i, i <= end PROVE LineOf(text, i) = n
    <3>1. PICK m \in 0..c : m = LineOf(text, i)  BY <1>3
    <3>2. n <= m
      <4>1. CASE n = 0  BY <3>1, <4>1
      <4>2. CASE n # 0  BY <1>3, <1>6, <1>7, <2>2, <3>1, <4>2, Zenon
      <4> QED  BY <4>1, <4>2
    <3>3. m <= n
      <4>1. CASE n = c  BY <3>1, <4>1
      <4>2. CASE n # c
        <5>1. i < f[n + 1]  BY <1>7, <2>2, <4>2
        <5>2. m < n + 1  BY <1>3, <1>6, <3>1, <4>2, <5>1, Zenon
        <5> QED  BY <3>1, <5>2
      <4> QED  BY <4>1, <4>2
    <3> QED  BY <1>3, <3>1, <3>2, <3>3
  <2> QED  BY <2>1, <2>2
<1>10. LineStart(text, n) = start
  <2>1. CASE n = 0  BY <1>7, <2>1 DEF LineStart
  <2>2. CASE n # 0
    <3>1. PICK a \in 1..l : a = start /\ a = f[n]  BY <1>3, <1>6, <1>7, <2>2
    <3>2. start \in LineEnds(text)  BY <1>3, <1>6, <2>2, <3>1, Zenon
    <3>3. LineOf(text, start) = n
      <4>1. start \in 0..l /\ start <= start  BY <1>7
      <4> QED  BY <1>8, <1>9, <4>1, Zenon
    <3>4. ASSUME NEW j \in LineEnds(text), LineOf(text, j) = n PROVE j = start
      <4>1. j \in 1..l  BY <1>1 DEF LineEnds
      <4>2. PICK k \in 1..c : f[k] = j  BY <1>3, <4>1
      <4>3. LineOf(text, j) >= k
        <5>1. j \in 0..l /\ j <= j  BY <4>1
        <5>2. k <= LineOf(text, j)  BY <1>3, <4>2, <5>1, Zenon
        <5> QED  BY <3>4, <5>2
      <4>4. ~ (k < n)
        <5>1. j \in 0..l  BY <4>1
        <5>2. start <= j  BY <1>9, <3>4, <5>1
        <5>3. ~ (j < a)  BY <1>7, <2>2, <3>1, <4>1, <5>2
        <5>4. ASSUME k < n PROVE FALSE
          <6>1. f[k] < f[n]  BY <1>3, <1>6, <2>2, <5>4
          <6> QED  BY <3>1, <4>2, <5>3, <6>1, Zenon
        <5> QED  BY <5>4
      <4>5. k = n  BY <3>4, <4>3, <4>4
      <4> QED  BY <3>1, <4>2, <4>5
    <3>5. LineStart(text, n) = CHOOSE i \in LineEnds(text) : LineOf(text, i) = n
      BY <2>2, Zenon DEF LineStart, LineOf
    <3> QED  BY <3>2, <3>3, <3>4, <3>5, Zenon
  <2> QED  BY <2>1, <2>2
<1>11. LineTail(text, n) = SubSeq(text, start + 1, end)
  <2> DEFINE ends == {i \in LineEnds(text) : i > start}
  <2>1. LineTail(text, n)
          = SubSeq(text, start + 1,
                   IF ends = {} THEN Len(text)
                   ELSE (CHOOSE i \in ends : \A j \in ends : i <= j) - 1)
    BY <1>10 DEF LineTail
  <2>2. ASSUME NEW i \in ends PROVE i \in 1..l /\ \E k \in 1..c : f[k] = i /\ n < k
    <3>1. i \in 1..l /\ start < i  BY <1>1 DEF LineEnds
    <3>2. PICK k \in 1..c : f[k] = i  BY <1>3, <3>1
    <3>3. n < k
      <4>1. CASE n = 0  BY <3>2, <4>1
      <4>2. CASE n # 0
        <5>1. ~ (i < start) /\ i # start  BY <1>7, <3>1
        <5>2. k # n  BY <1>7, <3>2, <4>2, <5>1, Zenon
        <5>3. ~ (k < n)
          <6>1. ASSUME k < n PROVE FALSE
            <7>1. f[k] < f[n]  BY <1>3, <1>6, <3>2, <4>2, <6>1
            <7> QED  BY <1>7, <3>2, <4>2, <5>1, <7>1, Zenon
          <6> QED  BY <6>1
        <5> QED  BY <1>3, <5>2, <5>3
      <4> QED  BY <4>1, <4>2
    <3> QED  BY <3>1, <3>2, <3>3
  <2>3. CASE n = c
    <3>1. ends = {}
      <4>1. ASSUME NEW i \in ends PROVE FALSE
        <5>1. PICK k \in 1..c : n < k  BY <2>2
        <5> QED  BY <1>3, <2>3, <5>1
      <4> QED  BY <4>1
    <3> QED  BY <1>1, <1>7, <2>1, <2>3, <3>1, Zenon
  <2>4. CASE n # c
    <3>1. PICK b \in 1..l : b = f[n + 1] /\ b = end + 1  BY <1>3, <1>6, <1>7, <2>4
    <3>2. b \in ends
      <4>1. b \in LineEnds(text)  BY <1>3, <1>6, <2>4, <3>1, Zenon
      <4>2. b > start  BY <1>7, <1>8, <3>1
      <4> QED  BY <4>1, <4>2
    <3>3. ASSUME NEW i \in ends PROVE b <= i /\ i \in 1..l
      <4>1. PICK k \in 1..c : f[k] = i /\ n < k  BY <2>2
      <4>2. k = n + 1 \/ n + 1 < k  BY <1>3, <4>1
      <4>3. i \in 1..l  BY <2>2
      <4>4. i = b \/ b < i
        <5>1. k = n + 1 => i = b  BY <3>1, <4>1
        <5>2. n + 1 < k => f[n + 1] < f[k]  BY <1>3, <1>6, <2>4, <4>1, Zenon
        <5>3. n + 1 < k => b < i  BY <3>1, <4>1, <5>2, Zenon
        <5> QED  BY <4>2, <5>1, <5>3
      <4> QED  BY <3>1, <4>3, <4>4
    <3> HIDE DEF ends
    <3>4. (CHOOSE i \in ends : \A j \in ends : i <= j) = b
      <4>1. \E i \in ends : \A j \in ends : i <= j  BY <3>2, <3>3, Zenon
      <4>2. PICK x : x = CHOOSE i \in ends : \A j \in ends : i <= j  OBVIOUS
      <4>3. x \in ends /\ \A j \in ends : x <= j  BY <4>1, <4>2, Zenon
      <4>4. x <= b /\ b <= x /\ x \in 1..l  BY <3>2, <3>3, <4>3, Zenon
      <4>5. x = b  BY <3>1, <4>4
      <4> QED  BY <4>2, <4>5
    <3>5. LineTail(text, n) = SubSeq(text, start + 1, b - 1)
      BY <2>1, <3>2, <3>4, Zenon
    <3>6. b - 1 = end  BY <1>7, <3>1
    <3> QED  BY <3>5, <3>6, Zenon
  <2> QED  BY <2>3, <2>4
<1>12. ASSUME n = c, text # <<>>, text[l] = LineEnd PROVE start = l
  <2>1. l \in 1..l  BY <1>1, <1>12
  <2>2. l \in LineEnds(text)  BY <1>1, <1>12, <2>1 DEF LineEnds
  <2>3. PICK k \in 1..c : f[k] = l  BY <1>3, <2>1, <2>2, Zenon
  <2>4. n \in 1..c /\ n # 0  BY <1>3, <1>12, <2>3
  <2>5. ~ (k < n)
    <3>1. PICK a \in 1..l : a = f[n]  BY <1>3, <2>4
    <3>2. ~ (l < a)  BY <3>1
    <3> QED  BY <1>3, <2>3, <2>4, <3>1, <3>2, Zenon
  <2>6. k = n  BY <1>12, <2>3, <2>4, <2>5
  <2> QED  BY <1>7, <2>3, <2>4, <2>6
<1>13. start \in 0..end /\ end \in 0..l  BY <1>7, <1>8
<1>14. LineSpan(text, n, start, end)
  BY <1>1, <1>3, <1>9, <1>10, <1>11, <1>12, <1>13, Zenon DEF LineSpan
<1> QED  BY <1>14

-----------------------------------------------------------------------------
(* Positions. *)

(* The places of a line and the units before each in two encodings.        *)
TailIs(text, start, end, tail) ==
  /\ tail \in Seq(Glyphs) /\ Len(tail) = end - start
  /\ \A k \in 0..end - start : SubSeq(text, 1 + start, start + k) = SubSeq(tail, 1, k)

LEMMA TailPlaces ==
  ASSUME NEW text \in Seq(Glyphs), NEW n, NEW start, NEW end, LineSpan(text, n, start, end)
  PROVE  TailIs(text, start, end, LineTail(text, n))
<1>1. /\ start \in 0..end /\ end \in 0..Len(text)
      /\ LineTail(text, n) = SubSeq(text, start + 1, end)
  BY Zenon DEF LineSpan
<1>2. PICK i : i = start + 1  OBVIOUS
<1>3. PICK l \in Nat : l = Len(text)  OBVIOUS
<1>4. i \in 1..Len(text) + 1 /\ end \in i - 1..Len(text) /\ end - i + 1 = end - start
      /\ i = 1 + start
  BY <1>1, <1>2, <1>3
<1>5. PICK tail : tail = SubSeq(text, i, end)  OBVIOUS
<1>6. tail \in Seq(Glyphs) /\ Len(tail) = end - start
  <2>1. tail \in Seq(Glyphs) /\ Len(tail) = end - i + 1  BY <1>4, <1>5, PartOf
  <2> QED  BY <1>4, <2>1, Zenon
<1>7. ASSUME NEW k \in 0..end - start PROVE SubSeq(text, i, start + k) = SubSeq(tail, 1, k)
  <2>1. k \in 0..end - i + 1  BY <1>4
  <2>2. SubSeq(tail, 1, k) = SubSeq(text, i, i + k - 1)  BY <1>4, <1>5, <2>1, StartOfPart
  <2>3. i + k - 1 = start + k  BY <1>1, <1>2
  <2> QED  BY <2>2, <2>3, Zenon
<1> QED  BY <1>1, <1>2, <1>4, <1>5, <1>6, <1>7, Zenon DEF TailIs

(* What a conversion is to give (position.rs:21-88).                       *)
Faithfully(text, encoding, line, column, server, back) ==
  /\ server = Invalid =>
       \A i \in 0..Len(text) :
         ~ (/\ LineOf(text, i) = line
            /\ UnitsOf("utf-16", SubSeq(text, 1 + LineStart(text, LineOf(text, i)), i)) = column)
  /\ server # Invalid =>
       /\ back = column
       /\ \E i \in 0..Len(text) :
            /\ LineOf(text, i) = line
            /\ UnitsOf("utf-16", SubSeq(text, 1 + LineStart(text, LineOf(text, i)), i)) = column
       /\ \A i \in 0..Len(text) :
            /\ LineOf(text, i) = line
            /\ UnitsOf("utf-16", SubSeq(text, 1 + LineStart(text, LineOf(text, i)), i)) = column
            => server = UnitsOf(encoding, SubSeq(text, 1 + LineStart(text, LineOf(text, i)), i))

LEMMA ConvertsFaithfully ==
  ASSUME NEW text \in Seq(Glyphs), NEW encoding \in Encodings,
         NEW line \in Nat, NEW column \in Nat, NEW server, NEW back,
         server = ServerFromUtf16(text, line, column, encoding),
         server # Invalid => back = Utf16FromServer(text, line, server, encoding)
  PROVE  Faithfully(text, encoding, line, column, server, back)
<1>1. CASE ~ HasLine(text, line)
  <2>1. server = Invalid  BY <1>1, Zenon DEF ServerFromUtf16
  <2>2. ASSUME NEW i \in 0..Len(text) PROVE LineOf(text, i) # line
    <3>1. PICK c, f : LinesCounted(text, c, f)  BY CountLines
    <3>2. c \in 0..Len(text) /\ c = Cardinality(LineEnds(text)) /\ LineOf(text, i) \in 0..c
      BY <3>1, Zenon DEF LinesCounted
    <3>3. PICK m \in 0..c : m = LineOf(text, i)  BY <3>2
    <3>4. ~ (line <= c)  BY <1>1, <3>2 DEF HasLine
    <3>5. m # line  BY <3>2, <3>4
    <3> QED  BY <3>3, <3>5
  <2> QED  BY <2>1, <2>2, Zenon DEF Faithfully
<1>2. CASE HasLine(text, line)
  <2>1. PICK start, end : LineSpan(text, line, start, end)  BY <1>2, LineSpans
  <2>2. /\ start \in 0..end /\ end \in 0..Len(text) /\ LineStart(text, line) = start
        /\ \A i \in 0..Len(text) : LineOf(text, i) = line <=> start <= i /\ i <= end
    BY <2>1, Zenon DEF LineSpan
  <2>3. PICK tail : tail = LineTail(text, line)  OBVIOUS
  <2>4. PICK m \in Nat : m = end - start /\ start + m = end  BY <2>2
  <2>5. /\ tail \in Seq(Glyphs) /\ Len(tail) = m
        /\ \A k \in 0..m : SubSeq(text, 1 + start, start + k) = SubSeq(tail, 1, k)
    <3>1. /\ tail \in Seq(Glyphs) /\ Len(tail) = end - start
          /\ \A k \in 0..end - start : SubSeq(text, 1 + start, start + k) = SubSeq(tail, 1, k)
      <4>1. TailIs(text, start, end, LineTail(text, line))  BY <2>1, TailPlaces
      <4>2. TailIs(text, start, end, tail)  BY <2>3, <4>1, Zenon
      <4> QED  BY <4>2, Zenon DEF TailIs
    <3> QED  BY <2>4, <3>1, Zenon
  <2>6. PICK u : UnitsAlong(u, "utf-16", tail)
    <3>1. "utf-16" \in Encodings  BY DEF Encodings
    <3> QED  BY <2>5, <3>1, UnitsRise
  <2>7. PICK v : UnitsAlong(v, encoding, tail)  BY <2>5, UnitsRise
  <2>8. /\ u \in [0..m -> Nat] /\ \A k \in 0..m : UnitsOf("utf-16", SubSeq(tail, 1, k)) = u[k]
        /\ \A j, k \in 0..m : j < k => u[j] < u[k]
        /\ v \in [0..m -> Nat] /\ \A k \in 0..m : UnitsOf(encoding, SubSeq(tail, 1, k)) = v[k]
        /\ \A j, k \in 0..m : j < k => v[j] < v[k]
    BY <2>5, <2>6, <2>7, Zenon DEF UnitsAlong
  <2>9. PICK k : k = PrefixForUtf16(tail, column)  OBVIOUS
  <2>10. PrefixIs(k, u, m, column)  BY <2>5, <2>6, <2>9, PrefixOfUtf16
  <2>11. server = IF k = Invalid THEN Invalid ELSE UnitsOf(encoding, SubSeq(tail, 1, k))
    BY <1>2, <2>3, <2>9, Zenon DEF ServerFromUtf16
  <2>12. ASSUME NEW i \in 0..Len(text), LineOf(text, i) = line
         PROVE  \E h \in 0..m :
                  /\ i = start + h
                  /\ SubSeq(text, 1 + LineStart(text, LineOf(text, i)), i) = SubSeq(tail, 1, h)
    <3>1. start <= i /\ i <= end  BY <2>2, <2>12
    <3>2. PICK h \in 0..m : i = start + h
      <4>1. i - start \in 0..m /\ i = start + (i - start)  BY <2>2, <2>4, <3>1
      <4> QED  BY <4>1
    <3> QED  BY <2>2, <2>5, <2>12, <3>2, Zenon
  <2>13. CASE k = Invalid
    <3>1. \A h \in 0..m : u[h] # column
      <4>1. ~ (k \in 0..m)
        <5>1. 0..m \subseteq Nat  OBVIOUS
        <5> QED  BY <2>13, <5>1, LspEditsAssumption
      <4> QED  BY <2>10, <4>1, Zenon DEF PrefixIs
    <3>2. server = Invalid  BY <2>11, <2>13
    <3>3. ASSUME NEW i \in 0..Len(text), LineOf(text, i) = line
          PROVE  UnitsOf("utf-16", SubSeq(text, 1 + LineStart(text, LineOf(text, i)), i)) # column
      BY <2>8, <2>12, <3>1, <3>3, Zenon
    <3> QED  BY <3>2, <3>3, Zenon DEF Faithfully
  <2>14. CASE k # Invalid
    <3>1. k \in 0..m /\ u[k] = column  BY <2>10, <2>14, Zenon DEF PrefixIs
    <3>2. server = v[k]  BY <2>8, <2>11, <2>14, <3>1, Zenon
    <3>3. server \in Nat /\ server # Invalid  BY <2>8, <3>1, <3>2, LspEditsAssumption
    <3>4. back = column
      <4>1. PICK h : h = PrefixForServer(tail, server, encoding)  OBVIOUS
      <4>2. PrefixIs(h, v, m, server)  BY <2>5, <2>7, <3>3, <4>1, PrefixOfServer
      <4>3. h \in 0..m /\ v[h] = server  BY <3>1, <3>2, <4>2, Zenon DEF PrefixIs
      <4>4. h = k
        <5>1. PICK x \in Nat : x = v[h] /\ x = v[k]  BY <2>8, <3>1, <3>2, <4>3
        <5>2. ~ (x < x)  OBVIOUS
        <5>3. ~ (h < k) /\ ~ (k < h)  BY <2>8, <3>1, <4>3, <5>1, <5>2, Zenon
        <5> QED  BY <3>1, <4>3, <5>3
      <4>5. Utf16FromServer(text, line, server, encoding) = UnitsOf("utf-16", SubSeq(tail, 1, k))
        BY <1>2, <2>3, <2>14, <4>1, <4>4, Zenon DEF Utf16FromServer
      <4> QED  BY <2>8, <3>1, <3>3, <4>5, Zenon
    <3>5. ASSUME NEW i \in 0..Len(text), LineOf(text, i) = line,
                 UnitsOf("utf-16", SubSeq(text, 1 + LineStart(text, LineOf(text, i)), i)) = column
          PROVE  server = UnitsOf(encoding, SubSeq(text, 1 + LineStart(text, LineOf(text, i)), i))
      <4>1. PICK h \in 0..m :
              SubSeq(text, 1 + LineStart(text, LineOf(text, i)), i) = SubSeq(tail, 1, h)
        BY <2>12, <3>5
      <4>2. u[h] = column  BY <2>8, <3>5, <4>1, Zenon
      <4>3. h = k
        <5>1. PICK x \in Nat : x = u[h] /\ x = u[k]  BY <2>8, <3>1, <4>2
        <5>2. ~ (x < x)  OBVIOUS
        <5>3. ~ (h < k) /\ ~ (k < h)  BY <2>8, <3>1, <5>1, <5>2, Zenon
        <5> QED  BY <3>1, <5>3
      <4> QED  BY <2>8, <3>1, <3>2, <4>1, <4>3, Zenon
    <3>6. \E i \in 0..Len(text) :
            /\ LineOf(text, i) = line
            /\ UnitsOf("utf-16", SubSeq(text, 1 + LineStart(text, LineOf(text, i)), i)) = column
      <4>1. PICK i : i = start + k  OBVIOUS
      <4>2. i \in 0..Len(text) /\ start <= i /\ i <= end  BY <2>2, <2>4, <3>1, <4>1
      <4>3. LineOf(text, i) = line  BY <2>2, <4>2
      <4>4. SubSeq(text, 1 + LineStart(text, LineOf(text, i)), i) = SubSeq(tail, 1, k)
        BY <2>2, <2>5, <3>1, <4>1, <4>3, Zenon
      <4> QED  BY <2>8, <3>1, <4>2, <4>3, <4>4, Zenon
    <3> QED  BY <3>3, <3>4, <3>5, <3>6, Zenon DEF Faithfully
  <2> QED  BY <2>13, <2>14
<1> QED  BY <1>1, <1>2

(* The offset of a position of a document that has text: split_inclusive   *)
(* and what is put back find the lines that split finds.                   *)
OffsetIs(text, line, offset, prefix) ==
  /\ text = <<>> => offset = Invalid
  /\ text # <<>> /\ ~ HasLine(text, line) => offset = Invalid
  /\ text # <<>> /\ HasLine(text, line) =>
       /\ prefix = Invalid => offset = Invalid
       /\ prefix # Invalid => offset = LineStart(text, line) + prefix

LEMMA OffsetOf ==
  ASSUME NEW text \in Seq(Glyphs), NEW line \in Nat, NEW column, NEW encoding
  PROVE  OffsetIs(text, line, OffsetForServer(text, line, column, encoding),
                  PrefixForServer(LineTail(text, line), column, encoding))
<1>1. PICK l \in Nat : l = Len(text)  OBVIOUS
<1>2. PICK c \in Nat : c = Cardinality(LineEnds(text))
  <2>1. PICK c, f : LinesCounted(text, c, f)  BY CountLines
  <2>2. c \in Nat /\ c = Cardinality(LineEnds(text))  BY <1>1, <2>1 DEF LinesCounted
  <2> QED  BY <2>2
<1>3. PICK pieces : pieces = c + (IF text # <<>> /\ Last(text) # LineEnd THEN 1 ELSE 0)
  OBVIOUS
<1>4. PICK p, q, r : /\ p = PrefixForServer(LineTail(text, line), column, encoding)
                     /\ q = PrefixForServer(<<>>, column, encoding)
                     /\ r = OffsetForServer(text, line, column, encoding)
  OBVIOUS
<1> DEFINE tail == text # <<>> /\ Last(text) = LineEnd /\ line = pieces
           k == IF line < pieces THEN p ELSE IF tail THEN q ELSE Invalid
<1>5. r = IF k = Invalid THEN Invalid
          ELSE (IF tail THEN Len(text) ELSE LineStart(text, line)) + k
  BY <1>2, <1>3, <1>4, Zenon DEF OffsetForServer
<1>6. Last(text) = text[Len(text)]  BY DEF Last
<1>7. CASE text = <<>>
  <2>1. c = 0
    <3>1. LineEnds(text) = {}  BY <1>7 DEF LineEnds
    <3> QED  BY <1>2, <3>1, FS_EmptySet
  <2>2. pieces = 0  BY <1>3, <1>7, <2>1
  <2>3. ~ (line < pieces) /\ ~ tail  BY <1>7, <2>2
  <2>4. r = Invalid  BY <1>5, <2>3, Zenon
  <2> QED  BY <1>4, <1>7, <2>4, Zenon DEF OffsetIs
<1>8. CASE text # <<>> /\ Last(text) # LineEnd
  <2>1. pieces = c + 1 /\ ~ tail  BY <1>3, <1>8
  <2>2. line < pieces <=> HasLine(text, line)  BY <1>2, <2>1 DEF HasLine
  <2> QED  BY <1>4, <1>5, <1>8, <2>1, <2>2, Zenon DEF OffsetIs
<1>9. CASE text # <<>> /\ Last(text) = LineEnd
  <2>1. pieces = c  BY <1>3, <1>9
  <2>2. CASE line < c
    <3>1. HasLine(text, line) /\ line < pieces  BY <1>2, <2>1, <2>2 DEF HasLine
    <3>2. ~ tail  BY <1>2, <2>1, <2>2
    <3> QED  BY <1>4, <1>5, <1>9, <3>1, <3>2, Zenon DEF OffsetIs
  <2>3. CASE line = c
    <3>1. HasLine(text, line) /\ ~ (line < pieces)  BY <1>2, <2>1, <2>3 DEF HasLine
    <3>2. tail  BY <1>9, <2>1, <2>3
    <3>3. PICK start, end : LineSpan(text, line, start, end)  BY <3>1, LineSpans
    <3>4. /\ start \in 0..end /\ end \in 0..l /\ LineStart(text, line) = start
          /\ LineTail(text, line) = SubSeq(text, start + 1, end) /\ start = l
      BY <1>1, <1>2, <1>6, <1>9, <2>3, <3>3, Zenon DEF LineSpan
    <3>5. p = q
      <4>1. start = end  BY <1>1, <3>4
      <4>2. PICK t : t = LineTail(text, line)  OBVIOUS
      <4>3. t \in Seq(Glyphs) /\ Len(t) = end - start  BY <3>3, <4>2, TailPlaces, Zenon DEF TailIs
      <4>4. end - start = 0  BY <3>4, <4>1
      <4>5. t = <<>>  BY <4>3, <4>4
      <4> QED  BY <1>4, <4>2, <4>5, Zenon
    <3>6. p = Invalid => r = Invalid  BY <1>5, <3>1, <3>2, <3>5, Zenon
    <3>7. p # Invalid => r = LineStart(text, line) + p
      BY <1>1, <1>5, <3>1, <3>2, <3>4, <3>5, Zenon
    <3> QED  BY <1>4, <1>9, <3>1, <3>6, <3>7, Zenon DEF OffsetIs
  <2>4. CASE ~ (line < c) /\ line # c
    <3>1. ~ HasLine(text, line) /\ ~ (line < pieces) /\ line # pieces
      BY <1>2, <2>1, <2>4 DEF HasLine
    <3>2. r = Invalid  BY <1>5, <3>1, Zenon
    <3> QED  BY <1>4, <1>9, <3>1, <3>2, Zenon DEF OffsetIs
  <2> QED  BY <2>2, <2>3, <2>4
<1> QED  BY <1>7, <1>8, <1>9

(* An offset is a place of the line; both sides refuse alike.              *)
OffsetsAgree(text, line, column, encoding) ==
  LET offset == OffsetForServer(text, line, column, encoding)
  IN  /\ offset # Invalid => offset \in 0..Len(text)
      /\ text # <<>> =>
           /\ (offset = Invalid) = (Utf16FromServer(text, line, column, encoding) = Invalid)
           /\ offset # Invalid => offset \in LineStart(text, line)..Len(text)

LEMMA OffsetsAreAgreed ==
  ASSUME NEW text \in Seq(Glyphs), NEW encoding \in Encodings,
         NEW line \in Nat, NEW column \in Nat
  PROVE  OffsetsAgree(text, line, column, encoding)
<1>1. PICK o, w, k : /\ o = OffsetForServer(text, line, column, encoding)
                     /\ w = Utf16FromServer(text, line, column, encoding)
                     /\ k = PrefixForServer(LineTail(text, line), column, encoding)
  OBVIOUS
<1>0. OffsetIs(text, line, o, k)  BY <1>1, OffsetOf, Zenon
<1>2. CASE text = <<>>
  <2>1. o = Invalid  BY <1>0, <1>2, Zenon DEF OffsetIs
  <2> QED  BY <1>1, <1>2, <2>1, Zenon DEF OffsetsAgree
<1>3. CASE text # <<>> /\ ~ HasLine(text, line)
  <2>1. o = Invalid  BY <1>0, <1>3, Zenon DEF OffsetIs
  <2>2. w = Invalid  BY <1>1, <1>3, Zenon DEF Utf16FromServer
  <2> QED  BY <1>1, <2>1, <2>2 DEF OffsetsAgree
<1>4. CASE text # <<>> /\ HasLine(text, line)
  <2>1. o = IF k = Invalid THEN Invalid ELSE LineStart(text, line) + k
    BY <1>0, <1>4, Zenon DEF OffsetIs
  <2>2. w = IF k = Invalid THEN Invalid
            ELSE UnitsOf("utf-16", SubSeq(LineTail(text, line), 1, k))
    BY <1>1, <1>4, Zenon DEF Utf16FromServer
  <2>3. CASE k = Invalid
    <3>1. o = Invalid /\ w = Invalid  BY <2>1, <2>2, <2>3
    <3> QED  BY <1>1, <3>1 DEF OffsetsAgree
  <2>4. CASE k # Invalid
    <3>1. PICK start, end : LineSpan(text, line, start, end)  BY <1>4, LineSpans
    <3>2. start \in 0..end /\ end \in 0..Len(text) /\ LineStart(text, line) = start
      BY <3>1, Zenon DEF LineSpan
    <3>3. PICK tail : tail = LineTail(text, line)  OBVIOUS
    <3>4. PICK m \in Nat : m = end - start /\ start + m = end  BY <3>2
    <3>5. tail \in Seq(Glyphs) /\ Len(tail) = m
      BY <3>1, <3>3, <3>4, TailPlaces, Zenon DEF TailIs
    <3>6. PICK v : UnitsAlong(v, encoding, tail)  BY <3>5, UnitsRise
    <3>7. PrefixIs(k, v, m, column)  BY <1>1, <3>3, <3>5, <3>6, PrefixOfServer
    <3>8. k \in 0..m  BY <2>4, <3>7, Zenon DEF PrefixIs
    <3>9. o = start + k  BY <2>1, <2>4, <3>2, Zenon
    <3>10. PICK l \in Nat : l = Len(text)  OBVIOUS
    <3>11. o \in start..l /\ o \in 0..l /\ o \in Nat  BY <3>2, <3>4, <3>8, <3>9, <3>10
    <3>12. o # Invalid  BY <3>11, LspEditsAssumption
    <3>13. w # Invalid
      <4>1. PICK u : UnitsAlong(u, "utf-16", tail)
        <5>1. "utf-16" \in Encodings  BY DEF Encodings
        <5> QED  BY <3>5, <5>1, UnitsRise
      <4>2. u \in [0..m -> Nat] /\ w = u[k]
        BY <2>2, <2>4, <3>3, <3>5, <3>8, <4>1, Zenon DEF UnitsAlong
      <4>3. w \in Nat  BY <3>8, <4>2
      <4> QED  BY <4>3, LspEditsAssumption
    <3> QED  BY <1>1, <3>2, <3>10, <3>11, <3>12, <3>13, Zenon DEF OffsetsAgree
  <2> QED  BY <2>3, <2>4
<1> QED  BY <1>2, <1>3, <1>4

-----------------------------------------------------------------------------
(* The invariant: what is resolved are ranges of the document, and the     *)
(* last conversion is faithful.                                            *)
EditsOf(text) ==
  {r \in [from : Nat, to : Nat, text : Seq(Nat)] : r.from <= r.to /\ r.to <= Len(text)}

LspEditsInv ==
  /\ document \in [text : Documents, encoding : Encodings]
  /\ ranges \in Seq(EditsOf(document.text))
  /\ converted # Invalid =>
       /\ <<converted.line, converted.column>> \in Positions
       /\ Faithfully(document.text, document.encoding, converted.line, converted.column,
                     converted.server, converted.back)

LEMMA DocumentsAreTexts ==
  ASSUME document \in [text : Documents, encoding : Encodings]
  PROVE  document.text \in Seq(Glyphs) /\ document.encoding \in Encodings
<1>1. document.text \in Documents /\ document.encoding \in Encodings  OBVIOUS
<1> QED  BY <1>1, LspEditsAssumption

LEMMA PositionsAreNumbers ==
  ASSUME NEW p \in Positions
  PROVE  p[1] \in Nat /\ p[2] \in Nat
<1>1. p[1] \in 0..MaxLine /\ p[2] \in 0..MaxColumn  BY DEF Positions
<1> QED  BY <1>1, LspEditsAssumption

LEMMA LspEditsInvInit ==
  ASSUME LspEditsInit
  PROVE  LspEditsInv
<1>1. document \in [text : Documents, encoding : Encodings] /\ converted = Invalid /\ ranges = <<>>
  BY Zenon DEF LspEditsInit
<1>2. ranges \in Seq(EditsOf(document.text))  BY <1>1
<1> QED  BY <1>1, <1>2, Zenon DEF LspEditsInv

LEMMA ConvertInv ==
  ASSUME LspEditsInv, NEW p \in Positions, Convert(p[1], p[2])
  PROVE  LspEditsInv'
<1>1. p[1] \in Nat /\ p[2] \in Nat  BY PositionsAreNumbers
<1>2. /\ document' = document /\ ranges' = ranges
      /\ document \in [text : Documents, encoding : Encodings]
      /\ ranges \in Seq(EditsOf(document.text))
  BY Zenon DEF Convert, LspEditsInv
<1>3. PICK text, encoding, line, column :
        text = document.text /\ encoding = document.encoding /\ line = p[1] /\ column = p[2]
  OBVIOUS
<1>4. /\ text \in Seq(Glyphs) /\ encoding \in Encodings /\ line \in Nat /\ column \in Nat
  BY <1>1, <1>2, <1>3, DocumentsAreTexts, Zenon
<1>5. PICK server, back :
        /\ server = ServerFromUtf16(text, line, column, encoding)
        /\ back = IF server = Invalid THEN Invalid
                  ELSE Utf16FromServer(text, line, server, encoding)
  OBVIOUS
<1>6. converted' = [line |-> line, column |-> column, server |-> server, back |-> back]
  BY <1>3, <1>5, Zenon DEF Convert
<1>7. Faithfully(text, encoding, line, column, server, back)
  BY <1>4, <1>5, ConvertsFaithfully
<1>8. /\ converted'.line = line /\ converted'.column = column
      /\ converted'.server = server /\ converted'.back = back
  BY <1>6
<1>9. <<line, column>> \in Positions
  <2>1. line \in 0..MaxLine /\ column \in 0..MaxColumn  BY <1>3 DEF Positions
  <2> QED  BY <2>1 DEF Positions
<1>10. document'.text = text /\ document'.encoding = encoding  BY <1>2, <1>3, Zenon
<1>11. Faithfully(document'.text, document'.encoding, converted'.line, converted'.column,
                  converted'.server, converted'.back)
  BY <1>7, <1>8, <1>10, Zenon
<1>12. <<converted'.line, converted'.column>> \in Positions  BY <1>8, <1>9, Zenon
<1>13. ranges' \in Seq(EditsOf(document'.text))  BY <1>2, Zenon
<1> QED  BY <1>2, <1>11, <1>12, <1>13, Zenon DEF LspEditsInv

LEMMA ResolveEditInv ==
  ASSUME LspEditsInv, NEW p \in Positions, NEW q \in Positions, NEW text \in Seq(Nat),
         ResolveEdit(p, q, text)
  PROVE  LspEditsInv'
<1>1. p[1] \in Nat /\ p[2] \in Nat /\ q[1] \in Nat /\ q[2] \in Nat  BY PositionsAreNumbers
<1>2. /\ document' = document /\ converted' = Invalid
      /\ document \in [text : Documents, encoding : Encodings]
      /\ ranges \in Seq(EditsOf(document.text))
  BY Zenon DEF ResolveEdit, LspEditsInv
<1>3. PICK all, encoding : all = document.text /\ encoding = document.encoding  OBVIOUS
<1>4. all \in Seq(Glyphs) /\ encoding \in Encodings  BY <1>2, <1>3, DocumentsAreTexts, Zenon
<1>5. PICK start, end : /\ start = OffsetForServer(all, p[1], p[2], encoding)
                        /\ end = OffsetForServer(all, q[1], q[2], encoding)
  OBVIOUS
<1>6. IF start = Invalid \/ end = Invalid \/ end < start
      THEN compiled' = Invalid /\ ranges' = <<>>
      ELSE /\ compiled' = compiled
           /\ ranges' = Append(ranges, [from |-> start, to |-> end, text |-> text])
  BY <1>3, <1>5, Zenon DEF ResolveEdit
<1>7. ranges' \in Seq(EditsOf(all))
  <2>1. CASE start = Invalid \/ end = Invalid \/ end < start
    <3>1. ranges' = <<>>  BY <1>6, <2>1, Zenon
    <3> QED  BY <3>1
  <2>2. CASE ~ (start = Invalid \/ end = Invalid \/ end < start)
    <3>1. start \in 0..Len(all) /\ end \in 0..Len(all)
      <4>1. OffsetsAgree(all, p[1], p[2], encoding) /\ OffsetsAgree(all, q[1], q[2], encoding)
        BY <1>1, <1>4, OffsetsAreAgreed
      <4> QED  BY <1>5, <2>2, <4>1, Zenon DEF OffsetsAgree
    <3>2. PICK l \in Nat : l = Len(all)  BY <1>4
    <3>3. start \in Nat /\ end \in Nat /\ start <= end /\ end <= l  BY <2>2, <3>1, <3>2
    <3>4. [from |-> start, to |-> end, text |-> text] \in EditsOf(all)
      BY <3>2, <3>3 DEF EditsOf
    <3>5. PICK r \in EditsOf(all) : r = [from |-> start, to |-> end, text |-> text]  BY <3>4
    <3>6. ranges' = Append(ranges, r)  BY <1>6, <2>2, <3>5, Zenon
    <3>7. ranges \in Seq(EditsOf(all))  BY <1>2, <1>3, Zenon
    <3> HIDE DEF EditsOf
    <3> QED  BY <3>6, <3>7
  <2> QED  BY <2>1, <2>2
<1>8. ranges' \in Seq(EditsOf(document'.text))  BY <1>2, <1>3, <1>7, Zenon
<1> QED  BY <1>2, <1>8, Zenon DEF LspEditsInv

LEMMA LspEditsInvNext ==
  ASSUME LspEditsInv, [LspEditsNext]_lspEditVars
  PROVE  LspEditsInv'
<1>1. CASE \E p \in Positions : Convert(p[1], p[2])  BY <1>1, ConvertInv
<1>2. CASE \E p, q \in Positions, t \in {<<>>, <<Len(ranges) + 1>>} : ResolveEdit(p, q, t)
  <2>1. PICK p \in Positions, q \in Positions, t \in {<<>>, <<Len(ranges) + 1>>} :
          ResolveEdit(p, q, t)
    BY <1>2
  <2>2. t \in Seq(Nat)
    <3>1. ranges \in Seq(EditsOf(document.text))  BY DEF LspEditsInv
    <3>2. PICK n \in Nat : n = Len(ranges) + 1  BY <3>1
    <3>3. t = <<>> \/ t = <<n>>  BY <2>1, <3>2
    <3>4. <<>> \in Seq(Nat) /\ <<n>> \in Seq(Nat)  OBVIOUS
    <3> QED  BY <3>3, <3>4, Zenon
  <2> QED  BY <2>1, <2>2, ResolveEditInv
<1>3. CASE Compile
  <2>1. document' = document /\ ranges' = ranges /\ converted' = Invalid
    BY <1>3, Zenon DEF Compile
  <2> QED  BY <2>1, Zenon DEF LspEditsInv
<1>4. CASE UNCHANGED lspEditVars
  <2>1. document' = document /\ ranges' = ranges /\ converted' = converted
    BY <1>4 DEF lspEditVars
  <2> QED  BY <2>1, Zenon DEF LspEditsInv
<1> QED  BY <1>1, <1>2, <1>3, <1>4, Zenon DEF LspEditsNext

(* It implies what is said of positions.                                   *)
LEMMA InvIsFaithful ==
  ASSUME LspEditsInv
  PROVE  PositionsFaithful
<1>1. PICK text, encoding : text = document.text /\ encoding = document.encoding  OBVIOUS
<1>2. /\ document \in [text : Documents, encoding : Encodings]
      /\ ranges \in Seq(EditsOf(text))
      /\ converted # Invalid =>
           /\ <<converted.line, converted.column>> \in Positions
           /\ Faithfully(text, encoding, converted.line, converted.column,
                         converted.server, converted.back)
  BY <1>1, Zenon DEF LspEditsInv
<1>3. text \in Seq(Glyphs) /\ encoding \in Encodings  BY <1>1, <1>2, DocumentsAreTexts, Zenon
<1>4. LspEditsTypeOK
  <2>1. ASSUME NEW k \in DOMAIN ranges
        PROVE  ranges[k].from \in 0..ranges[k].to /\ ranges[k].to \in 0..Len(document.text)
    <3>1. PICK r \in EditsOf(text) : r = ranges[k]  BY <1>2
    <3>2. PICK l \in Nat : l = Len(text)  BY <1>3
    <3>3. r.from \in Nat /\ r.to \in Nat /\ r.from <= r.to /\ r.to <= l
      BY <3>1, <3>2 DEF EditsOf
    <3>4. r.from \in 0..r.to /\ r.to \in 0..l  BY <3>3
    <3> QED  BY <1>1, <3>1, <3>2, <3>4, Zenon
  <2> QED  BY <1>2, <2>1, Zenon DEF LspEditsTypeOK
<1>5. ConversionFaithful
  <2> SUFFICES ASSUME converted # Invalid PROVE ConversionFaithful
    BY Zenon DEF ConversionFaithful
  <2>1. PICK line, column, server, back :
          /\ line = converted.line /\ column = converted.column
          /\ server = converted.server /\ back = converted.back
    OBVIOUS
  <2>2. Faithfully(text, encoding, line, column, server, back)  BY <1>2, <2>1, Zenon
  <2> DEFINE before(i) == SubSeq(text, 1 + LineStart(text, LineOf(text, i)), i)
             At(i) == [line |-> LineOf(text, i), before |-> before(i)]
             places == {At(i) : i \in {j \in 0..Len(text) :
                                         /\ At(j).line = line
                                         /\ UnitsOf("utf-16", At(j).before) = column}}
  <2>3. \A i : At(i).line = LineOf(text, i) /\ At(i).before = before(i)  OBVIOUS
  <2>4. CASE server = Invalid
    <3>1. places = {}
      <4>1. ASSUME NEW i \in 0..Len(text), At(i).line = line,
                   UnitsOf("utf-16", At(i).before) = column
            PROVE  FALSE
        <5>1. LineOf(text, i) = line /\ UnitsOf("utf-16", before(i)) = column
          BY <2>3, <4>1, Zenon
        <5> QED  BY <2>2, <2>4, <5>1, Zenon DEF Faithfully
      <4> HIDE DEF At
      <4> QED  BY <4>1
    <3> QED  BY <1>1, <2>1, <2>4, <3>1, Zenon DEF ConversionFaithful, LineOf
  <2>5. CASE server # Invalid
    <3>1. places # {}
      <4>1. PICK i \in 0..Len(text) :
              LineOf(text, i) = line /\ UnitsOf("utf-16", before(i)) = column
        BY <2>2, <2>5, Zenon DEF Faithfully
      <4>2. At(i).line = line /\ UnitsOf("utf-16", At(i).before) = column
        BY <2>3, <4>1, Zenon
      <4> HIDE DEF At
      <4> QED  BY <4>2
    <3>2. ASSUME NEW p \in places
          PROVE  server = UnitsOf(encoding, p.before) /\ back = column
      <4>1. PICK i \in 0..Len(text) :
              /\ p = At(i) /\ At(i).line = line /\ UnitsOf("utf-16", At(i).before) = column
        <5> HIDE DEF At
        <5> QED  BY <3>2
      <4>2. LineOf(text, i) = line /\ UnitsOf("utf-16", before(i)) = column
        BY <2>3, <4>1, Zenon
      <4>3. server = UnitsOf(encoding, before(i)) /\ back = column
        BY <2>2, <2>5, <4>2, Zenon DEF Faithfully
      <4>4. p.before = before(i)  BY <2>3, <4>1, Zenon
      <4> QED  BY <4>3, <4>4, Zenon
    <3> QED  BY <1>1, <2>1, <2>5, <3>1, <3>2, Zenon DEF ConversionFaithful, LineOf
  <2> QED  BY <2>4, <2>5
<1>6. PlacesAgree
  <2> SUFFICES ASSUME text # <<>>, NEW p \in Positions
               PROVE  LET offset == OffsetForServer(text, p[1], p[2], encoding)
                      IN  /\ (offset = Invalid)
                               = (Utf16FromServer(text, p[1], p[2], encoding) = Invalid)
                          /\ offset # Invalid =>
                               offset \in LineStart(text, p[1])..Len(text)
    BY <1>1, Zenon DEF PlacesAgree
  <2>1. OffsetsAgree(text, p[1], p[2], encoding)
    BY <1>3, PositionsAreNumbers, OffsetsAreAgreed
  <2> QED  BY <2>1, Zenon DEF OffsetsAgree
<1> QED  BY <1>4, <1>5, <1>6, Zenon DEF PositionsFaithful

(* A column means the same place on both sides of the protocol: a position *)
(* converted for a server is the place that was asked about, comes back as *)
(* it was, and is refused where no character starts; edits and locations   *)
(* read a server's positions alike (src/intelligence/position.rs).         *)
THEOREM PositionsAreFaithful == LspEditsSpec => []PositionsFaithful
<1>1. LspEditsInit => LspEditsInv  BY LspEditsInvInit
<1>2. LspEditsInv /\ [LspEditsNext]_lspEditVars => LspEditsInv'  BY LspEditsInvNext
<1>3. LspEditsInv => PositionsFaithful  BY InvIsFaithful
<1> QED  BY <1>1, <1>2, <1>3, PTL DEF LspEditsSpec

-----------------------------------------------------------------------------
(* Edits one after the other and all at once.  The array is applied from   *)
(* the back; the text after some of the edits K is the pieces that making  *)
(* just these at once gives: after each place of the text what is new      *)
(* there, then its next character unless an edit of K covers it.           *)

Characters == Glyphs \union Nat

NewIn(K, edits, i) ==
  [k \in DOMAIN edits |-> IF k \in K /\ edits[k].from = i THEN edits[k].text ELSE <<>>]
CoveredIn(K, edits, i) == \E k \in K : edits[k].from < i /\ i <= edits[k].to
KeptIn(K, edits, text, i) ==
  IF i < Len(text) /\ ~ CoveredIn(K, edits, i + 1) THEN <<text[i + 1]>> ELSE <<>>
PiecesIn(K, edits, text) ==
  [k \in 1..(Len(text) + 1) |->
     FlattenSeq(NewIn(K, edits, k - 1)) \o KeptIn(K, edits, text, k - 1)]

(* An edit that was resolved for the text.                                 *)
LEMMA EditTyped ==
  ASSUME NEW text \in Seq(Glyphs), NEW edits \in Seq(EditsOf(text)), NEW k \in DOMAIN edits
  PROVE  /\ edits[k].from \in Nat /\ edits[k].to \in Nat /\ edits[k].text \in Seq(Characters)
         /\ edits[k].from <= edits[k].to /\ edits[k].to <= Len(text)
<1>1. PICK r \in EditsOf(text) : r = edits[k]  OBVIOUS
<1>2. /\ r.from \in Nat /\ r.to \in Nat /\ r.text \in Seq(Nat)
      /\ r.from <= r.to /\ r.to <= Len(text)
  BY DEF EditsOf
<1>3. r.text \in Seq(Characters)
  <2>1. Nat \subseteq Characters  BY DEF Characters
  <2>2. PICK t \in Seq(Nat) : t = r.text  BY <1>2
  <2>3. PICK C : C = Characters  OBVIOUS
  <2>4. t \in Seq(C)  BY <2>1, <2>2, <2>3
  <2> QED  BY <2>2, <2>3, <2>4, Zenon
<1> QED  BY <1>1, <1>2, <1>3, Zenon

(* What is new at a place, a text for each edit.                           *)
LEMMA NewTyped ==
  ASSUME NEW text \in Seq(Glyphs), NEW edits \in Seq(EditsOf(text)), NEW K, NEW i
  PROVE  Pieces(NewIn(K, edits, i), Len(edits), Characters)
<1>1. PICK n \in Nat : n = Len(edits) /\ DOMAIN edits = 1..n  OBVIOUS
<1>2. PICK C : C = Seq(Characters)  OBVIOUS
<1>3. <<>> \in C  BY <1>2
<1>4. \A k \in 1..n : edits[k].text \in C  BY <1>1, <1>2, EditTyped, Zenon
<1>5. PICK new : new = NewIn(K, edits, i)  OBVIOUS
<1>6. new = [k \in 1..n |-> IF k \in K /\ edits[k].from = i THEN edits[k].text ELSE <<>>]
  BY <1>1, <1>5, Zenon DEF NewIn
<1>7. new \in [1..n -> C]
  <2>1. \A k \in 1..n : (IF k \in K /\ edits[k].from = i THEN edits[k].text ELSE <<>>) \in C
    BY <1>3, <1>4, Zenon
  <2> QED  BY <1>6, <2>1, Zenon
<1>8. new \in Seq(C) /\ Len(new) = n  BY <1>7
<1> QED  BY <1>1, <1>2, <1>5, <1>8, Zenon DEF Pieces

(* No edit starts there.                                                   *)
LEMMA NewNone ==
  ASSUME NEW text \in Seq(Glyphs), NEW edits \in Seq(EditsOf(text)), NEW K, NEW i,
         \A k \in DOMAIN edits : k \in K => edits[k].from # i
  PROVE  FlattenSeq(NewIn(K, edits, i)) = <<>>
<1>1. PICK n \in Nat : n = Len(edits) /\ DOMAIN edits = 1..n  OBVIOUS
<1>2. PICK new : new = NewIn(K, edits, i)  OBVIOUS
<1>3. Pieces(new, n, Characters)  BY <1>1, <1>2, NewTyped
<1>4. PICK f : JoinsPieces(f, n, Characters, new) /\ FlattenSeq(new) = f[n]
  BY <1>3, FlattenJoins
<1>5. \A k \in 1..n : new[k] = <<>>  BY <1>1, <1>2 DEF NewIn
<1>6. 0 \in 0..n /\ n \in 0..n  OBVIOUS
<1>7. f[n] = f[0]
  <2>1. Silent(new, n, 0, n)  BY <1>5, Zenon DEF Silent
  <2> QED  BY <1>4, <1>6, <2>1, JoinsNothing
<1> QED  BY <1>2, <1>4, <1>7, Zenon DEF JoinsPieces

(* One more edit that starts elsewhere.                                    *)
LEMMA NewSame ==
  ASSUME NEW K, NEW edits, NEW e, NEW i, edits[e].from # i
  PROVE  NewIn(K \union {e}, edits, i) = NewIn(K, edits, i)
<1>1. ASSUME NEW k \in DOMAIN edits
      PROVE  (k \in K \union {e} /\ edits[k].from = i) <=> (k \in K /\ edits[k].from = i)
  OBVIOUS
<1>2. ASSUME NEW k \in DOMAIN edits
      PROVE  (IF k \in K \union {e} /\ edits[k].from = i THEN edits[k].text ELSE <<>>)
               = (IF k \in K /\ edits[k].from = i THEN edits[k].text ELSE <<>>)
  BY <1>1, Zenon
<1> QED  BY <1>2, Zenon DEF NewIn

(* One more that starts there, before the others in the array.             *)
NewAdds(K, e, edits, i) ==
  FlattenSeq(NewIn(K \union {e}, edits, i)) = edits[e].text \o FlattenSeq(NewIn(K, edits, i))

LEMMA NewFirst ==
  ASSUME NEW text \in Seq(Glyphs), NEW edits \in Seq(EditsOf(text)), NEW K, NEW i,
         NEW e \in DOMAIN edits, e \notin K, edits[e].from = i,
         \A k \in DOMAIN edits : k \in K /\ edits[k].from = i => e < k
  PROVE  NewAdds(K, e, edits, i)
<1>1. PICK n \in Nat : n = Len(edits) /\ DOMAIN edits = 1..n  OBVIOUS
<1>2. PICK a, b : a = NewIn(K \union {e}, edits, i) /\ b = NewIn(K, edits, i)  OBVIOUS
<1>3. Pieces(a, n, Characters) /\ Pieces(b, n, Characters)  BY <1>1, <1>2, NewTyped
<1>4. PICK f : JoinsPieces(f, n, Characters, a) /\ FlattenSeq(a) = f[n]
  BY <1>3, FlattenJoins
<1>5. PICK g : JoinsPieces(g, n, Characters, b) /\ FlattenSeq(b) = g[n]
  BY <1>3, FlattenJoins
<1>6. PICK x \in Seq(Characters) : x = edits[e].text  BY EditTyped
<1>7. \A k \in 1..n :
        /\ a[k] = IF k \in K \union {e} /\ edits[k].from = i THEN edits[k].text ELSE <<>>
        /\ b[k] = IF k \in K /\ edits[k].from = i THEN edits[k].text ELSE <<>>
  BY <1>1, <1>2, Zenon DEF NewIn
<1>8. e \in 1..n /\ e - 1 \in 0..n /\ e \in 0..n /\ 0 \in 0..n /\ n \in Nat  BY <1>1
<1>9. \A k \in 1..n : k <= e /\ k # e => a[k] = <<>> /\ b[k] = <<>>
  <2>1. ASSUME NEW k \in 1..n, k <= e, k # e PROVE a[k] = <<>> /\ b[k] = <<>>
    <3>1. ~ (e < k) /\ k \notin {e}  BY <1>8, <2>1
    <3> QED  BY <1>1, <1>7, <3>1
  <2> QED  BY <2>1
<1>10. a[e] = x /\ b[e] = <<>>  BY <1>6, <1>7, <1>8
<1>11. \A k \in 1..n : e < k => b[k] = a[k]
  <2>1. \A k \in 1..n : e < k => k \notin {e}  BY <1>8
  <2> QED  BY <1>7, <2>1, Zenon
<1>12. f[e - 1] = <<>> /\ g[e - 1] = <<>>
  <2>1. PICK o, d : o = 0 /\ d = e - 1  OBVIOUS
  <2>4. /\ o \in 0..n /\ d \in o..n
        /\ \A k \in 1..n : o < k /\ k <= d => k <= e /\ k # e
    BY <1>8, <2>1
  <2>2. f[d] = f[o]
    <3>1. Silent(a, n, o, d)  BY <1>9, <2>4, Zenon DEF Silent
    <3> QED  BY <1>4, <2>4, <3>1, JoinsNothing
  <2>3. g[d] = g[o]
    <3>1. Silent(b, n, o, d)  BY <1>9, <2>4, Zenon DEF Silent
    <3> QED  BY <1>5, <2>4, <3>1, JoinsNothing
  <2> QED  BY <1>4, <1>5, <2>1, <2>2, <2>3, Zenon DEF JoinsPieces
<1>13. PICK z : z = <<>>  OBVIOUS
<1>14. z \in Seq(Characters) /\ x \o z = x /\ z \o x = x /\ z \o z = z
       /\ \A s \in Seq(Characters) : z \o s = s
  BY <1>13, ConcatEmptySeq
<1>15. SameAfter(f, g, x, z, z, e)
  <2>1. f[e] = f[e - 1] \o a[e] /\ g[e] = g[e - 1] \o b[e]
    BY <1>4, <1>5, <1>8, Zenon DEF JoinsPieces
  <2>2. f[e] = z \o x /\ g[e] = z \o z  BY <1>10, <1>12, <1>13, <2>1, Zenon
  <2> QED  BY <1>14, <2>2, Zenon DEF SameAfter
<1>16. PICK r \in Seq(Characters) : SameAfter(f, g, x, z, r, n)
  <2>1. z \in Seq(Characters)  BY <1>14, Zenon
  <2> QED  BY <1>3, <1>4, <1>5, <1>8, <1>11, <1>15, <2>1, JoinsAlike
<1>17. f[n] = x \o r /\ g[n] = r  BY <1>14, <1>16, Zenon DEF SameAfter
<1> QED  BY <1>2, <1>4, <1>5, <1>6, <1>17, Zenon DEF NewAdds

LEMMA PiecesTyped ==
  ASSUME NEW text \in Seq(Glyphs), NEW edits \in Seq(EditsOf(text)), NEW K
  PROVE  Pieces(PiecesIn(K, edits, text), Len(text) + 1, Characters)
<1>1. PICK l \in Nat : l = Len(text)  OBVIOUS
<1>2. PICK C : C = Characters  OBVIOUS
<1>3. Glyphs \subseteq C  BY <1>2 DEF Characters
<1>4. ASSUME NEW i \in 0..l PROVE KeptIn(K, edits, text, i) \in Seq(C)
  <2>1. CASE i < l /\ ~ CoveredIn(K, edits, i + 1)
    <3>1. i + 1 \in 1..l  BY <1>1, <2>1
    <3>2. PICK c \in C : c = text[i + 1]  BY <1>1, <1>3, <3>1
    <3>3. KeptIn(K, edits, text, i) = <<c>>  BY <1>1, <2>1, <3>2, Zenon DEF KeptIn
    <3>4. <<c>> \in Seq(C)  OBVIOUS
    <3> QED  BY <3>3, <3>4, Zenon
  <2>2. CASE ~ (i < l /\ ~ CoveredIn(K, edits, i + 1))
    <3>1. KeptIn(K, edits, text, i) = <<>>  BY <1>1, <2>2, Zenon DEF KeptIn
    <3>2. <<>> \in Seq(C)  OBVIOUS
    <3> QED  BY <3>1, <3>2, Zenon
  <2> QED  BY <2>1, <2>2
<1>5. ASSUME NEW i PROVE FlattenSeq(NewIn(K, edits, i)) \in Seq(C)
  <2>1. PICK n \in Nat : n = Len(edits)  OBVIOUS
  <2>2. Pieces(NewIn(K, edits, i), n, Characters)  BY <2>1, NewTyped
  <2>3. PICK f : JoinsPieces(f, n, Characters, NewIn(K, edits, i))
                 /\ FlattenSeq(NewIn(K, edits, i)) = f[n]
    BY <2>2, FlattenJoins
  <2>4. f \in [0..n -> Seq(Characters)]  BY <2>3, Zenon DEF JoinsPieces
  <2>5. f[n] \in Seq(Characters)  BY <2>4
  <2> QED  BY <1>2, <2>3, <2>5, Zenon
<1>6. \A k \in 1..l + 1 :
        FlattenSeq(NewIn(K, edits, k - 1)) \o KeptIn(K, edits, text, k - 1) \in Seq(C)
  <2>1. ASSUME NEW k \in 1..l + 1
        PROVE  FlattenSeq(NewIn(K, edits, k - 1)) \o KeptIn(K, edits, text, k - 1) \in Seq(C)
    <3>1. k - 1 \in 0..l  OBVIOUS
    <3>2. PICK s \in Seq(C), t \in Seq(C) :
            s = FlattenSeq(NewIn(K, edits, k - 1)) /\ t = KeptIn(K, edits, text, k - 1)
      BY <1>4, <1>5, <3>1
    <3>3. s \o t \in Seq(C)  OBVIOUS
    <3> QED  BY <3>2, <3>3, Zenon
  <2> QED  BY <2>1
<1>7. PICK D, p : D = Seq(C) /\ p = PiecesIn(K, edits, text)  OBVIOUS
<1>8. p \in [1..l + 1 -> D]  BY <1>1, <1>6, <1>7, Zenon DEF PiecesIn
<1>9. p \in Seq(D) /\ Len(p) = l + 1  BY <1>8
<1> QED  BY <1>1, <1>2, <1>7, <1>9, Zenon DEF Pieces

(* Before every edit a piece is its character.                             *)
LEMMA PlainPieces ==
  ASSUME NEW text \in Seq(Glyphs), NEW edits \in Seq(EditsOf(text)),
         NEW K \in SUBSET DOMAIN edits, NEW t \in 0..Len(text), \A k \in K : t <= edits[k].from,
         NEW p \in 1..t
  PROVE  PiecesIn(K, edits, text)[p] = <<text[p]>>
<1>1. PICK l \in Nat, i \in Nat : l = Len(text) /\ i = p - 1  OBVIOUS
<1>2. p \in 1..l + 1 /\ i < l /\ i + 1 = p /\ i < t /\ p <= t /\ p \in 1..l  BY <1>1
<1>3. \A k \in K : edits[k].from # i /\ ~ (edits[k].from < p)
  <2>1. ASSUME NEW k \in K PROVE edits[k].from # i /\ ~ (edits[k].from < p)
    <3>1. PICK m \in Nat : m = edits[k].from  BY EditTyped
    <3>2. t <= m  BY <3>1
    <3>3. m # i /\ ~ (m < p)  BY <1>2, <3>2
    <3> QED  BY <3>1, <3>3, Zenon
  <2> QED  BY <2>1
<1>4. FlattenSeq(NewIn(K, edits, i)) = <<>>
  <2>1. \A k \in DOMAIN edits : k \in K => edits[k].from # i  BY <1>3, Zenon
  <2> QED  BY <2>1, NewNone
<1>5. KeptIn(K, edits, text, i) = <<text[p]>>
  <2>1. ~ CoveredIn(K, edits, i + 1)  BY <1>2, <1>3, Zenon DEF CoveredIn
  <2> QED  BY <1>1, <1>2, <2>1, Zenon DEF KeptIn
<1>6. PiecesIn(K, edits, text)[p] = <<>> \o <<text[p]>>
  <2>1. PiecesIn(K, edits, text)[p]
          = FlattenSeq(NewIn(K, edits, p - 1)) \o KeptIn(K, edits, text, p - 1)
    BY <1>1, <1>2, Zenon DEF PiecesIn
  <2> QED  BY <1>1, <1>4, <1>5, <2>1, Zenon
<1>7. PICK c \in Seq(Glyphs) : c = <<text[p]>>
  <2>1. PICK d \in Glyphs : d = text[p]  BY <1>1, <1>2
  <2>2. <<d>> \in Seq(Glyphs)  OBVIOUS
  <2> QED  BY <2>1, <2>2, Zenon
<1>8. <<>> \o c = c  BY ConcatEmptySeq
<1> QED  BY <1>6, <1>7, <1>8, Zenon

(* One more edit, before the others.                                       *)
Before(e, K, edits) ==
  /\ e \in DOMAIN edits /\ K \subseteq DOMAIN edits /\ e \notin K
  /\ \A k \in K : /\ edits[e].to <= edits[k].from
                  /\ edits[k].from = edits[e].from => e < k

(* The pieces with it: what differs is between its start and its end.      *)
PieceStays(text, edits, e, K, p) ==
  PiecesIn(K \union {e}, edits, text)[p] = PiecesIn(K, edits, text)[p]

LEMMA PiecesBeyond ==
  ASSUME NEW text \in Seq(Glyphs), NEW edits \in Seq(EditsOf(text)), NEW e, NEW K,
         Before(e, K, edits), NEW p \in 1..Len(text) + 1,
         edits[e].to < p, edits[e].from # p - 1
  PROVE  PieceStays(text, edits, e, K, p)
<1>1. e \in DOMAIN edits  BY DEF Before
<1>2. PICK i \in Nat : i = p - 1 /\ i + 1 = p  OBVIOUS
<1>3. NewIn(K \union {e}, edits, i) = NewIn(K, edits, i)  BY <1>2, NewSame
<1>4. CoveredIn(K \union {e}, edits, i + 1) <=> CoveredIn(K, edits, i + 1)
  <2>1. PICK m \in Nat : m = edits[e].to  BY <1>1, EditTyped
  <2>2. ~ (p <= m)  BY <2>1
  <2> QED  BY <1>2, <2>1, <2>2 DEF CoveredIn
<1>5. KeptIn(K \union {e}, edits, text, i) = KeptIn(K, edits, text, i)
  BY <1>4, Zenon DEF KeptIn
<1> QED  BY <1>2, <1>3, <1>5, Zenon DEF PiecesIn, PieceStays

(* Nothing is left of what it covers behind its first place.               *)
LEMMA PiecesWithin ==
  ASSUME NEW text \in Seq(Glyphs), NEW edits \in Seq(EditsOf(text)), NEW e, NEW K,
         Before(e, K, edits), NEW p \in 1..Len(text) + 1,
         edits[e].from + 1 < p, p <= edits[e].to
  PROVE  PiecesIn(K \union {e}, edits, text)[p] = <<>>
<1>1. e \in DOMAIN edits /\ K \subseteq DOMAIN edits  BY DEF Before
<1>2. PICK i \in Nat : i = p - 1 /\ i + 1 = p  OBVIOUS
<1>3. PICK a \in Nat, b \in Nat : a = edits[e].from /\ b = edits[e].to  BY <1>1, EditTyped
<1>4. a # i /\ a < p /\ p <= b /\ i < b  BY <1>2, <1>3
<1>5. \A k \in DOMAIN edits : k \in K \union {e} => edits[k].from # i
  <2>1. ASSUME NEW k \in K PROVE edits[k].from # i
    <3>1. PICK m \in Nat : m = edits[k].from  BY <1>1, EditTyped
    <3>2. b <= m  BY <1>3, <3>1 DEF Before
    <3>3. m # i  BY <1>4, <3>2
    <3> QED  BY <3>1, <3>3
  <2> QED  BY <1>3, <1>4, <2>1
<1>6. FlattenSeq(NewIn(K \union {e}, edits, i)) = <<>>  BY <1>5, NewNone
<1>7. CoveredIn(K \union {e}, edits, i + 1)
  <2>1. e \in K \union {e}  OBVIOUS
  <2> QED  BY <1>2, <1>3, <1>4, <2>1, Zenon DEF CoveredIn
<1>8. KeptIn(K \union {e}, edits, text, i) = <<>>  BY <1>7, Zenon DEF KeptIn
<1>9. PiecesIn(K \union {e}, edits, text)[p] = <<>> \o <<>>
  BY <1>2, <1>6, <1>8, Zenon DEF PiecesIn
<1>10. <<>> \o <<>> = <<>>
  <2>1. <<>> \in Seq(Nat)  OBVIOUS
  <2>2. \A s \in Seq(Nat) : s \o <<>> = s  BY ConcatEmptySeq
  <2> QED  BY <2>1, <2>2, Zenon
<1> QED  BY <1>9, <1>10, Zenon

PieceAdds(text, edits, e, K, i) ==
  PiecesIn(K \union {e}, edits, text)[i + 1]
    = (edits[e].text \o FlattenSeq(NewIn(K, edits, i))) \o KeptIn(K \union {e}, edits, text, i)

LEMMA PieceAt ==
  ASSUME NEW text \in Seq(Glyphs), NEW edits \in Seq(EditsOf(text)), NEW e, NEW K,
         Before(e, K, edits), NEW i, i = edits[e].from
  PROVE  PieceAdds(text, edits, e, K, i)
<1>1. e \in DOMAIN edits /\ K \subseteq DOMAIN edits /\ e \notin K  BY DEF Before
<1>2. i \in Nat /\ i + 1 \in 1..Len(text) + 1 /\ (i + 1) - 1 = i
  <2>1. PICK a \in Nat, b \in Nat, l \in Nat :
          a = edits[e].from /\ b = edits[e].to /\ l = Len(text) /\ a <= b /\ b <= l
    BY <1>1, EditTyped
  <2>4. a <= b /\ b <= l  BY <2>1, Zenon
  <2>2. a + 1 \in 1..l + 1 /\ (a + 1) - 1 = a  BY <2>4
  <2>3. i = a /\ l = Len(text)  BY <2>1, Zenon
  <2> QED  BY <2>2, <2>3, Zenon
<1>3. \A k \in DOMAIN edits : k \in K /\ edits[k].from = i => e < k  BY DEF Before
<1>4. NewAdds(K, e, edits, i)  BY <1>1, <1>3, NewFirst
<1> QED  BY <1>2, <1>4, Zenon DEF PiecesIn, NewAdds, PieceAdds

(* An edit made on a text.                                                 *)
EditMade(t, r) == SubSeq(t, 1, r.from) \o r.text \o SubSeq(t, r.to + 1, Len(t))

(* It replaces the middle between what is before and what follows.         *)
Replaces(text, i, j, r, edit) ==
  EditMade(SubSeq(text, 1, j) \o r, edit) = (SubSeq(text, 1, i) \o edit.text) \o r

LEMMA EditReplaces ==
  ASSUME NEW S, NEW text \in Seq(S), NEW j \in 0..Len(text), NEW i \in 0..j,
         NEW r \in Seq(S), NEW edit, edit.from = i, edit.to = j
  PROVE  Replaces(text, i, j, r, edit)
<1>1. PICK o : o = 1  OBVIOUS
<1>2. PICK l \in Nat : l = Len(text)  OBVIOUS
<1>3. PICK b, t : b = SubSeq(text, o, j) /\ t = b \o r  OBVIOUS
<1>4. o \in 1..Len(text) + 1 /\ j \in o - 1..Len(text) /\ j - o + 1 = j /\ o + i - 1 = i
  BY <1>1, <1>2
<1>5. b \in Seq(S) /\ Len(b) = j
  <2>1. b \in Seq(S) /\ Len(b) = j - o + 1  BY <1>3, <1>4, PartOf, Zenon
  <2> QED  BY <1>4, <2>1, Zenon
<1>6. SubSeq(t, o, i) = SubSeq(text, o, i)
  <2>1. o \in 1..Len(b) + 1 /\ i \in o - 1..Len(b)  BY <1>1, <1>5
  <2>5. SubSeq(b \o r, o, i) = SubSeq(b, o, i)  BY <1>5, <2>1, PartOfConcat, Zenon
  <2>2. SubSeq(t, o, i) = SubSeq(b, o, i)  BY <1>3, <2>5, Zenon
  <2>3. i \in 0..j - o + 1  BY <1>4
  <2>4. SubSeq(SubSeq(text, o, j), 1, i) = SubSeq(text, o, o + i - 1)
    BY <1>4, <2>3, StartOfPart
  <2> QED  BY <1>1, <1>3, <1>4, <2>2, <2>4, Zenon
<1>7. SubSeq(t, j + 1, Len(t)) = r
  <2>1. PICK q : q = j + 1  OBVIOUS
  <2>2. q \in 1..Len(b) + 1 /\ Len(b) - q + 1 = 0  BY <1>5, <2>1
  <2>3. SubSeq(t, q, Len(t)) = SubSeq(b, q, Len(b)) \o r
    BY <1>3, <1>5, <2>2, EndOfConcat, Zenon
  <2>4. PICK z : z = SubSeq(b, q, Len(b))  OBVIOUS
  <2>5. z \in Seq(S) /\ Len(z) = Len(b) - q + 1  BY <1>5, <2>2, <2>4, EndOf, Zenon
  <2>6. z = <<>>  BY <2>2, <2>5
  <2>7. <<>> \o r = r  BY ConcatEmptySeq
  <2> QED  BY <2>1, <2>3, <2>4, <2>6, <2>7, Zenon
<1> QED  BY <1>1, <1>3, <1>6, <1>7, Zenon DEF EditMade, Replaces

(* To the text that the edits K make, an edit before all of them can be    *)
(* made by its own range: that is making it at once with the others.       *)
LEMMA OneMoreEdit ==
  ASSUME NEW text \in Seq(Glyphs), NEW edits \in Seq(EditsOf(text)), NEW e, NEW K,
         Before(e, K, edits)
  PROVE  FlattenSeq(PiecesIn(K \union {e}, edits, text))
           = EditMade(FlattenSeq(PiecesIn(K, edits, text)), edits[e])
<1>1. e \in DOMAIN edits /\ K \subseteq DOMAIN edits /\ e \notin K
      /\ \A k \in K : edits[e].to <= edits[k].from
  BY DEF Before
<1>2. PICK l \in Nat, n \in Nat : l = Len(text) /\ n = l + 1  OBVIOUS
<1>3. PICK i \in Nat, j \in Nat, x \in Seq(Characters) :
        /\ i = edits[e].from /\ j = edits[e].to /\ x = edits[e].text
        /\ i <= j /\ j <= l
  BY <1>1, <1>2, EditTyped
<1>0. i <= j /\ j <= l /\ n = l + 1  BY <1>2, <1>3, Zenon
<1>4. PICK P, Q : /\ P = PiecesIn(K, edits, text)
                  /\ Q = PiecesIn(K \union {e}, edits, text)
  OBVIOUS
<1>5. Pieces(P, n, Characters) /\ Pieces(Q, n, Characters)  BY <1>2, <1>4, PiecesTyped
<1>6. PICK f : JoinsPieces(f, n, Characters, P) /\ FlattenSeq(P) = f[n]  BY <1>5, FlattenJoins
<1>7. PICK g : JoinsPieces(g, n, Characters, Q) /\ FlattenSeq(Q) = g[n]  BY <1>5, FlattenJoins
<1>8. text \in Seq(Characters)
  <2>1. PICK C, G : C = Characters /\ G = Glyphs  OBVIOUS
  <2>2. G \subseteq C  BY <2>1 DEF Characters
  <2>3. text \in Seq(G)  BY <2>1
  <2>4. text \in Seq(C)  BY <2>2, <2>3
  <2> QED  BY <2>1, <2>4, Zenon
<1>9. PICK a, b : a = SubSeq(text, 1, i) /\ b = SubSeq(text, 1, j)  OBVIOUS
<1>10. a \in Seq(Characters) /\ b \in Seq(Characters)
  <2>1. PICK o : o = 1  OBVIOUS
  <2>2. o \in 1..Len(text) + 1 /\ i \in o - 1..Len(text) /\ j \in o - 1..Len(text)
    BY <1>2, <1>3, <2>1
  <2>3. SubSeq(text, o, i) \in Seq(Characters) /\ SubSeq(text, o, j) \in Seq(Characters)
    BY <1>8, <2>2, PartOf
  <2> QED  BY <1>9, <2>1, <2>3, Zenon
<1>11. f[j] = b
  <2>1. j \in 0..Len(text) /\ j \in 0..n /\ j <= Len(text) /\ j \in 0..j  BY <1>2, <1>3
  <2>2. ASSUME NEW k \in 1..n, k <= j PROVE P[k] = <<text[k]>>
    <3>1. k \in 1..j  BY <2>2
    <3>2. \A m \in K : j <= edits[m].from  BY <1>1, <1>3, Zenon
    <3> QED  BY <1>1, <1>4, <2>1, <3>1, <3>2, PlainPieces
  <2>4. Letters(P, n, text, j)  BY <2>2, Zenon DEF Letters
  <2>3. \A k \in 0..j : f[k] = SubSeq(text, 1, k)  BY <1>6, <1>8, <2>1, <2>4, JoinsText
  <2> QED  BY <1>9, <2>1, <2>3
<1>12. g[i] = a
  <2>1. i \in 0..Len(text) /\ i \in 0..n /\ i <= Len(text) /\ i \in 0..i  BY <1>2, <1>3
  <2>2. ASSUME NEW k \in 1..n, k <= i PROVE Q[k] = <<text[k]>>
    <3>1. k \in 1..i  BY <2>2
    <3>2. ASSUME NEW m \in K \union {e} PROVE i <= edits[m].from
      <4>1. CASE m = e  BY <1>3, <4>1
      <4>2. CASE m \in K
        <5>1. PICK q \in Nat : q = edits[m].from  BY <1>1, <4>2, EditTyped
        <5>2. j <= q  BY <1>1, <1>3, <4>2, <5>1, Zenon
        <5>3. i <= q  BY <1>3, <5>2
        <5> QED  BY <5>1, <5>3
      <4> QED  BY <4>1, <4>2
    <3>3. K \union {e} \in SUBSET DOMAIN edits  BY <1>1
    <3> QED  BY <1>4, <2>1, <3>1, <3>2, <3>3, PlainPieces
  <2>4. Letters(Q, n, text, i)  BY <2>2, Zenon DEF Letters
  <2>3. \A k \in 0..i : g[k] = SubSeq(text, 1, k)  BY <1>7, <1>8, <2>1, <2>4, JoinsText
  <2> QED  BY <1>9, <2>1, <2>3
<1>13. PICK y \in Seq(Characters) : y = a \o x
  <2>1. a \o x \in Seq(Characters)  BY <1>10, ConcatProperties
  <2> QED  BY <2>1, Zenon
<1>14. ASSUME NEW p \in 1..n, j < p, p # i + 1 PROVE Q[p] = P[p]
  <2>1. p \in 1..l + 1 /\ i # p - 1  BY <1>0, <1>14
  <2>2. p \in 1..Len(text) + 1 /\ edits[e].to < p /\ edits[e].from # p - 1
    BY <1>2, <1>3, <1>14, <2>1, Zenon
  <2>3. PieceStays(text, edits, e, K, p)  BY <2>2, PiecesBeyond
  <2> QED  BY <1>4, <2>3, Zenon DEF PieceStays
<1>15. \E r \in Seq(Characters) : SameAfter(f, g, b, y, r, n)
  <2>1. CASE i < j
    <3>1. i + 1 \in 1..n /\ i \in 0..n /\ (i + 1) - 1 = i  BY <1>0
    <3>2. Q[i + 1] = x
      <4>1. Q[i + 1] = (x \o FlattenSeq(NewIn(K, edits, i)))
                         \o KeptIn(K \union {e}, edits, text, i)
        <5>1. PieceAdds(text, edits, e, K, i)  BY <1>3, PieceAt
        <5> QED  BY <1>3, <1>4, <5>1, Zenon DEF PieceAdds
      <4>2. FlattenSeq(NewIn(K, edits, i)) = <<>>
        <5>1. ASSUME NEW k \in DOMAIN edits, k \in K PROVE edits[k].from # i
          <6>1. PICK q \in Nat : q = edits[k].from  BY EditTyped
          <6>2. j <= q  BY <1>1, <1>3, <5>1, <6>1, Zenon
          <6>3. q # i  BY <2>1, <6>2
          <6> QED  BY <6>1, <6>3
        <5> QED  BY <5>1, NewNone
      <4>3. KeptIn(K \union {e}, edits, text, i) = <<>>
        <5>1. e \in K \union {e} /\ i < i + 1 /\ i + 1 <= j  BY <1>0, <2>1
        <5>2. CoveredIn(K \union {e}, edits, i + 1)  BY <1>3, <5>1, Zenon DEF CoveredIn
        <5> QED  BY <5>2, Zenon DEF KeptIn
      <4>4. x \o <<>> = x  BY ConcatEmptySeq
      <4> QED  BY <4>1, <4>2, <4>3, <4>4, Zenon
    <3>3. g[i + 1] = y
      <4>1. g[i + 1] = g[i] \o Q[i + 1]  BY <1>7, <3>1, Zenon DEF JoinsPieces
      <4> QED  BY <1>12, <1>13, <3>2, <4>1, Zenon
    <3>4. g[j] = y
      <4>1. i + 1 \in 0..n /\ j \in i + 1..n  BY <1>0, <2>1
      <4>2. ASSUME NEW k \in 1..n, i + 1 < k, k <= j PROVE Q[k] = <<>>
        <5>1. k \in 1..Len(text) + 1  BY <1>2
        <5> QED  BY <1>3, <1>4, <4>2, <5>1, PiecesWithin
      <4>3. Silent(Q, n, i + 1, j)  BY <4>2, Zenon DEF Silent
      <4>4. g[j] = g[i + 1]  BY <1>7, <4>1, <4>3, JoinsNothing
      <4> QED  BY <3>3, <4>4, Zenon
    <3>5. PICK z \in Seq(Characters) : z = <<>> /\ b \o z = b /\ y \o z = y
      <4>1. b \o <<>> = b /\ y \o <<>> = y  BY <1>10, <1>13, ConcatEmptySeq
      <4>2. <<>> \in Seq(Characters)  OBVIOUS
      <4> QED  BY <4>1, <4>2, Zenon
    <3>6. SameAfter(f, g, b, y, z, j)  BY <1>11, <3>4, <3>5, Zenon DEF SameAfter
    <3>7. ASSUME NEW k \in 1..n, j < k PROVE Q[k] = P[k]
      <4>1. k # i + 1  BY <1>0, <2>1, <3>7
      <4> QED  BY <1>14, <3>7, <4>1
    <3>8. j \in 0..n  BY <1>0
    <3> QED  BY <1>5, <1>6, <1>7, <1>10, <1>13, <3>5, <3>6, <3>7, <3>8, JoinsAlike
  <2>2. CASE i = j
    <3>1. i + 1 \in 1..n /\ i + 1 \in 0..n /\ (i + 1) - 1 = i /\ i + 1 \in 1..Len(text) + 1
      BY <1>2, <1>3
    <3>2. PICK c \in Seq(Characters) : c = P[i + 1]  BY <1>5, <3>1 DEF Pieces
    <3>3. Q[i + 1] = x \o c
      <4>1. Q[i + 1] = (x \o FlattenSeq(NewIn(K, edits, i)))
                         \o KeptIn(K \union {e}, edits, text, i)
        <5>1. PieceAdds(text, edits, e, K, i)  BY <1>3, PieceAt
        <5> QED  BY <1>3, <1>4, <5>1, Zenon DEF PieceAdds
      <4>2. KeptIn(K \union {e}, edits, text, i) = KeptIn(K, edits, text, i)
        <5>1. ~ (i + 1 <= j)  BY <2>2
        <5>2. CoveredIn(K \union {e}, edits, i + 1) <=> CoveredIn(K, edits, i + 1)
          BY <1>3, <5>1 DEF CoveredIn
        <5> QED  BY <5>2, Zenon DEF KeptIn
      <4>3. c = FlattenSeq(NewIn(K, edits, i)) \o KeptIn(K, edits, text, i)
        BY <1>4, <3>1, <3>2, Zenon DEF PiecesIn
      <4>4. PICK s, k : s = FlattenSeq(NewIn(K, edits, i)) /\ k = KeptIn(K, edits, text, i)
        OBVIOUS
      <4>5. s \in Seq(Characters)
        <5>1. PICK m \in Nat : m = Len(edits)  OBVIOUS
        <5>2. Pieces(NewIn(K, edits, i), m, Characters)  BY <5>1, NewTyped
        <5>3. PICK h : JoinsPieces(h, m, Characters, NewIn(K, edits, i))
                       /\ FlattenSeq(NewIn(K, edits, i)) = h[m]
          BY <5>2, FlattenJoins
        <5>4. h \in [0..m -> Seq(Characters)]  BY <5>3, Zenon DEF JoinsPieces
        <5>5. h[m] \in Seq(Characters)  BY <5>4
        <5> QED  BY <4>4, <5>3, <5>5, Zenon
      <4>6. k \in Seq(Characters)
        <5>1. CASE i < l /\ ~ CoveredIn(K, edits, i + 1)
          <6>1. i + 1 \in 1..Len(text)  BY <1>2, <5>1
          <6>2. PICK d \in Characters : d = text[i + 1]  BY <1>8, <6>1
          <6>3. k = <<d>>  BY <1>2, <4>4, <5>1, <6>2, Zenon DEF KeptIn
          <6>4. <<d>> \in Seq(Characters)  OBVIOUS
          <6> QED  BY <6>3, <6>4, Zenon
        <5>2. CASE ~ (i < l /\ ~ CoveredIn(K, edits, i + 1))
          <6>1. k = <<>>  BY <1>2, <4>4, <5>2, Zenon DEF KeptIn
          <6>2. <<>> \in Seq(Characters)  OBVIOUS
          <6> QED  BY <6>1, <6>2, Zenon
        <5> QED  BY <5>1, <5>2
      <4>7. Associates(x, s, k)  BY <4>5, <4>6, ConcatAssociates
      <4> QED  BY <4>1, <4>2, <4>3, <4>4, <4>7, Zenon DEF Associates
    <3>4. f[i + 1] = b \o c /\ g[i + 1] = a \o (x \o c)
      <4>1. f[i + 1] = f[i] \o P[i + 1] /\ g[i + 1] = g[i] \o Q[i + 1]
        BY <1>6, <1>7, <3>1, Zenon DEF JoinsPieces
      <4> QED  BY <1>11, <1>12, <2>2, <3>2, <3>3, <4>1, Zenon
    <3>5. Associates(a, x, c)  BY <1>10, ConcatAssociates
    <3>6. SameAfter(f, g, b, y, c, i + 1)
      BY <1>13, <3>4, <3>5, Zenon DEF Associates, SameAfter
    <3>7. ASSUME NEW k \in 1..n, i + 1 < k PROVE Q[k] = P[k]
      <4>1. j < k /\ k # i + 1  BY <2>2, <3>7
      <4> QED  BY <1>14, <4>1
    <3> QED  BY <1>5, <1>6, <1>7, <1>10, <1>13, <3>1, <3>6, <3>7, JoinsAlike
  <2> QED  BY <1>3, <2>1, <2>2
<1>16. PICK r \in Seq(Characters) : SameAfter(f, g, b, y, r, n)  BY <1>15
<1>17. f[n] = b \o r /\ g[n] = (a \o x) \o r  BY <1>13, <1>16, Zenon DEF SameAfter
<1>18. EditMade(b \o r, edits[e]) = (a \o x) \o r
  <2>1. j \in 0..Len(text) /\ i \in 0..j  BY <1>2, <1>3
  <2>2. Replaces(text, i, j, r, edits[e])  BY <1>3, <1>8, <2>1, EditReplaces
  <2> QED  BY <1>3, <1>9, <2>2, Zenon DEF Replaces
<1> QED  BY <1>4, <1>6, <1>7, <1>17, <1>18, Zenon

(* No edit changes nothing.                                                *)
LEMMA NoEdits ==
  ASSUME NEW text \in Seq(Glyphs), NEW edits \in Seq(EditsOf(text))
  PROVE  FlattenSeq(PiecesIn({}, edits, text)) = text
<1>1. PICK l \in Nat, n \in Nat : l = Len(text) /\ n = l + 1  OBVIOUS
<1>2. PICK P : P = PiecesIn({}, edits, text)  OBVIOUS
<1>3. Pieces(P, n, Characters)  BY <1>1, <1>2, PiecesTyped
<1>4. PICK f : JoinsPieces(f, n, Characters, P) /\ FlattenSeq(P) = f[n]  BY <1>3, FlattenJoins
<1>5. text \in Seq(Characters)
  <2>1. PICK C, G : C = Characters /\ G = Glyphs  OBVIOUS
  <2>2. G \subseteq C  BY <2>1 DEF Characters
  <2>3. text \in Seq(G)  BY <2>1
  <2>4. text \in Seq(C)  BY <2>2, <2>3
  <2> QED  BY <2>1, <2>4, Zenon
<1>6. f[l] = text
  <2>1. l \in 0..Len(text) /\ l \in 0..n /\ l <= Len(text) /\ l \in 0..l  BY <1>1
  <2>2. ASSUME NEW k \in 1..n, k <= l PROVE P[k] = <<text[k]>>
    <3>1. k \in 1..l  BY <2>2
    <3>2. {} \in SUBSET DOMAIN edits  OBVIOUS
    <3>3. \A m \in {} : l <= edits[m].from  OBVIOUS
    <3> QED  BY <1>2, <2>1, <3>1, <3>2, <3>3, PlainPieces
  <2>5. Letters(P, n, text, l)  BY <2>2, Zenon DEF Letters
  <2>3. \A k \in 0..l : f[k] = SubSeq(text, 1, k)  BY <1>4, <1>5, <2>1, <2>5, JoinsText
  <2>4. SubSeq(text, 1, Len(text)) = text  BY WholePart
  <2> QED  BY <1>1, <2>1, <2>3, <2>4, Zenon
<1>7. P[n] = <<>>
  <2>1. n \in 1..Len(text) + 1 /\ n - 1 = l /\ ~ (l < Len(text))  BY <1>1
  <2>2. FlattenSeq(NewIn({}, edits, l)) = <<>>
    <3>1. \A k \in DOMAIN edits : k \in {} => edits[k].from # l  OBVIOUS
    <3> QED  BY <3>1, NewNone
  <2>3. KeptIn({}, edits, text, l) = <<>>  BY <2>1, Zenon DEF KeptIn
  <2>4. P[n] = <<>> \o <<>>  BY <1>2, <2>1, <2>2, <2>3, Zenon DEF PiecesIn
  <2>5. <<>> \in Seq(Nat)  OBVIOUS
  <2>6. \A s \in Seq(Nat) : s \o <<>> = s  BY ConcatEmptySeq
  <2> QED  BY <2>4, <2>5, <2>6, Zenon
<1>8. f[n] = f[l] \o P[n]
  <2>1. n \in 1..n /\ n - 1 = l  BY <1>1
  <2> QED  BY <1>4, <2>1, Zenon DEF JoinsPieces
<1>9. text \o <<>> = text  BY ConcatEmptySeq
<1> QED  BY <1>2, <1>4, <1>6, <1>7, <1>8, <1>9, Zenon

(* The edits from the back, each before those already made.                *)
LastOf(f, n, m) == {f[k] : k \in {q \in 1..n : n < q + m}}

InOrder(s, edits, n, f) ==
  /\ Len(s) = n /\ Len(edits) = n
  /\ \A k \in 1..n : s[k] = edits[f[k]]
  /\ LastOf(f, n, 0) = {} /\ LastOf(f, n, n) = DOMAIN edits
  /\ \A m \in 1..n : /\ LastOf(f, n, m) = LastOf(f, n, m - 1) \union {f[n + 1 - m]}
                     /\ Before(f[n + 1 - m], LastOf(f, n, m - 1), edits)

LEMMA EditsBefore ==
  ASSUME NEW text \in Seq(Glyphs), NEW edits \in Seq(EditsOf(text)),
         ~ Overlapping(Sorted(edits))
  PROVE  \E n \in Nat : \E f : InOrder(Sorted(edits), edits, n, f)
<1>1. PICK n \in Nat : n = Len(edits) /\ DOMAIN edits = 1..n  OBVIOUS
<1>2. PICK key : key = [k \in DOMAIN edits |-> edits[k].from]  OBVIOUS
<1>3. key \in [1..Len(edits) -> Nat] /\ \A k \in 1..n : key[k] = edits[k].from
  <2>1. \A k \in 1..n : edits[k].from \in Nat  BY <1>1, EditTyped, Zenon
  <2> QED  BY <1>1, <1>2, <2>1
<1>4. PICK s : s = Sorted(edits)  OBVIOUS
<1>5. s = StableSorted(edits, key)  BY <1>2, <1>4, Zenon DEF Sorted
<1>6. PICK f : /\ Sorts(f, Len(edits), key)
               /\ StableSorted(edits, key) = [k \in 1..Len(edits) |-> edits[f[k]]]
               /\ Len(StableSorted(edits, key)) = Len(edits)
  <2>1. PICK T : T = EditsOf(text)  OBVIOUS
  <2>2. edits \in Seq(T)  BY <2>1
  <2> QED  BY <1>3, <2>2, StableSortedBy
<1>7. Len(s) = n /\ \A k \in 1..n : s[k] = edits[f[k]]
  BY <1>1, <1>5, <1>6, Zenon
<1>8. /\ f \in [1..n -> 1..n] /\ \A i \in 1..n : \E k \in 1..n : f[k] = i
      /\ \A j, k \in 1..n : j < k =>
           f[j] # f[k] /\ (key[f[j]] < key[f[k]] \/ (key[f[j]] = key[f[k]] /\ f[j] < f[k]))
  BY <1>1, <1>6, Zenon DEF Sorts
<1>9. LastOf(f, n, 0) = {}
  <2>1. \A q \in 1..n : ~ (n < q + 0)  OBVIOUS
  <2> QED  BY <2>1 DEF LastOf
<1>10. LastOf(f, n, n) = DOMAIN edits
  <2>1. \A q \in 1..n : n < q + n  OBVIOUS
  <2>2. LastOf(f, n, n) = {f[k] : k \in 1..n}  BY <2>1 DEF LastOf
  <2>3. \A k \in 1..n : f[k] \in 1..n  BY <1>8
  <2>4. {f[k] : k \in 1..n} = 1..n
    <3>1. \A i \in 1..n : i \in {f[k] : k \in 1..n}
      <4>1. ASSUME NEW i \in 1..n PROVE i \in {f[k] : k \in 1..n}
        <5>1. PICK k \in 1..n : f[k] = i  BY <1>8
        <5> QED  BY <5>1
      <4> QED  BY <4>1
    <3>2. \A i \in {f[k] : k \in 1..n} : i \in 1..n  BY <2>3
    <3> QED  BY <3>1, <3>2
  <2> QED  BY <1>1, <2>2, <2>4, Zenon
<1>11. ASSUME NEW m \in 1..n
       PROVE  /\ LastOf(f, n, m) = LastOf(f, n, m - 1) \union {f[n + 1 - m]}
              /\ Before(f[n + 1 - m], LastOf(f, n, m - 1), edits)
  <2>1. PICK p \in 1..n : p = n + 1 - m
    <3>1. n + 1 - m \in 1..n  OBVIOUS
    <3> QED  BY <3>1
  <2>2. \A q \in 1..n : (n < q + m <=> p <= q) /\ (n < q + (m - 1) <=> p < q)  BY <2>1
  <2>3. LastOf(f, n, m) = {f[k] : k \in {q \in 1..n : p <= q}}
    <3>1. {q \in 1..n : n < q + m} = {q \in 1..n : p <= q}  BY <2>2
    <3> QED  BY <3>1, Zenon DEF LastOf
  <2>4. LastOf(f, n, m - 1) = {f[k] : k \in {q \in 1..n : p < q}}
    <3>1. {q \in 1..n : n < q + (m - 1)} = {q \in 1..n : p < q}  BY <2>2
    <3> QED  BY <3>1, Zenon DEF LastOf
  <2>5. {q \in 1..n : p <= q} = {q \in 1..n : p < q} \union {p}  OBVIOUS
  <2>6. LastOf(f, n, m) = LastOf(f, n, m - 1) \union {f[p]}
    BY <2>3, <2>4, <2>5
  <2>7. ASSUME NEW q \in 1..n, p < q
        PROVE  /\ f[q] # f[p] /\ f[q] \in 1..n
               /\ edits[f[p]].to <= edits[f[q]].from
               /\ edits[f[q]].from = edits[f[p]].from => f[p] < f[q]
    <3>1. p + 1 \in 1..n /\ p \in 1..n - 1 /\ (p + 1 = q \/ p + 1 < q)  BY <2>7
    <3>2. f[p] \in 1..n /\ f[q] \in 1..n /\ f[p + 1] \in 1..n /\ f[p] # f[q]
      <4>1. f[p] # f[q]  BY <1>8, <2>7
      <4> QED  BY <1>8, <3>1, <4>1
    <3>3. PICK a \in Nat, b \in Nat, c \in Nat, d \in Nat :
            /\ a = edits[f[p]].to /\ b = edits[f[p + 1]].from
            /\ c = edits[f[q]].from /\ d = edits[f[p]].from
      BY <1>1, <3>2, EditTyped
    <3>4. b <= c
      <4>1. CASE p + 1 = q
        <5>1. b = c  BY <3>3, <4>1, Zenon
        <5> QED  BY <5>1
      <4>2. CASE p + 1 < q
        <5>1. key[f[p + 1]] < key[f[q]] \/ key[f[p + 1]] = key[f[q]]
          BY <1>8, <3>1, <4>2, Zenon
        <5>2. key[f[p + 1]] = b /\ key[f[q]] = c  BY <1>3, <3>2, <3>3, Zenon
        <5>3. b < c \/ b = c  BY <5>1, <5>2, Zenon
        <5> QED  BY <5>3
      <4> QED  BY <3>1, <4>1, <4>2
    <3>5. a <= b
      <4>1. ~ (s[p].to > s[p + 1].from)
        <5>1. ~ Overlapping(s)  BY <1>4
        <5>2. p \in 1..(Len(s) - 1)  BY <1>7, <3>1, Zenon
        <5> QED  BY <5>1, <5>2, Zenon DEF Overlapping
      <4>2. ~ (a > b)  BY <1>7, <3>1, <3>3, <4>1, Zenon
      <4> QED  BY <4>2
    <3>6. c = d => f[p] < f[q]
      <4>1. key[f[p]] < key[f[q]] \/ (key[f[p]] = key[f[q]] /\ f[p] < f[q])
        BY <1>8, <2>7, Zenon
      <4>2. key[f[p]] = d /\ key[f[q]] = c  BY <1>3, <3>2, <3>3, Zenon
      <4>3. d < c \/ f[p] < f[q]  BY <4>1, <4>2, Zenon
      <4> QED  BY <4>3
    <3>7. a <= c  BY <3>4, <3>5
    <3> QED  BY <3>2, <3>3, <3>6, <3>7, Zenon
  <2>8. PICK K, e : K = LastOf(f, n, m - 1) /\ e = f[p]  OBVIOUS
  <2>9. \A k \in K : \E q \in 1..n : p < q /\ k = f[q]  BY <2>4, <2>8
  <2>10. ASSUME NEW k \in K
         PROVE  /\ k # e /\ k \in 1..n /\ edits[e].to <= edits[k].from
                /\ edits[k].from = edits[e].from => e < k
    BY <2>7, <2>8, <2>9, Zenon
  <2>11. e \in 1..n  BY <1>8, <2>8
  <2>12. K \subseteq 1..n /\ e \notin K  BY <2>10
  <2>13. Before(e, K, edits)  BY <1>1, <2>10, <2>11, <2>12, Zenon DEF Before
  <2> QED  BY <2>1, <2>6, <2>8, <2>13, Zenon
<1> QED  BY <1>1, <1>4, <1>7, <1>9, <1>10, <1>11, Zenon DEF InOrder

(* Applied from the back they are made at once.                            *)
LEMMA AppliedAtOnce ==
  ASSUME NEW text \in Seq(Glyphs), NEW edits \in Seq(EditsOf(text)),
         ~ Overlapping(Sorted(edits))
  PROVE  Applied(text, Sorted(edits)) = FlattenSeq(PiecesIn(DOMAIN edits, edits, text))
<1>1. PICK s : s = Sorted(edits)  OBVIOUS
<1>0. PICK n \in Nat : \E f : InOrder(s, edits, n, f)  BY <1>1, EditsBefore
<1>2. PICK f :
        /\ Len(s) = n /\ Len(edits) = n
        /\ \A k \in 1..n : s[k] = edits[f[k]]
        /\ LastOf(f, n, 0) = {} /\ LastOf(f, n, n) = DOMAIN edits
        /\ \A m \in 1..n :
             /\ LastOf(f, n, m) = LastOf(f, n, m - 1) \union {f[n + 1 - m]}
             /\ Before(f[n + 1 - m], LastOf(f, n, m - 1), edits)
  BY <1>0, Zenon DEF InOrder
<1> DEFINE made(m) == FlattenSeq(PiecesIn(LastOf(f, n, m), edits, text))
           Sat(u) == u = [k \in 0..Len(s) |-> IF k = 0 THEN text
                                              ELSE EditMade(u[k - 1], s[Len(s) + 1 - k])]
<1>3. made(0) = text  BY <1>2, NoEdits, Zenon
<1>4. ASSUME NEW m \in 1..n PROVE made(m) = EditMade(made(m - 1), s[n + 1 - m])
  <2>1. PICK e, K : e = f[n + 1 - m] /\ K = LastOf(f, n, m - 1)  OBVIOUS
  <2>2. Before(e, K, edits) /\ LastOf(f, n, m) = K \union {e}  BY <1>2, <2>1, Zenon
  <2>3. FlattenSeq(PiecesIn(K \union {e}, edits, text))
          = EditMade(FlattenSeq(PiecesIn(K, edits, text)), edits[e])
    BY <2>2, OneMoreEdit, Zenon
  <2>4. n + 1 - m \in 1..n  OBVIOUS
  <2>5. s[n + 1 - m] = edits[e]  BY <1>2, <2>1, <2>4, Zenon
  <2> QED  BY <2>1, <2>2, <2>3, <2>5, Zenon
<1> HIDE DEF made
<1>5. \E u : Sat(u)
  <2>1. PICK w : w = [k \in 0..n |-> made(k)]  OBVIOUS
  <2>2. ASSUME NEW k \in 0..n
        PROVE  made(k) = IF k = 0 THEN text ELSE EditMade(w[k - 1], s[n + 1 - k])
    <3>1. CASE k = 0  BY <1>3, <3>1, Zenon
    <3>2. CASE k # 0
      <4>1. k \in 1..n /\ k - 1 \in 0..n  BY <3>2
      <4>2. w[k - 1] = made(k - 1)  BY <2>1, <4>1, Zenon
      <4> QED  BY <1>4, <3>2, <4>1, <4>2, Zenon
    <3> QED  BY <3>1, <3>2
  <2>3. Sat(w)  BY <1>2, <2>1, <2>2, Zenon
  <2> QED  BY <2>3, Zenon
<1> DEFINE u == CHOOSE u : Sat(u)
<1>6. Sat(u)  BY <1>5, Zenon
<1>7. Applied(text, s) = u[n]  BY <1>2, Zenon DEF Applied, EditMade
<1> HIDE DEF u
<1>8. u[0] = text /\ \A k \in 1..n : u[k] = EditMade(u[k - 1], s[n + 1 - k])
  <2>1. 0 \in 0..n /\ \A k \in 1..n : k \in 0..n /\ k # 0  OBVIOUS
  <2> QED  BY <1>2, <1>6, <2>1, Zenon
<1> DEFINE T == {k \in 0..n : u[k] = made(k)}
<1>9. 0 \in T
  <2>1. 0 \in 0..n  OBVIOUS
  <2> QED  BY <1>3, <1>8, <2>1, Zenon
<1>10. ASSUME NEW k \in 1..n, k - 1 \in T PROVE k \in T
  <2>1. k \in 0..n  OBVIOUS
  <2>2. u[k - 1] = made(k - 1)  BY <1>10
  <2>3. u[k] = made(k)  BY <1>4, <1>8, <2>2, Zenon
  <2> QED  BY <2>1, <2>3
<1>11. \A k \in 0..n : k \in T
  <2> HIDE DEF T
  <2> QED  BY <1>9, <1>10, UpwardInduction
<1>12. n \in 0..n  OBVIOUS
<1>13. u[n] = made(n)  BY <1>11, <1>12
<1> QED  BY <1>1, <1>2, <1>7, <1>13, Zenon DEF made

(* The edits of the whole array.                                           *)
AtOnce(text, edits) ==
  LET Covered(i) == \E k \in DOMAIN edits : edits[k].from < i /\ i <= edits[k].to
      NewAt(i) == FlattenSeq([k \in DOMAIN edits |->
                      IF edits[k].from = i THEN edits[k].text ELSE <<>>])
      Kept(i) == IF i < Len(text) /\ ~Covered(i + 1) THEN <<text[i + 1]>> ELSE <<>>
  IN  FlattenSeq([k \in 1..(Len(text) + 1) |-> NewAt(k - 1) \o Kept(k - 1)])

(* They are the pieces with every edit in K.                               *)
LEMMA AllAtOnce ==
  ASSUME NEW text, NEW edits
  PROVE  FlattenSeq(PiecesIn(DOMAIN edits, edits, text)) = AtOnce(text, edits)
<1>1. ASSUME NEW i
      PROVE  NewIn(DOMAIN edits, edits, i)
               = [k \in DOMAIN edits |-> IF edits[k].from = i THEN edits[k].text ELSE <<>>]
  <2>1. ASSUME NEW k \in DOMAIN edits
        PROVE  (IF k \in DOMAIN edits /\ edits[k].from = i THEN edits[k].text ELSE <<>>)
                 = (IF edits[k].from = i THEN edits[k].text ELSE <<>>)
    OBVIOUS
  <2> QED  BY <2>1, Zenon DEF NewIn
<1> QED  BY <1>1, Zenon DEF PiecesIn, KeptIn, CoveredIn, AtOnce

(* Only Compile gives a text, and it gives the simultaneous one.           *)
LEMMA SimultaneousNext ==
  ASSUME LspEditsInv, EditsSimultaneous, [LspEditsNext]_lspEditVars
  PROVE  EditsSimultaneous'
<1>1. CASE \E p \in Positions : Convert(p[1], p[2])
  <2>1. compiled' = Pending  BY <1>1, Zenon DEF Convert
  <2> QED  BY <2>1 DEF EditsSimultaneous
<1>2. CASE \E p, q \in Positions, t \in {<<>>, <<Len(ranges) + 1>>} : ResolveEdit(p, q, t)
  <2>1. compiled' \in {Pending, Invalid}
    <3>1. PICK p \in Positions, q \in Positions, t \in {<<>>, <<Len(ranges) + 1>>} :
            ResolveEdit(p, q, t)
      BY <1>2
    <3>2. compiled = Pending /\ (compiled' = Invalid \/ compiled' = compiled)
      BY <3>1, Zenon DEF ResolveEdit
    <3> QED  BY <3>2
  <2> QED  BY <2>1 DEF EditsSimultaneous
<1>3. CASE Compile
  <2>1. /\ document' = document /\ ranges' = ranges
        /\ compiled' = IF Overlapping(Sorted(ranges)) THEN Invalid
                       ELSE Applied(document.text, Sorted(ranges))
    BY <1>3, Zenon DEF Compile
  <2>2. CASE Overlapping(Sorted(ranges))
    <3>1. compiled' = Invalid  BY <2>1, <2>2, Zenon
    <3> QED  BY <3>1 DEF EditsSimultaneous
  <2>3. CASE ~ Overlapping(Sorted(ranges))
    <3>1. PICK text, edits : text = document.text /\ edits = ranges  OBVIOUS
    <3>2. text \in Seq(Glyphs) /\ edits \in Seq(EditsOf(text))
      <4>1. /\ document \in [text : Documents, encoding : Encodings]
            /\ ranges \in Seq(EditsOf(document.text))
        BY Zenon DEF LspEditsInv
      <4>2. text \in Seq(Glyphs)  BY <3>1, <4>1, DocumentsAreTexts, Zenon
      <4> QED  BY <3>1, <4>1, <4>2, Zenon
    <3>3. compiled' = FlattenSeq(PiecesIn(DOMAIN edits, edits, text))
      <4>1. Applied(text, Sorted(edits)) = FlattenSeq(PiecesIn(DOMAIN edits, edits, text))
        BY <2>3, <3>1, <3>2, AppliedAtOnce, Zenon
      <4> QED  BY <2>1, <2>3, <3>1, <4>1, Zenon
    <3>4. document'.text = text /\ ranges' = edits  BY <2>1, <3>1, Zenon
    <3>5. compiled' = AtOnce(document'.text, ranges')  BY <3>3, <3>4, AllAtOnce, Zenon
    <3> QED  BY <3>5, Zenon DEF EditsSimultaneous, AtOnce
  <2> QED  BY <2>2, <2>3
<1>4. CASE UNCHANGED lspEditVars
  <2>1. document' = document /\ ranges' = ranges /\ compiled' = compiled
    BY <1>4 DEF lspEditVars
  <2> QED  BY <2>1, Zenon DEF EditsSimultaneous
<1> QED  BY <1>1, <1>2, <1>3, <1>4, Zenon DEF LspEditsNext

(* A compiled document is the simultaneous replacement of every range of   *)
(* the array by its text, although the edits are sorted, applied from the  *)
(* back and may touch (src/intelligence/workspace_edit.rs:102-111).        *)
THEOREM EditsAreSimultaneous == LspEditsSpec => []EditsSimultaneous
<1>1. LspEditsInit => LspEditsInv  BY LspEditsInvInit
<1>2. LspEditsInv /\ [LspEditsNext]_lspEditVars => LspEditsInv'  BY LspEditsInvNext
<1>3. LspEditsInit => EditsSimultaneous  BY DEF LspEditsInit, EditsSimultaneous
<1>4. LspEditsInv /\ EditsSimultaneous /\ [LspEditsNext]_lspEditVars => EditsSimultaneous'
  BY SimultaneousNext
<1> QED  BY <1>1, <1>2, <1>3, <1>4, PTL DEF LspEditsSpec

=============================================================================
