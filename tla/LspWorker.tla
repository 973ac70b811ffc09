------------------------------ MODULE LspWorker ------------------------------
(***************************************************************************)
(* One language-server worker: src/intelligence/worker.rs (the bounded     *)
(* queue, the thread and its single restart), worker/server.rs (the        *)
(* conversation with one server process), sync.rs (document versions) and  *)
(* transport.rs (the pipe reader and the end of the process).              *)
(*                                                                         *)
(* A caller puts a command into the queue and waits for its reply channel; *)
(* the thread owns the server.  A deadline may pass at any moment, and the *)
(* caller gives up some time after that (REPLY_GRACE).  The server is      *)
(* external: it learns texts by didOpen and didChange, answers requests,   *)
(* publishes diagnostics of any document, open or not, about any text (it  *)
(* may have read the file itself), asks questions, and may die or break    *)
(* the framing.  It reads what it is sent at once.                           *)
(***************************************************************************)
EXTENDS Naturals, Sequences, FiniteSets

CONSTANTS
  Callers,        \* requests; each is made at most once
  Uris,           \* documents of the worker's language
  Texts,          \* document contents, told apart by their hash
  None,           \* no text, no caller, no answer
  Capabilities,   \* what a server may advertise
  QueueCapacity,  \* QUEUE_CAPACITY
  MaxFaults,      \* bound: failures of the server and of its start
  MaxUnasked      \* bound: messages a server sends unasked

Operations == {"position", "diagnostics"}
Requests == [op : Operations, uri : Uris, text : Texts]

ASSUME WorkerAssumption ==
  /\ None \notin Texts \union Uris
  /\ None \notin Callers
  /\ None \notin Requests
  /\ Capabilities \subseteq [supports : SUBSET Operations, sync : BOOLEAN, pull : BOOLEAN]
  /\ QueueCapacity \in Nat \ {0}
  /\ MaxFaults \in Nat
  /\ MaxUnasked \in Nat

VARIABLES
  caller,     \* caller[c]: "idle", "waiting" for the reply, "returned"
  asked,      \* asked[c]: operation, document and text of the command
  late,       \* commands whose deadline has passed
  answer,     \* answer[c]: what execute returned
  queue,      \* the sync_channel
  stop,       \* the stop flag; the sender is dropped with it
  wpc,        \* where the thread stands
  cur,        \* the command in hand
  attempt,    \* first or second execute_once
  ready,      \* self.server is ServerState::Ready
  caps,       \* capabilities of the server, None before initialize
  docs,       \* Server::documents: the text recorded for each URI, by hash
  diags,      \* Server::diagnostics: the text they are about
  nextId,     \* Server::next_id
  readiness,  \* WorkerStatus::readiness
  proc,       \* the process: "none", "alive", "mute" (framing lost), "dead"
  told,       \* the texts the process has been told
  job,        \* the request the process has to answer, NoJob if none
  inbox,      \* messages read by the pipe reader, not yet received
  said,       \* history, read by properties only: what the process has said
              \* of each document and could be received since the document
              \* was last handed over
  faults,     \* failures so far
  unasked     \* unasked messages so far

callVars == <<caller, asked, late, answer>>
serverVars == <<ready, caps, docs, diags, nextId>>
procVars == <<proc, told, job, inbox, said>>
boundVars == <<faults, unasked>>
workVars == <<wpc, cur, attempt, readiness>>
vars == <<callVars, queue, stop, workVars, serverVars, procVars, boundVars>>

NoTexts == [u \in Uris |-> None]

(* What execute returns: any WorkerError is a failure to the caller, which *)
(* then falls back; an answer is about a text.                             *)
Failure == [ok |-> FALSE, text |-> None]
Success(t) == [ok |-> TRUE, text |-> t]

(* WorkerError::restartable.  Transport, an unusual I/O error, behaves as  *)
(* ServerExited.                                                           *)
Restartable(e) == e \in {"TimedOut", "ServerExited", "Protocol"}

(* Messages the pipe reader hands over.  A response is about the text the  *)
(* process was told, published diagnostics are about any.                  *)
Message == [kind : {"answer", "error", "empty", "published", "question", "fatal"},
            id : Nat, uri : Uris \union {None}, exact : BOOLEAN,
            text : Texts \union {None}]
Response(k, j) ==
  [kind |-> k, id |-> j.id, uri |-> j.uri, exact |-> TRUE,
   text |-> IF j.uri = None THEN None ELSE told[j.uri]]
NoJob == [id |-> 0, uri |-> None]
Unasked(k) == Response(k, NoJob)
Published(u, exact, t) ==
  [kind |-> "published", id |-> 0, uri |-> u, exact |-> exact, text |-> t]

(* Places of the thread: waiting for a command, before execute_once,       *)
(* awaiting the answer to initialize, before Server::execute, awaiting an  *)
(* answer, awaiting published diagnostics.                                 *)
Awaiting == {"initialize", "request", "publish"}
Busy == Awaiting \union {"once", "execute"}

TypeOK ==
  /\ caller \in [Callers -> {"idle", "waiting", "returned"}]
  /\ asked \in [Callers -> Requests \union {None}]
  /\ late \subseteq Callers
  /\ answer \in [Callers -> [ok : BOOLEAN, text : Texts \union {None}] \union {None}]
  /\ queue \in Seq(Callers) /\ Len(queue) <= QueueCapacity
  /\ stop \in BOOLEAN
  /\ wpc \in Busy \union {"recv", "exited"}
  /\ cur \in Callers \union {None}
  /\ attempt \in {1, 2}
  /\ ready \in BOOLEAN
  /\ caps \in Capabilities \union {None}
  /\ docs \in [Uris -> Texts \union {None}]
  /\ diags \in [Uris -> Texts \union {None}]
  /\ readiness \in {"lazy", "starting", "ready"}
  /\ proc \in {"none", "alive", "mute", "dead"}
  /\ told \in [Uris -> Texts \union {None}]
  /\ nextId \in Nat
  /\ job \in [id : Nat, uri : Uris \union {None}]
  /\ inbox \in Seq(Message)
  /\ said \subseteq Uris \X Texts
  /\ faults \in 0..MaxFaults
  /\ unasked \in 0..MaxUnasked

Init ==
  /\ caller = [c \in Callers |-> "idle"]
  /\ asked = [c \in Callers |-> None]
  /\ late = {}
  /\ answer = [c \in Callers |-> None]
  /\ queue = <<>>
  /\ stop = FALSE
  /\ wpc = "recv"
  /\ cur = None
  /\ attempt = 1
  /\ ready = FALSE
  /\ caps = None
  /\ docs = NoTexts
  /\ diags = NoTexts
  /\ nextId = 1
  /\ readiness = "lazy"
  /\ proc = "none"
  /\ told = NoTexts
  /\ job = NoJob
  /\ inbox = <<>>
  /\ said = {}
  /\ faults = 0
  /\ unasked = 0

-----------------------------------------------------------------------------
(* The caller: LspWorker::execute.                                         *)

Return(c, result) ==
  /\ caller' = [caller EXCEPT ![c] = "returned"]
  /\ answer' = [answer EXCEPT ![c] = result]

(* try_send: a full queue refuses at once.                                 *)
Execute(c, request) ==
  /\ caller[c] = "idle"
  /\ ~stop
  /\ asked' = [asked EXCEPT ![c] = request]
  /\ IF Len(queue) < QueueCapacity
     THEN /\ queue' = Append(queue, c)
          /\ caller' = [caller EXCEPT ![c] = "waiting"]
          /\ UNCHANGED answer
     ELSE /\ Return(c, Failure)
          /\ UNCHANGED queue
  /\ UNCHANGED <<late, stop, workVars, serverVars, procVars, boundVars>>

(* The deadline of the command, the budget for two attempts, passes.       *)
DeadlinePasses(c) ==
  /\ caller[c] = "waiting"
  /\ c \notin late
  /\ late' = late \union {c}
  /\ UNCHANGED <<caller, asked, answer, queue, stop, workVars, serverVars,
                 procVars, boundVars>>

(* recv_timeout ends REPLY_GRACE after the deadline.                       *)
GiveUp(c) ==
  /\ caller[c] = "waiting"
  /\ c \in late
  /\ Return(c, Failure)
  /\ UNCHANGED <<asked, late, queue, stop, workVars, serverVars, procVars,
                 boundVars>>

(* WorkerThread::drop: the last handle to the service is gone, so nobody   *)
(* waits in execute any more.  The commands of callers that gave up may    *)
(* still be queued or in hand.                                             *)
DropWorker ==
  /\ ~stop
  /\ \A c \in Callers : caller[c] # "waiting"
  /\ stop' = TRUE
  /\ UNCHANGED <<callVars, queue, workVars, serverVars, procVars, boundVars>>

-----------------------------------------------------------------------------
(* The thread: WorkerRuntime.                                              *)

(* reply.send: a caller that has given up dropped its receiver.            *)
Reply(c, result) ==
  /\ IF caller[c] = "waiting" THEN Return(c, result) ELSE UNCHANGED <<caller, answer>>
  /\ UNCHANGED <<asked, late>>

(* Mutant: the cache is kept for the next server. *)
DropServerKeeping ==
  /\ ready' = FALSE
  /\ caps' = None
  /\ docs' = NoTexts
  /\ proc' = "none"
  /\ told' = NoTexts
  /\ job' = NoJob
  /\ nextId' = 1
  /\ inbox' = <<>>
  /\ said' = {}
  /\ UNCHANGED diags

(* Dropping the transport kills the process tree and ends the reader.      *)
DropServer ==
  /\ ready' = FALSE
  /\ caps' = None
  /\ docs' = NoTexts
  /\ diags' = NoTexts
  /\ proc' = "none"
  /\ told' = NoTexts
  /\ job' = NoJob
  /\ nextId' = 1
  /\ inbox' = <<>>
  /\ said' = {}

(* Mutant: abandoned commands are executed. *)
ReceiveAny ==
  /\ wpc = "recv"
  /\ queue # <<>>
  /\ queue' = Tail(queue)
  /\ IF stop
     THEN /\ Reply(Head(queue), Failure)
          /\ UNCHANGED <<wpc, cur, attempt>>
     ELSE /\ wpc' = "once"
          /\ cur' = Head(queue)
          /\ attempt' = 1
          /\ UNCHANGED callVars
  /\ UNCHANGED <<stop, readiness, serverVars, procVars, boundVars>>

(* Mutant: a stopped worker leaves its queue alone. *)
ReceiveUnlessStopped == ~stop /\ ReceiveAny

(* The head of run's loop: nothing is begun for a worker that stops or a   *)
(* caller that has given up.                                               *)
Receive ==
  /\ wpc = "recv"
  /\ queue # <<>>
  /\ queue' = Tail(queue)
  /\ IF stop \/ Head(queue) \in late
     THEN /\ Reply(Head(queue), Failure)
          /\ UNCHANGED <<wpc, cur, attempt>>
     ELSE /\ wpc' = "once"
          /\ cur' = Head(queue)
          /\ attempt' = 1
          /\ UNCHANGED callVars
  /\ UNCHANGED <<stop, readiness, serverVars, procVars, boundVars>>

(* Mutant: the thread returns and leaves the process behind. *)
RunEndsLeaving ==
  /\ wpc = "recv"
  /\ queue = <<>>
  /\ stop
  /\ wpc' = "exited"
  /\ UNCHANGED <<callVars, queue, stop, cur, attempt, readiness, serverVars,
                 procVars, boundVars>>

(* recv fails once the sender is gone and the queue is empty; the runtime  *)
(* is dropped with its server.                                             *)
RunEnds ==
  /\ wpc = "recv"
  /\ queue = <<>>
  /\ stop
  /\ wpc' = "exited"
  /\ DropServer
  /\ UNCHANGED <<callVars, queue, stop, cur, attempt, readiness, boundVars>>

(* execute_with_restart: one more attempt while the deadline allows.       *)
MayRetry(e) == attempt = 1 /\ Restartable(e) /\ cur \notin late /\ ~stop

(* record_failure(restarting) and the second execute_once.                 *)
Retry ==
  /\ wpc' = "once"
  /\ attempt' = 2
  /\ readiness' = "lazy"
  /\ UNCHANGED <<callVars, cur>>

(* Mutant: a failure leaves the status as it was. *)
ConcludeSilently(result, kept) ==
  /\ Reply(cur, result)
  /\ wpc' = "recv"
  /\ cur' = None
  /\ attempt' = 1
  /\ readiness' = IF result.ok THEN "ready" ELSE readiness

(* record_success or record_failure, then the reply.                       *)
Conclude(result, kept) ==
  /\ Reply(cur, result)
  /\ wpc' = "recv"
  /\ cur' = None
  /\ attempt' = 1
  /\ readiness' = IF result.ok THEN "ready"
                  ELSE IF kept THEN readiness ELSE "lazy"

(* execute_once fails before it has an initialized server (`?`), or with   *)
(* an error after which the server is discarded.                           *)
FailDiscarding(e) ==
  /\ DropServer
  /\ IF MayRetry(e) THEN Retry ELSE Conclude(Failure, FALSE)

(* execute_once ends with a server that is kept.                           *)
EndKeeping(result) ==
  /\ ready' = TRUE
  /\ Conclude(result, TRUE)

(* The factory cannot spawn the server: not retried.                       *)
StartFails ==
  /\ wpc = "once"
  /\ ~ready
  /\ faults < MaxFaults
  /\ faults' = faults + 1
  /\ FailDiscarding("StartFailed")
  /\ UNCHANGED <<queue, stop, unasked>>

(* Spawn the process and send initialize, on a Server without documents.   *)
StartServer ==
  /\ wpc = "once"
  /\ ~ready
  /\ wpc' = "initialize"
  /\ readiness' = "starting"
  /\ proc' = "alive"
  /\ job' = [id |-> nextId, uri |-> None]
  /\ nextId' = nextId + 1
  /\ docs' = NoTexts
  /\ UNCHANGED <<callVars, queue, stop, cur, attempt, ready, caps, diags, told,
                 inbox, said, boundVars>>

(* mem::take: while a request runs, the server is a local of execute_once. *)
TakeServer ==
  /\ wpc = "once"
  /\ ready
  /\ ready' = FALSE
  /\ wpc' = "execute"
  /\ UNCHANGED <<callVars, queue, stop, cur, attempt, readiness, caps, docs,
                 diags, nextId, procVars, boundVars>>

-----------------------------------------------------------------------------
(* Waiting for a message: Server::receive_before and the transport.        *)

Quiet == <<queue, stop, boundVars>>

(* A wait is cut short by the stop flag, ends with the message deadline or *)
(* with the end of the reader, or meets a frame that cannot be accepted.   *)
WaitFails(e) ==
  /\ wpc \in Awaiting
  /\ \/ e = "Stopped" /\ stop
     \/ e = "TimedOut" /\ ~stop
     \/ e = "Protocol" /\ ~stop /\ inbox # <<>> /\ Head(inbox).kind = "fatal"
     \/ e = "ServerExited" /\ ~stop /\ inbox = <<>> /\ proc \in {"mute", "dead"}
  /\ FailDiscarding(e)
  /\ UNCHANGED Quiet

(* A message is there and may be taken.                                    *)
CanReceive(places) ==
  /\ wpc \in places
  /\ ~stop
  /\ inbox # <<>>
  /\ Head(inbox).kind # "fatal"

(* A response to the request that is waited for.                           *)
IsResponse(m) == m.kind \in {"answer", "error", "empty"} /\ m.id = nextId - 1

(* A message that does not end the wait: handle_message while a request is *)
(* answered, the loop of diagnostics_for while diagnostics are awaited.    *)
EndsWait(m) ==
  \/ wpc \in {"initialize", "request"} /\ IsResponse(m)
  \/ wpc = "publish" /\ m.kind = "published" /\ m.uri = asked[cur].uri

(* Published diagnostics are cached under the URI as the server spells it, *)
(* and only that of the document itself is ever looked up.  Other          *)
(* notifications and responses to nothing are ignored.                     *)
HandleMessage ==
  /\ CanReceive(Awaiting)
  /\ ~EndsWait(Head(inbox))
  /\ Head(inbox).kind # "question"
  /\ LET m == Head(inbox) IN
       diags' = IF m.kind = "published" /\ m.exact
                THEN [diags EXCEPT ![m.uri] = m.text] ELSE diags
  /\ inbox' = Tail(inbox)
  /\ UNCHANGED <<callVars, workVars, ready, caps, docs, nextId, proc, told, job, said, Quiet>>

(* answer_server_request: a question is answered; the answer cannot be     *)
(* written to a dead process.                                              *)
AnswerServerRequest ==
  /\ CanReceive(Awaiting)
  /\ Head(inbox).kind = "question"
  /\ IF proc = "dead"
     THEN FailDiscarding("ServerExited")
     ELSE /\ inbox' = Tail(inbox)
          /\ UNCHANGED <<callVars, workVars, serverVars, proc, told, job, said>>
  /\ UNCHANGED Quiet

(* The end of a request that failed: the server reports an error, or the   *)
(* response has neither result nor error.  An error of initialize drops    *)
(* the server although it is not restartable.                              *)
RequestFails ==
  /\ CanReceive({"initialize", "request"})
  /\ IsResponse(Head(inbox))
  /\ \/ /\ Head(inbox).kind = "error"
        /\ IF wpc = "initialize"
           THEN FailDiscarding("Server")
           ELSE /\ EndKeeping(Failure)
                /\ inbox' = Tail(inbox)
                /\ UNCHANGED <<caps, docs, diags, nextId, proc, told, job, said>>
     \/ /\ Head(inbox).kind = "empty"
        /\ FailDiscarding("Protocol")
  /\ UNCHANGED Quiet

(* Server::initialize: the capabilities, then the initialized notification.*)
Initialized ==
  /\ CanReceive({"initialize"})
  /\ IsResponse(Head(inbox))
  /\ Head(inbox).kind = "answer"
  /\ IF proc = "dead"
     THEN FailDiscarding("ServerExited")
     ELSE /\ caps' \in Capabilities
          /\ wpc' = "execute"
          /\ readiness' = "ready"
          /\ inbox' = Tail(inbox)
          /\ UNCHANGED <<callVars, cur, attempt, ready, docs, diags, nextId, proc,
                         told, job, said>>
  /\ UNCHANGED Quiet

(* The answer to a request.  A pulled diagnostic report is cached.         *)
RequestAnswered ==
  /\ CanReceive({"request"})
  /\ IsResponse(Head(inbox))
  /\ Head(inbox).kind = "answer"
  /\ EndKeeping(Success(Head(inbox).text))
  /\ LET u == asked[cur].uri IN
       diags' = IF asked[cur].op = "diagnostics"
                THEN [diags EXCEPT ![u] = Head(inbox).text] ELSE diags
  /\ inbox' = Tail(inbox)
  /\ UNCHANGED <<caps, docs, nextId, proc, told, job, said, Quiet>>

(* diagnostics_for: published diagnostics of the document, however spelled.*)
DiagnosticsArrive ==
  /\ CanReceive({"publish"})
  /\ EndsWait(Head(inbox))
  /\ EndKeeping(Success(Head(inbox).text))
  /\ diags' = [diags EXCEPT ![asked[cur].uri] = Head(inbox).text]
  /\ inbox' = Tail(inbox)
  /\ UNCHANGED <<caps, docs, nextId, proc, told, job, said, Quiet>>

-----------------------------------------------------------------------------
(* One operation: Server::execute.                                         *)

(* The server cannot do what is asked; nothing is sent.                    *)
Refuse ==
  /\ wpc = "execute"
  /\ \/ asked[cur].op \notin caps.supports /\ EndKeeping(Failure)
     \/ /\ asked[cur].op \in caps.supports
        /\ ~caps.sync
        /\ EndKeeping(Failure)
  /\ UNCHANGED <<caps, docs, diags, nextId, procVars, Quiet>>

Executable ==
  /\ wpc = "execute"
  /\ asked[cur].op \in caps.supports
  /\ caps.sync

(* Mutant: only documents that are new to the server are sent. *)
ChangedNew(request) == docs[request.uri] = None

(* plan_sync: a notification is needed when the document is new or its     *)
(* hash differs from the recorded one.                                     *)
Changed(request) == docs[request.uri] # request.text

(* What the process said of document u and the thread has not received.    *)
InFlight(u) ==
  {x \in said : x[1] = u /\ \E i \in DOMAIN inbox : <<inbox[i].uri, inbox[i].text>> = x}

(* A document is handed over by didOpen or didChange. *)
HandOver(request) ==
  /\ docs' = [docs EXCEPT ![request.uri] = request.text]
  /\ told' = [told EXCEPT ![request.uri] = request.text]
  /\ said' = {x \in said : x[1] # request.uri} \union InFlight(request.uri)

(* Mutant: only didChange drops the cached diagnostics. *)
SynchronizeOpened(request) ==
  IF Changed(request)
  THEN /\ HandOver(request)
       /\ diags' = IF docs[request.uri] = None THEN diags
                   ELSE [diags EXCEPT ![request.uri] = None]
  ELSE UNCHANGED <<docs, told, diags, said>>

(* plan_sync, the notification and the cache entry it makes obsolete.      *)
Synchronize(request) ==
  IF Changed(request)
  THEN /\ HandOver(request)
       /\ diags' = [diags EXCEPT ![request.uri] = None]
  ELSE UNCHANGED <<docs, told, diags, said>>

CachedFor(request) ==
  /\ request.op = "diagnostics"
  /\ ~Changed(request)
  /\ diags[request.uri] # None

(* Diagnostics from the cache: the process is not asked.                   *)
AnswerFromCache ==
  /\ Executable
  /\ CachedFor(asked[cur])
  /\ EndKeeping(Success(diags[asked[cur].uri]))
  /\ UNCHANGED <<caps, docs, diags, nextId, procVars, Quiet>>

(* The position is outside the document: found after synchronization.      *)
RejectPosition ==
  /\ Executable
  /\ asked[cur].op = "position"
  /\ proc # "dead" \/ ~Changed(asked[cur])
  /\ Synchronize(asked[cur])
  /\ EndKeeping(Failure)
  /\ UNCHANGED <<caps, nextId, proc, job, inbox, Quiet>>

(* Something has to be written and the process is gone.                    *)
SendFails ==
  /\ Executable
  /\ ~CachedFor(asked[cur])
  /\ Changed(asked[cur]) \/ asked[cur].op = "position" \/ caps.pull
  /\ proc = "dead"
  /\ FailDiscarding("ServerExited")
  /\ UNCHANGED Quiet

(* Synchronize, then send the request.                                     *)
SendRequest ==
  /\ Executable
  /\ ~CachedFor(asked[cur])
  /\ asked[cur].op = "position" \/ caps.pull
  /\ proc # "dead"
  /\ Synchronize(asked[cur])
  /\ job' = IF proc = "alive" THEN [id |-> nextId, uri |-> asked[cur].uri] ELSE NoJob
  /\ nextId' = nextId + 1
  /\ wpc' = "request"
  /\ UNCHANGED <<callVars, cur, attempt, readiness, ready, caps, proc, inbox, Quiet>>

(* Synchronize, then wait for the server to publish by itself.             *)
AwaitPublished ==
  /\ Executable
  /\ asked[cur].op = "diagnostics"
  /\ ~CachedFor(asked[cur])
  /\ ~caps.pull
  /\ proc # "dead" \/ ~Changed(asked[cur])
  /\ Synchronize(asked[cur])
  /\ wpc' = "publish"
  /\ UNCHANGED <<callVars, cur, attempt, readiness, ready, caps, nextId, proc, job,
                 inbox, Quiet>>

-----------------------------------------------------------------------------
(* The server process (external).                                          *)

Outside == <<callVars, queue, stop, workVars, serverVars>>

Say(m) ==
  /\ inbox' = Append(inbox, m)
  /\ said' = IF m.text = None THEN said ELSE said \union {<<m.uri, m.text>>}

(* It answers, reports an error or sends a response without content.       *)
ServerAnswers(k) ==
  /\ proc = "alive"
  /\ job # NoJob
  /\ k = "answer" \/ faults < MaxFaults
  /\ faults' = IF k = "answer" THEN faults ELSE faults + 1
  /\ Say(Response(k, job))
  /\ job' = NoJob
  /\ UNCHANGED <<Outside, proc, told, unasked>>

(* It publishes diagnostics, of a document it was told of or of any other  *)
(* file it finds, or asks something.                                       *)
ServerSpeaks ==
  /\ proc = "alive"
  /\ unasked < MaxUnasked
  /\ unasked' = unasked + 1
  /\ \/ Say(Unasked("question"))
     \/ \E u \in Uris, exact \in BOOLEAN, t \in Texts : Say(Published(u, exact, t))
  /\ UNCHANGED <<Outside, proc, told, job, faults>>

(* It dies, or sends a frame that ends the reader.                         *)
ServerBreaks(p) ==
  /\ proc = "alive"
  /\ faults < MaxFaults
  /\ faults' = faults + 1
  /\ proc' = p
  /\ job' = NoJob
  /\ inbox' = IF p = "mute" THEN Append(inbox, Unasked("fatal")) ELSE inbox
  /\ UNCHANGED <<Outside, told, said, unasked>>

Thread ==
  \/ Receive \/ RunEnds
  \/ StartFails \/ StartServer \/ TakeServer
  \/ \E e \in {"Stopped", "TimedOut", "Protocol", "ServerExited"} : WaitFails(e)
  \/ HandleMessage \/ AnswerServerRequest \/ RequestFails
  \/ Initialized \/ RequestAnswered \/ DiagnosticsArrive
  \/ Refuse \/ AnswerFromCache \/ RejectPosition
  \/ SendFails \/ SendRequest \/ AwaitPublished

Server ==
  \/ \E k \in {"answer", "error", "empty"} : ServerAnswers(k)
  \/ ServerSpeaks
  \/ \E p \in {"mute", "dead"} : ServerBreaks(p)

Timers == \E c \in Callers : DeadlinePasses(c) \/ GiveUp(c)

Next ==
  \/ Thread \/ Server \/ Timers \/ DropWorker
  \/ \E c \in Callers, request \in Requests : Execute(c, request)

Spec == Init /\ [][Next]_vars

(* The thread is scheduled and timers fire.  The process owes nothing: it  *)
(* may never answer.  Writing to it is assumed not to block.               *)
Fairness ==
  /\ WF_vars(Thread)
  /\ \A c \in Callers : WF_vars(DeadlinePasses(c)) /\ WF_vars(GiveUp(c))

FairSpec == Spec /\ Fairness

-----------------------------------------------------------------------------
Backend == INSTANCE SemanticBackend
             WITH caller <- caller, asked <- asked, answer <- answer

(* The worker implements SemanticBackend: whatever restarts, reused        *)
(* servers, timeouts and shutdowns happen, execute returns at most once,   *)
(* and an answer at a position is about exactly the text handed over       *)
(* (backend.rs:16, "against exactly that text").                           *)
ImplementsBackend == Backend!BackendSpec

(* Cached diagnostics are what the present process said of the document,   *)
(* received since the text on record was handed over: neither those of an  *)
(* earlier process nor those cached before didOpen or didChange survive.   *)
CacheOfThisServer ==
  \A u \in Uris : diags[u] # None => <<u, diags[u]>> \in said

(* A server process exists only while the thread has it in hand or keeps   *)
(* it as Ready; it never outlives the thread (worker.rs:467).              *)
ServerOwned ==
  /\ proc # "none" => ready \/ wpc \in Busy \ {"once"}
  /\ wpc = "exited" => proc = "none"

(* Between two commands the status tells the truth about the server.       *)
StatusHonest ==
  wpc = "recv" => (readiness = "ready" <=> ready)

(* The thread begins an attempt, first or second, only for a caller that   *)
(* still waits (worker.rs:385, "never start abandoned work").              *)
NoAbandonedWork ==
  [][(wpc' = "once" /\ wpc # "once") => caller[cur'] = "waiting"]_vars

(* A dropped worker stops, and its process with it.                        *)
DropStopsServer == stop ~> (wpc = "exited" /\ proc = "none")

(* A queue full of abandoned commands is emptied.                          *)
QueueDrains == (Len(queue) = QueueCapacity) ~> (Len(queue) < QueueCapacity)

(* What the worker keeps belongs to the server it has (worker.rs           *)
(* execute_once, record_success, record_failure).                          *)
WorkerInv == TypeOK /\ CacheOfThisServer /\ ServerOwned /\ StatusHonest

(* A server that never answers cannot hold the thread: a dropped worker    *)
(* stops with its process, and a full queue is taken up again (worker.rs   *)
(* run and Drop).                                                          *)
NeverStuck == DropStopsServer /\ QueueDrains

=============================================================================
