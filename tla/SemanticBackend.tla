--------------------------- MODULE SemanticBackend ---------------------------
(***************************************************************************)
(* What src/intelligence/backend.rs promises of a SemanticBackend: execute *)
(* takes an operation and the text of a document and returns once, with an *)
(* error or with an answer.  An answer to an operation at a position is    *)
(* about exactly that text.  Diagnostics may be about another text of the  *)
(* document: that is what the worker really delivers (LspWorker).          *)
(***************************************************************************)
CONSTANTS
  Callers,  \* requests; each is made at most once
  Uris,     \* documents
  Texts,    \* document contents, told apart by their hash
  None      \* no request, no answer, no text

(* Definition, References and Rename differ only in their parameters.      *)
Operations == {"position", "diagnostics"}
Requests == [op : Operations, uri : Uris, text : Texts]
Failure == [ok |-> FALSE, text |-> None]
Success(t) == [ok |-> TRUE, text |-> t]
Answers == {Failure} \union {Success(t) : t \in Texts}

VARIABLES
  caller,  \* caller[c]: "idle", "waiting" for the reply, "returned"
  asked,   \* asked[c]: what was asked
  answer   \* answer[c]: what execute returned

backendVars == <<caller, asked, answer>>

BackendInit ==
  /\ caller = [c \in Callers |-> "idle"]
  /\ asked = [c \in Callers |-> None]
  /\ answer = [c \in Callers |-> None]

(* The answers a request may get.                                          *)
Proper(request) ==
  IF request.op = "position" THEN {Failure, Success(request.text)} ELSE Answers

(* execute is called; a backend that cannot take the request fails at once.*)
Begin(c, request) ==
  /\ caller[c] = "idle"
  /\ asked' = [asked EXCEPT ![c] = request]
  /\ \/ /\ caller' = [caller EXCEPT ![c] = "waiting"]
        /\ UNCHANGED answer
     \/ /\ caller' = [caller EXCEPT ![c] = "returned"]
        /\ answer' = [answer EXCEPT ![c] = Failure]

(* execute returns.                                                        *)
Answer(c) ==
  /\ caller[c] = "waiting"
  /\ caller' = [caller EXCEPT ![c] = "returned"]
  /\ \E a \in Proper(asked[c]) : answer' = [answer EXCEPT ![c] = a]
  /\ UNCHANGED asked

BackendNext ==
  \E c \in Callers : Answer(c) \/ \E request \in Requests : Begin(c, request)

BackendSpec == BackendInit /\ [][BackendNext]_backendVars
=============================================================================
