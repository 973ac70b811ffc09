-------------------------- MODULE CodeIntelligence --------------------------
(***************************************************************************)
(* Code-intelligence requests: the session of src/intelligence/session.rs  *)
(* and IntelligenceService::execute of service.rs, over a SemanticBackend  *)
(* (which LspWorker implements).  A session reads its target from the live *)
(* index and from disk, asks the backend, and checks target and result     *)
(* files again afterwards; other programs write the files, and the         *)
(* workspace reconciles its index in two steps at any moment.              *)
(***************************************************************************)
EXTENDS Naturals, SemanticBackend

CONSTANT MaxWrites  \* bound: writes by other programs

ASSUME SessionAssumption ==
  /\ None \notin Texts
  /\ None \notin Requests
  /\ MaxWrites \in Nat

VARIABLES
  disk,        \* the files
  index,       \* the live index
  refreshing,  \* a file as a reconcile has read it, not yet published
  session,     \* session[c]: operation, target and the text it was opened with
  place,       \* where request c stands
  found,       \* found[c]: the file read last and its text
  contents,    \* contents[c]: the files its result names, as read and accepted
  diskSince,   \* history: what each file has held since c had its answer,
  indexSince,  \* and each index entry; kept until the request ends
  writes       \* writes so far

sessionVars == <<session, place, found, contents>>
historyVars == <<diskSince, indexSince>>
fileVars == <<disk, index, refreshing, writes>>
intelligenceVars == <<backendVars, sessionVars, historyVars, fileVars>>

Contents == Texts \union {None}
Files == [uri : Uris, text : Contents]
Ended == {"semantic", "fallback", "refused"}
Places == Ended \union {"none", "read", "open", "asking", "answered", "verify",
                        "interpret", "result"}

SessionTypeOK ==
  /\ caller \in [Callers -> {"idle", "waiting", "returned"}]
  /\ asked \in [Callers -> Requests \union {None}]
  /\ answer \in [Callers -> Answers \union {None}]
  /\ disk \in [Uris -> Contents]
  /\ index \in [Uris -> Contents]
  /\ refreshing \in Files \union {None}
  /\ session \in [Callers -> Requests \union {None}]
  /\ place \in [Callers -> Places]
  /\ found \in [Callers -> Files \union {None}]
  /\ contents \in [Callers -> [Uris -> Contents]]
  /\ diskSince \in [Callers -> [Uris -> SUBSET Contents]]
  /\ indexSince \in [Callers -> [Uris -> SUBSET Contents]]
  /\ writes \in 0..MaxWrites

SessionInit ==
  /\ BackendInit
  /\ disk \in [Uris -> Texts]
  /\ index \in [Uris -> Contents]
  /\ \A u \in Uris : index[u] \in {disk[u], None}
  /\ refreshing = None
  /\ session = [c \in Callers |-> None]
  /\ place = [c \in Callers |-> "none"]
  /\ found = [c \in Callers |-> None]
  /\ contents = [c \in Callers |-> [u \in Uris |-> None]]
  /\ diskSince = [c \in Callers |-> [u \in Uris |-> {}]]
  /\ indexSince = diskSince
  /\ writes = 0

Move(c, p) == place' = [place EXCEPT ![c] = p]
Note(c, u) == found' = [found EXCEPT ![c] = [uri |-> u, text |-> disk[u]]]

(* The histories of the requests that have an answer and still run.        *)
Extended(since, u, t) ==
  [c \in Callers |-> IF caller[c] = "returned" /\ place[c] \notin Ended
                     THEN [since[c] EXCEPT ![u] = @ \union {t}] ELSE since[c]]

(* Another program replaces or removes a file.                             *)
Write(u, t) ==
  /\ writes < MaxWrites
  /\ writes' = writes + 1
  /\ disk[u] # t
  /\ disk' = [disk EXCEPT ![u] = t]
  /\ diskSince' = Extended(diskSince, u, t)
  /\ UNCHANGED <<backendVars, sessionVars, index, refreshing, indexSince>>

(* A reconcile of the workspace reads a changed file,                      *)
ReadChanged(u) ==
  /\ refreshing = None
  /\ index[u] # disk[u]
  /\ refreshing' = [uri |-> u, text |-> disk[u]]
  /\ UNCHANGED <<backendVars, sessionVars, historyVars, disk, index, writes>>

(* and the index it publishes has the file as it was read.                 *)
PublishIndex ==
  /\ refreshing # None
  /\ index' = [index EXCEPT ![refreshing.uri] = refreshing.text]
  /\ indexSince' = Extended(indexSince, refreshing.uri, refreshing.text)
  /\ refreshing' = None
  /\ UNCHANGED <<backendVars, sessionVars, diskSince, disk, writes>>

(* Session::open, first half: the target as the live index has it.         *)
Open(c, op, u) ==
  /\ place[c] = "none"
  /\ IF index[u] = None
     THEN Move(c, "refused") /\ UNCHANGED <<session, found>>
     ELSE /\ session' = [session EXCEPT ![c] = [op |-> op, uri |-> u, text |-> index[u]]]
          /\ Move(c, "read")
          /\ UNCHANGED found
  /\ UNCHANGED <<backendVars, contents, historyVars, fileVars>>

(* Session::open, second half: disk has to agree.                          *)
ConfirmDisk(c) ==
  /\ place[c] = "read"
  /\ Move(c, IF disk[session[c].uri] = session[c].text THEN "open" ELSE "refused")
  /\ UNCHANGED <<backendVars, session, found, contents, historyVars, fileVars>>

(* Session::attempt without a configured backend for the file.             *)
NoBackend(c) ==
  /\ place[c] = "open"
  /\ Move(c, "fallback")
  /\ UNCHANGED <<backendVars, session, found, contents, historyVars, fileVars>>

(* Session::semantic hands the opened text to the worker.                  *)
Ask(c) ==
  /\ place[c] = "open"
  /\ Begin(c, session[c])
  /\ Move(c, "asking")
  /\ UNCHANGED <<session, found, contents, historyVars, fileVars>>

(* The worker's answer; an error means the fallback.                       *)
TakeAnswer(c) ==
  /\ place[c] = "asking"
  /\ caller[c] = "returned"
  /\ Move(c, IF answer[c].ok THEN "answered" ELSE "fallback")
  /\ UNCHANGED <<backendVars, session, found, contents, historyVars, fileVars>>

(* verify_after_request reads the target from disk,                        *)
ReadTarget(c) ==
  /\ place[c] = "answered"
  /\ Note(c, session[c].uri)
  /\ Move(c, "verify")
  /\ UNCHANGED <<backendVars, session, contents, historyVars, fileVars>>

(* Mutant: the file on disk is not compared again. *)
VerifyTargetIndexOnly(c) ==
  /\ place[c] = "verify"
  /\ Move(c, IF index[session[c].uri] = session[c].text
             THEN "interpret" ELSE "fallback")
  /\ UNCHANGED <<backendVars, session, found, contents, historyVars, fileVars>>

(* then from the index, and compares both with the synchronized text.      *)
VerifyTarget(c) ==
  /\ place[c] = "verify"
  /\ Move(c, IF /\ found[c].text = session[c].text
                /\ index[session[c].uri] = session[c].text
             THEN "interpret" ELSE "fallback")
  /\ UNCHANGED <<backendVars, session, found, contents, historyVars, fileVars>>

(* interpret: the result names no further file, or cannot be understood.   *)
Interpreted(c) ==
  /\ place[c] = "interpret"
  /\ \E end \in {"semantic", "fallback"} : Move(c, end)
  /\ UNCHANGED <<backendVars, session, found, contents, historyVars, fileVars>>

(* read_current: the next file the result names is read, once,             *)
ReadResultFile(c, u) ==
  /\ place[c] = "interpret"
  /\ session[c].op = "position"
  /\ contents[c][u] = None
  /\ IF disk[u] = None
     THEN Move(c, "fallback") /\ UNCHANGED found
     ELSE Move(c, "result") /\ Note(c, u)
  /\ UNCHANGED <<backendVars, session, contents, historyVars, fileVars>>

Accept(c) ==
  /\ contents' = [contents EXCEPT ![c][found[c].uri] = found[c].text]
  /\ Move(c, "interpret")

(* Mutant: a file the index has with another text is accepted as well.    *)
TakeResultFile(c) ==
  /\ place[c] = "result"
  /\ Accept(c)
  /\ UNCHANGED <<backendVars, session, found, historyVars, fileVars>>

(* and has to match its index entry, if it has one.                        *)
CheckResultFile(c) ==
  /\ place[c] = "result"
  /\ IF index[found[c].uri] \in {None, found[c].text}
     THEN Accept(c)
     ELSE Move(c, "fallback") /\ UNCHANGED contents
  /\ UNCHANGED <<backendVars, session, found, historyVars, fileVars>>

(* The backend returns; the histories of the request begin.                *)
BackendAnswers(c) ==
  /\ Answer(c)
  /\ diskSince' = [diskSince EXCEPT ![c] = [u \in Uris |-> {disk[u]}]]
  /\ indexSince' = [indexSince EXCEPT ![c] = [u \in Uris |-> {index[u]}]]
  /\ UNCHANGED <<sessionVars, fileVars>>

SessionStep(c) ==
  \/ ConfirmDisk(c) \/ Ask(c) \/ TakeAnswer(c)
  \/ ReadTarget(c) \/ VerifyTarget(c) \/ Interpreted(c) \/ CheckResultFile(c)

SessionNext ==
  \/ \E c \in Callers :
       \/ BackendAnswers(c) \/ SessionStep(c) \/ NoBackend(c)
       \/ \E op \in Operations, u \in Uris : Open(c, op, u)
       \/ \E u \in Uris : ReadResultFile(c, u)
  \/ \E u \in Uris : ReadChanged(u) \/ \E t \in Contents : Write(u, t)
  \/ PublishIndex

SessionSpec == SessionInit /\ [][SessionNext]_intelligenceVars

-----------------------------------------------------------------------------
(* What a semantic answer rests on still held after the backend gave it,   *)
(* whatever was written and reconciled meanwhile: the text the session was *)
(* opened with and, of an answer at a position, the text it is about have  *)
(* since been in the target and in its index entry; the text read of every *)
(* other file the answer points into has since been in that file and in    *)
(* its index entry, or the file has had none.                              *)
SemanticCurrent ==
  \A c \in Callers : place[c] \in {"interpret", "result", "semantic"} =>
    LET u == session[c].uri
        texts == {session[c].text}
                 \union IF session[c].op = "position" THEN {answer[c].text} ELSE {}
    IN  /\ texts \subseteq diskSince[c][u] \intersect indexSince[c][u]
        /\ \A v \in Uris : contents[c][v] # None =>
             /\ contents[c][v] \in diskSince[c][v]
             /\ {contents[c][v], None} \intersect indexSince[c][v] # {}

(* Sessions keep their types and deliver only current answers              *)
(* (session.rs verify_after_request and read_current).                     *)
SessionInv == SessionTypeOK /\ SemanticCurrent

=============================================================================
