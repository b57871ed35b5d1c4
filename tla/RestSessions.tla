------------------------------ MODULE RestSessions ------------------------------
(***************************************************************************)
(* The sessions of the REST server.  A session reads one request, answers  *)
(* it and shuts its socket down; every handler runs on the one IO thread,  *)
(* so that reading the rest of a request and handling it is one step.  An  *)
(* exception that a handler does not catch destroys its session and ends   *)
(* the IO thread, and nothing else: m_running stays up.  (shutdown() is in *)
(* ServerLifecycle.)                                                       *)
(*                                                                         *)
(* The body of a request is the number of its bytes, and whether an error  *)
(* message could quote it; a body that is not empty and not cut short may  *)
(* be valid.  Bytes beyond the announced length are left out: they can     *)
(* only make a body invalid, or its message unfit.  A session that is over *)
(* may be followed by another one in its place.                            *)
(***************************************************************************)
EXTENDS Accounts

CONSTANTS
  Sessions,  \* the sessions at a time
  Lengths,   \* the values of Content-Length that fit an int
  TooLong    \* a value that does not

ASSUME LengthsAssumption == Lengths \subseteq Nat /\ TooLong \notin Nat

VARIABLES
  io,       \* whether the IO thread runs; FALSE: an exception has ended it
  phase,    \* phase[s]: what session s waits for
  want,     \* want[s]: the Content-Length of its request
  sent,     \* sent[s]: the bytes its peer has sent after the headers
  got,      \* got[s]: the bytes of them in m_requestBuffer
  gone,     \* gone[s]: its peer has closed the connection
  garbled,  \* garbled[s]: its body does not parse, and the message that quotes it is not UTF-8
  entire    \* the body of the request that the response in code is for was whole

session == <<phase, want, sent, got, gone, garbled>>
vars == <<data, code, io, session, entire>>

(* Where a request has its API key, if it has one.                         *)
Keys == {"none", "header", "query"}

TypeOK ==
  /\ DataType
  /\ io \in BOOLEAN
  /\ phase \in [Sessions -> {"none", "header", "body", "reply", "lost"}]
  /\ want \in [Sessions -> Lengths \union {TooLong, 0}]
  /\ sent \in [Sessions -> Nat] /\ got \in [Sessions -> Nat]
  /\ \A s \in Sessions : got[s] <= sent[s]
  /\ gone \in [Sessions -> BOOLEAN] /\ garbled \in [Sessions -> BOOLEAN]
  /\ entire \in BOOLEAN

Init ==
  /\ DataInit
  /\ io = TRUE
  /\ phase = [s \in Sessions |-> "none"]
  /\ want = [s \in Sessions |-> 0]
  /\ sent = [s \in Sessions |-> 0] /\ got = [s \in Sessions |-> 0]
  /\ gone = [s \in Sessions |-> FALSE] /\ garbled = [s \in Sessions |-> FALSE]
  /\ entire = TRUE

(* A step that makes no response.                                          *)
NoResponse == code' = 0 /\ entire' = TRUE

-----------------------------------------------------------------------------
(* A peer connects and is accepted, and its headers arrive with a given    *)
(* Content-Length; it sends the bytes that follow, the last of which       *)
(* decides what body they are, and may leave.                              *)
Accept(s, length) ==
  /\ io /\ phase[s] = "none"
  /\ phase' = [phase EXCEPT ![s] = "header"]
  /\ want' = [want EXCEPT ![s] = length]
  /\ NoResponse
  /\ UNCHANGED <<data, io, sent, got, gone, garbled>>

Send(s) ==
  /\ phase[s] \in {"header", "body"} /\ ~gone[s]
  /\ want[s] # TooLong /\ sent[s] < want[s]
  /\ sent' = [sent EXCEPT ![s] = @ + 1]
  /\ \E unfit \in BOOLEAN :
       /\ unfit => sent[s] + 1 = want[s]
       /\ garbled' = [garbled EXCEPT ![s] = unfit]
  /\ NoResponse
  /\ UNCHANGED <<data, io, phase, want, got, gone>>

Leave(s) ==
  /\ phase[s] \in {"header", "body"} /\ ~gone[s]
  /\ gone' = [gone EXCEPT ![s] = TRUE]
  /\ NoResponse
  /\ UNCHANGED <<data, io, phase, want, sent, got, garbled>>

-----------------------------------------------------------------------------
(* The routes                                                              *)

(* Any key that is given is long enough.                                   *)
Authorized(key) == key # "none"

(* parseRequest() finds a body, and all of it.                             *)
HasBody(s, bytes) == 0 < want[s] /\ bytes = want[s]

(* What the checks of a body may say: only one that is whole may be valid. *)
(* A garbled one is looked at only if the Content-Type is right.           *)
Verdicts(s, bytes) ==
  IF ~HasBody(s, bytes) THEN {"invalid"}
  ELSE IF garbled[s] THEN {"invalid", "throws"} ELSE {"valid", "invalid"}

(* The requests about one account, once the key is checked.                *)
LoginRequest(l, verdicts) ==
  \/ GetAccount(l) \/ GetCharacters(l) \/ DeleteAccount(l)
  \/ \E verdict \in verdicts :
       UpdateAccount(l, verdict) \/ CreateCharacter(l, verdict) \/ BanAccount(l, verdict)

(* The status of the server, and its shutdown and restart, whose effect is *)
(* in ServerLifecycle; the log file may be missing.                        *)
ServerRequest(verdicts) ==
  \/ code' \in {200, 400, 500} /\ SameData
  \/ "throws" \in verdicts /\ Throws
GetLogs == code' \in {200, 404, 500} /\ SameData

(* A request is for one of the routes, or for none.  To create an account  *)
(* no key is needed.  A route is looked up by the whole URI.  A key in the *)
(* query makes it another URI: no exact route matches it, and the routes   *)
(* of one account take the query for a part of the login, which no account *)
(* has, or do not match either.                                            *)
Handle(key, verdicts) ==
  \/ code' = 404 /\ SameData
  \/ ~Authorized(key) /\ code' = 401 /\ SameData
  \/ /\ key # "query"
     /\ \E l \in Logins, verdict \in verdicts : CreateAccount(l, verdict)
  \/ /\ key = "header"
     /\ \/ GetLogs \/ GetAllAccounts \/ ServerRequest(verdicts)
        \/ \E l \in Logins : LoginRequest(l, verdicts)

(* Deviant of RequestDone: the bytes read stay in m_requestBuffer.         *)
RequestDoneKeepsBuffer(s) ==
  /\ want' = [want EXCEPT ![s] = 0]
  /\ sent' = [sent EXCEPT ![s] = 0]
  /\ gone' = [gone EXCEPT ![s] = FALSE] /\ garbled' = [garbled EXCEPT ![s] = FALSE]
  /\ UNCHANGED got

(* Nothing refers to the request any more.                                 *)
RequestDone(s) ==
  /\ want' = [want EXCEPT ![s] = 0]
  /\ sent' = [sent EXCEPT ![s] = 0] /\ got' = [got EXCEPT ![s] = 0]
  /\ gone' = [gone EXCEPT ![s] = FALSE] /\ garbled' = [garbled EXCEPT ![s] = FALSE]

(* An exception leaves the handlers of s: the handler that held the session *)
(* is destroyed with it, the socket is closed, and the IO thread ends.     *)
Escapes(s) == io' = FALSE /\ phase' = [phase EXCEPT ![s] = "lost"]

Replies(s) == phase' = [phase EXCEPT ![s] = "reply"] /\ UNCHANGED io

(* processRequest() and writeResponse(); the body is all that is in        *)
(* m_requestBuffer, and is taken out of it.                                *)
Process(s, bytes) ==
  /\ RequestDone(s)
  /\ \E key \in Keys : Handle(key, Verdicts(s, bytes))
  /\ entire' = (bytes = want[s])
  /\ IF code' = 0 THEN Escapes(s) ELSE Replies(s)

-----------------------------------------------------------------------------
(* The handlers of a session                                               *)

(* stoi() throws on a length out of the range of an int.                   *)
LengthThrows(s) ==
  /\ want[s] = TooLong
  /\ RequestDone(s)
  /\ Escapes(s)
  /\ NoResponse
  /\ UNCHANGED data

(* Deviant of HeaderRead: the bytes already there are taken for the body.  *)
HeaderReadShort(s) ==
  /\ io /\ phase[s] = "header"
  /\ \E k \in 0 .. sent[s] :
       \/ LengthThrows(s)
       \/ want[s] # TooLong /\ Process(s, k)

(* async_read_until() may read on behind the headers: k bytes of the body  *)
(* are there.                                                              *)
HeaderRead(s) ==
  /\ io /\ phase[s] = "header"
  /\ \E k \in 0 .. sent[s] :
       \/ LengthThrows(s)
       \/ /\ want[s] # TooLong /\ k < want[s]
          /\ phase' = [phase EXCEPT ![s] = "body"]
          /\ got' = [got EXCEPT ![s] = k]
          /\ NoResponse
          /\ UNCHANGED <<data, io, want, sent, gone, garbled>>
       \/ want[s] # TooLong /\ k = want[s] /\ Process(s, k)

(* Deviant of BodyRead: the read waits for the whole length again.         *)
BodyReadWaits(s) ==
  /\ io /\ phase[s] = "body"
  /\ sent[s] >= got[s] + want[s]
  /\ Process(s, got[s] + want[s])

(* The read of exactly the bytes that were missing.                        *)
BodyRead(s) ==
  /\ io /\ phase[s] = "body"
  /\ LET missing == want[s] - got[s]
     IN  /\ sent[s] >= got[s] + missing
         /\ Process(s, got[s] + missing)

(* The session is over.                                                    *)
Release(s) ==
  /\ phase' = [phase EXCEPT ![s] = "none"]
  /\ RequestDone(s)
  /\ NoResponse
  /\ UNCHANGED <<data, io>>

ReadFails(s) ==
  /\ io /\ phase[s] \in {"header", "body"} /\ gone[s]
  /\ Release(s)

(* The response is out or has failed: the socket is shut down.             *)
WriteDone(s) ==
  /\ io /\ phase[s] = "reply"
  /\ Release(s)

-----------------------------------------------------------------------------
Next ==
  \E s \in Sessions :
    \/ \E length \in Lengths \union {TooLong} : Accept(s, length)
    \/ Send(s) \/ Leave(s)
    \/ HeaderRead(s) \/ BodyRead(s) \/ ReadFails(s) \/ WriteDone(s)

(* The IO thread runs every handler that is ready; a session has one at a   *)
(* time.                                                                   *)
Fairness == \A s \in Sessions : WF_vars(HeaderRead(s) \/ BodyRead(s) \/ WriteDone(s))

Spec == Init /\ [][Next]_vars /\ Fairness

-----------------------------------------------------------------------------
(* Properties                                                              *)

(* A handler never works on a truncated body, however the bytes arrive.    *)
WholeBody == entire

Complete(s) == phase[s] \in {"header", "body"} /\ want[s] \in Nat /\ sent[s] >= want[s]

(* A request that has arrived completely is answered.  Two cases are left  *)
(* out: a request whose body the error message cannot quote, which its own *)
(* handling may lose, and one that waits while the IO thread has died of   *)
(* the request of another session.                                         *)
Answered ==
  \A s \in Sessions :
    Complete(s) /\ ~gone[s] /\ ~garbled[s] ~>
      \/ phase[s] = "reply"
      \/ gone[s]
      \/ \E r \in Sessions \ {s} : phase[r] = "lost"
=============================================================================
