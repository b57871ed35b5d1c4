--------------------------- MODULE BattleNetClients ---------------------------
(***************************************************************************)
(* The connections of the Battle.net server, from run() to shutdown().     *)
(*                                                                         *)
(* Every completion handler runs on the one IO thread, so a handler is one *)
(* step; handleAccept() is two, because the run() thread may clean up the  *)
(* table between its two critical sections.  The table m_clients is keyed  *)
(* by the address of the client.  A connection is one attempt of a peer;   *)
(* m_isAuthenticated and m_accountLogin are left out: nothing reads them   *)
(* but a log line.                                                         *)
(***************************************************************************)
EXTENDS Integers, Sequences, FiniteSets

CONSTANTS
  Conns,       \* the connections peers make
  Ips,         \* the addresses of the peers
  IpOf,        \* IpOf[c]: the address c comes from
  None,        \* no connection
  MaxPerIp,    \* config: MaxAccountsPerIP, an int
  MaxPackets   \* bound: packets a peer sends on one connection

ASSUME IpAssumption == IpOf \in [Conns -> Ips] /\ "unknown" \notin Ips /\ IsFiniteSet(Ips)
ASSUME NoneAssumption == None \notin Conns
ASSUME LimitAssumption == MaxPerIp \in Int
ASSUME PacketsAssumption == MaxPackets \in Nat

VARIABLES
  stage,      \* how far shutdown() is
  clients,    \* m_clients: the connection kept under each key, or None
  accepting,  \* the connection handleAccept() is between its critical sections with
  sock,       \* sock[c]: the state of its socket
  key,        \* key[c]: m_clientIpAddress
  up,         \* up[c]: the peer has not gone away
  reads,      \* reads[c]: the outstanding async_reads, oldest first
  request,    \* request[c]: whether the header last read asks for an answer
  packets,    \* packets[c]: the headers read
  writes,     \* writes[c]: async_writes whose handler has not run
  left,       \* left[c]: those of them with bytes still to be sent
  intact      \* intact[c]: the bytes sent were those of the packets

io == <<accepting, sock, key, reads, request, packets, writes, left, intact>>
vars == <<stage, clients, up, io>>

Keys == Ips \union {"unknown"}

TypeOK ==
  /\ stage \in {"up", "stopped", "joined", "down"}
  /\ clients \in [Keys -> Conns \union {None}]
  /\ accepting \in Conns \union {None}
  /\ sock \in [Conns -> {"absent", "backlog", "accepted", "open", "closed"}]
  /\ key \in [Conns -> Keys]
  /\ up \in [Conns -> BOOLEAN]
  /\ reads \in [Conns -> Seq({"header", "body"})]
  /\ request \in [Conns -> BOOLEAN]
  /\ packets \in [Conns -> 0 .. MaxPackets]
  /\ writes \in [Conns -> Nat] /\ left \in [Conns -> Nat]
  /\ \A c \in Conns : left[c] <= writes[c]
  /\ intact \in [Conns -> BOOLEAN]

(* run() has called startAccept() and the IO thread is up.                 *)
Init ==
  /\ stage = "up"
  /\ clients = [k \in Keys |-> None]
  /\ accepting = None
  /\ sock = [c \in Conns |-> "absent"]
  /\ key = [c \in Conns |-> "unknown"]
  /\ up = [c \in Conns |-> TRUE]
  /\ reads = [c \in Conns |-> <<>>]
  /\ request = [c \in Conns |-> FALSE]
  /\ packets = [c \in Conns |-> 0]
  /\ writes = [c \in Conns |-> 0] /\ left = [c \in Conns |-> 0]
  /\ intact = [c \in Conns |-> TRUE]

-----------------------------------------------------------------------------
(* The peers                                                               *)

Connect(c) ==
  /\ sock[c] = "absent"
  /\ sock' = [sock EXCEPT ![c] = "backlog"]
  /\ UNCHANGED <<stage, clients, up, accepting, key, reads, request, packets, writes, left, intact>>

Leave(c) ==
  /\ sock[c] # "absent" /\ up[c]
  /\ up' = [up EXCEPT ![c] = FALSE]
  /\ UNCHANGED <<stage, clients, io>>

-----------------------------------------------------------------------------
(* handleAccept()                                                          *)

(* A handler starts on the IO thread when no other one is under way.       *)
IoThread == stage = "up" /\ accepting = None

Counted(ip) == Cardinality({k \in Keys : clients[k] # None /\ key[clients[k]] = ip})

(* static_cast<size_t>: a negative limit is no limit.                      *)
Full(n) == MaxPerIp >= 0 /\ n >= MaxPerIp

(* Deviant of AcceptCheck: the limit is tested off by one.                 *)
AcceptCheckOffByOne(c) ==
  /\ IoThread
  /\ sock[c] = "backlog"
  /\ IF Full(Counted(IpOf[c]) - 1)
       THEN sock' = [sock EXCEPT ![c] = "closed"] /\ UNCHANGED accepting
       ELSE /\ accepting' = c
            /\ sock' = [sock EXCEPT ![c] = "accepted"]
  /\ UNCHANGED <<stage, clients, up, key, reads, request, packets, writes, left, intact>>

(* An accept that fails, a peer that is gone and a full address end the    *)
(* connection.                                                             *)
AcceptCheck(c) ==
  /\ IoThread
  /\ sock[c] = "backlog"
  /\ \/ /\ ~up[c] \/ Full(Counted(IpOf[c]))
        /\ sock' = [sock EXCEPT ![c] = "closed"]
        /\ UNCHANGED accepting
     \/ /\ ~Full(Counted(IpOf[c]))
        /\ accepting' = c
        /\ sock' = [sock EXCEPT ![c] = "accepted"]
  /\ UNCHANGED <<stage, clients, up, key, reads, request, packets, writes, left, intact>>

(* The client asks for its peer's address again; a peer that went away in  *)
(* between may leave it with none.                                         *)
AddressOf(c) == {IpOf[c]} \union IF up[c] THEN {} ELSE {"unknown"}

(* Deviant of Register: the address of a client whose peer has none stays  *)
(* empty.                                                                  *)
RegisterUnnamed(c) ==
  /\ accepting = c
  /\ \E k \in {IpOf[c]} \union IF up[c] THEN {} ELSE {""} :
       /\ key' = [key EXCEPT ![c] = k]
       /\ clients' = [clients EXCEPT ![k] = c]
  /\ sock' = [sock EXCEPT ![c] = "open"]
  /\ reads' = [reads EXCEPT ![c] = Append(@, "header")]
  /\ accepting' = None
  /\ UNCHANGED <<stage, up, request, packets, writes, left, intact>>

(* The entry of the address is overwritten.                                *)
Register(c) ==
  /\ accepting = c
  /\ \E k \in AddressOf(c) :
       /\ key' = [key EXCEPT ![c] = k]
       /\ clients' = [clients EXCEPT ![k] = c]
  /\ sock' = [sock EXCEPT ![c] = "open"]
  /\ reads' = [reads EXCEPT ![c] = Append(@, "header")]
  /\ accepting' = None
  /\ UNCHANGED <<stage, up, request, packets, writes, left, intact>>

-----------------------------------------------------------------------------
(* The read loop of a client                                               *)

(* Deviant of RemoveClient: whatever is kept under the client's address    *)
(* goes.                                                                   *)
RemoveByAddress(c) == clients' = [clients EXCEPT ![key[c]] = None]

(* removeClient() is declared and called but never defined: what its       *)
(* comment says, the client removes itself from the active set.            *)
RemoveClient(c) == clients' = [k \in Keys |-> IF clients[k] = c THEN None ELSE clients[k]]

(* Deviant of CloseAndRemove: the caller leaves both to the next check.    *)
LeaveToNextCheck(c) == UNCHANGED <<sock, clients>>

CloseAndRemove(c) ==
  /\ sock' = [sock EXCEPT ![c] = "closed"]
  /\ RemoveClient(c)

Stays == UNCHANGED <<sock, clients>>

(* The oldest outstanding read of c, for what, completes and the client    *)
(* goes on to next.                                                        *)
ReadCompletes(c, what, next) ==
  /\ IoThread
  /\ reads[c] # <<>> /\ Head(reads[c]) = what
  /\ reads' = [reads EXCEPT ![c] = Tail(@) \o next]
  /\ UNCHANGED <<stage, up, accepting, key>>

(* sendPacket() and doWrite(): what the socket takes at once goes out      *)
(* intact; the rest, which has to wait, when another write waits too, is   *)
(* taken later from a buffer that sendPacket() has destroyed by then.      *)
SendPacket(c) ==
  /\ writes' = [writes EXCEPT ![c] = @ + 1]
  /\ \/ left' = [left EXCEPT ![c] = @ + 1]
     \/ left[c] = 0 /\ UNCHANGED left

(* Deviant of ProcessPacket: an answered packet starts the next read in    *)
(* its handler as well.                                                    *)
ProcessPacketReadsTwice(c, answered, what) ==
  /\ ReadCompletes(c, what, IF answered THEN <<"header", "header">> ELSE <<"header">>)
  /\ IF answered THEN SendPacket(c) ELSE UNCHANGED <<writes, left>>
  /\ Stays

(* An authentication request is answered, any other packet is dropped; the *)
(* next header is read either way.                                         *)
ProcessPacket(c, answered, what) ==
  /\ ReadCompletes(c, what, <<"header">>)
  /\ IF answered THEN SendPacket(c) ELSE UNCHANGED <<writes, left>>
  /\ Stays

HeaderRead(c) ==
  /\ sock[c] = "open"
  /\ packets[c] < MaxPackets
  /\ packets' = [packets EXCEPT ![c] = @ + 1]
  /\ \E answered \in BOOLEAN : request' = [request EXCEPT ![c] = answered]
  /\ UNCHANGED intact
  /\ \/ ProcessPacket(c, request'[c], "header")
     \/ ReadCompletes(c, "header", <<"body">>) /\ Stays /\ UNCHANGED <<writes, left>>
     \/ ReadCompletes(c, "header", <<>>) /\ CloseAndRemove(c) /\ UNCHANGED <<writes, left>>

BodyRead(c) ==
  /\ sock[c] = "open"
  /\ ProcessPacket(c, request[c], "body")
  /\ UNCHANGED <<request, packets, intact>>

(* The peer went away, or close() cancelled the read: close() is then a    *)
(* step of the past and the client removes itself once more.               *)
ReadFails(c) ==
  /\ \/ sock[c] = "open" /\ ~up[c] /\ CloseAndRemove(c)
     \/ sock[c] = "closed" /\ UNCHANGED sock /\ RemoveClient(c)
  /\ \E what \in {"header", "body"} : ReadCompletes(c, what, <<>>)
  /\ UNCHANGED <<request, packets, writes, left, intact>>

-----------------------------------------------------------------------------
(* handleWrite()                                                           *)

(* The handler of a write that is complete, whether or not the socket is   *)
(* still open.                                                             *)
WriteDone(c) ==
  /\ IoThread
  /\ writes[c] > left[c]
  /\ writes' = [writes EXCEPT ![c] = @ - 1]
  /\ UNCHANGED <<stage, clients, up, accepting, sock, key, reads, request, packets, left, intact>>

(* The socket takes the rest of a write, from memory that is no longer its *)
(* own: any bytes may go out.                                              *)
RestSent(c) ==
  /\ IoThread
  /\ sock[c] = "open" /\ up[c] /\ left[c] > 0
  /\ left' = [left EXCEPT ![c] = @ - 1]
  /\ intact' \in {intact, [intact EXCEPT ![c] = FALSE]}
  /\ UNCHANGED <<stage, clients, up, accepting, sock, key, reads, request, packets, writes>>

WriteFails(c) ==
  /\ IoThread
  /\ left[c] > 0 /\ (~up[c] \/ sock[c] = "closed")
  /\ writes' = [writes EXCEPT ![c] = @ - 1]
  /\ left' = [left EXCEPT ![c] = @ - 1]
  /\ CloseAndRemove(c)
  /\ UNCHANGED <<stage, up, accepting, key, reads, request, packets, intact>>

-----------------------------------------------------------------------------
(* The run() thread and shutdown()                                         *)

CleanupClients ==
  /\ stage = "up"
  /\ clients' = [k \in Keys |->
                   IF clients[k] # None /\ sock[clients[k]] # "open" THEN None ELSE clients[k]]
  /\ UNCHANGED <<stage, up, io>>

(* m_running is lowered and the IO context stopped: no handler starts from *)
(* then on, and the one under way is waited for.                           *)
ShutdownStop == stage = "up" /\ stage' = "stopped" /\ UNCHANGED <<clients, up, io>>

ShutdownJoin ==
  /\ stage = "stopped" /\ accepting = None
  /\ stage' = "joined"
  /\ UNCHANGED <<clients, up, io>>

ShutdownClear ==
  /\ stage = "joined"
  /\ clients' = [k \in Keys |-> None]
  /\ stage' = "down"
  /\ UNCHANGED <<up, io>>

-----------------------------------------------------------------------------
Peer(c) == Connect(c) \/ Leave(c)
Accept(c) == AcceptCheck(c) \/ Register(c)
Client(c) == HeaderRead(c) \/ BodyRead(c) \/ ReadFails(c) \/ WriteDone(c) \/ RestSent(c) \/ WriteFails(c)
Shutdown == ShutdownStop \/ ShutdownJoin \/ ShutdownClear

Next ==
  \/ \E c \in Conns : Peer(c) \/ Accept(c) \/ Client(c)
  \/ CleanupClients
  \/ Shutdown

(* The IO thread runs every handler that is ready, the run() thread cleans *)
(* up every 10 ms, and a shutdown that has begun goes on.  Peers owe       *)
(* nothing, and shutdown() need not be called.                             *)
Fairness ==
  /\ \A c \in Conns : WF_vars(Register(c)) /\ WF_vars(ReadFails(c))
  /\ WF_vars(CleanupClients)
  /\ WF_vars(ShutdownJoin) /\ WF_vars(ShutdownClear)

Spec == Init /\ [][Next]_vars /\ Fairness

-----------------------------------------------------------------------------
(* Properties                                                              *)

OpenFrom(ip) == {c \in Conns : sock[c] = "open" /\ up[c] /\ IpOf[c] = ip}

(* "Check if client IP is already connected too many times": an address    *)
(* never has more live connections than the limit of the configuration.    *)
(* True of a limit of one only: the table keeps one client per address.    *)
LimitHolds == MaxPerIp >= 0 => \A ip \in Ips : Cardinality(OpenFrom(ip)) <= MaxPerIp

(* Until shutdown() clears the table, a client whose socket is open and    *)
(* whose address is known is the one the table keeps for that address: it  *)
(* is counted, and a second client's end does not take it out.             *)
OwnsEntry ==
  stage # "down" => \A c \in Conns : sock[c] = "open" /\ key[c] # "unknown" => clients[key[c]] = c

(* An open client has exactly one read outstanding, so that no two reads   *)
(* fill m_readBuffer and no live connection is left without one; a closed  *)
(* one has at most the read that close() cancelled.                        *)
OneReadEach ==
  \A c \in Conns : /\ Len(reads[c]) <= 1
                   /\ sock[c] = "open" => Len(reads[c]) = 1

(* What the peer receives are the packets that were sent.                  *)
SentIntact == \A c \in Conns : intact[c]

InTable(c) == \E k \in Keys : clients[k] = c

(* A client whose peer has gone away leaves the table for good; until then *)
(* its address is locked out.                                              *)
GoneIsRemoved == \A c \in Conns : ~up[c] ~> []~InTable(c)
=============================================================================
