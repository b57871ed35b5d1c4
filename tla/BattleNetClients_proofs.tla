------------------------ MODULE BattleNetClients_proofs ------------------------
(***************************************************************************)
(* For every number of connections, addresses and packets: type            *)
(* correctness, the read loop, and, for a limit of at most one connection  *)
(* per address, that the table knows every live client.                    *)
(***************************************************************************)
EXTENDS BattleNetClients, FiniteSetTheorems, SequenceTheorems, TLAPS

ReadSeq == Seq({"header", "body"})

(* What the completion of a read does to the outstanding reads.            *)
LEMMA ReadCompletesReads ==
  ASSUME TypeOK, NEW c \in Conns, NEW what \in {"header", "body"}, NEW next \in ReadSeq,
         ReadCompletes(c, what, next)
  PROVE  /\ reads' = [reads EXCEPT ![c] = Tail(reads[c]) \o next]
         /\ Tail(reads[c]) \in ReadSeq
         /\ Tail(reads[c]) \o next \in ReadSeq
         /\ Len(Tail(reads[c]) \o next) = Len(reads[c]) - 1 + Len(next)
         /\ reads' \in [Conns -> ReadSeq]
         /\ UNCHANGED <<stage, up, accepting, key>>
<1>1. reads[c] \in ReadSeq /\ reads[c] # <<>>
  BY DEF TypeOK, ReadSeq, ReadCompletes
<1>2. Tail(reads[c]) \in ReadSeq /\ Len(Tail(reads[c])) = Len(reads[c]) - 1
  BY <1>1 DEF ReadSeq
<1>3. /\ Tail(reads[c]) \o next \in ReadSeq
      /\ Len(Tail(reads[c]) \o next) = Len(reads[c]) - 1 + Len(next)
  BY <1>2 DEF ReadSeq
<1>4. reads' = [reads EXCEPT ![c] = Tail(reads[c]) \o next]
  BY DEF ReadCompletes
<1>5. reads' \in [Conns -> ReadSeq]
  BY <1>3, <1>4 DEF TypeOK, ReadSeq
<1>6. QED
  BY <1>2, <1>3, <1>4, <1>5 DEF ReadCompletes

LEMMA NatUpToOne == 0 <= 1 /\ 1 <= 1 /\ \A n \in Nat : n <= 1 => n = 0 \/ n = 1
OBVIOUS

LEMMA SequencesOfReads ==
  /\ <<>> \in ReadSeq /\ <<"header">> \in ReadSeq /\ <<"body">> \in ReadSeq
  /\ Len(<<>>) = 0 /\ Len(<<"header">>) = 1 /\ Len(<<"body">>) = 1
BY DEF ReadSeq

LEMMA RemoveClientType ==
  ASSUME TypeOK, NEW c \in Conns, RemoveClient(c)
  PROVE  clients' \in [Keys -> Conns \union {None}]
BY DEF TypeOK, RemoveClient

LEMMA SendPacketType ==
  ASSUME TypeOK, NEW c \in Conns, SendPacket(c) \/ UNCHANGED <<writes, left>>
  PROVE  /\ writes' \in [Conns -> Nat] /\ left' \in [Conns -> Nat]
         /\ \A d \in Conns : left'[d] <= writes'[d]
<1>1. CASE UNCHANGED <<writes, left>>
  BY <1>1 DEF TypeOK
<1>2. CASE SendPacket(c)
  <2>1. writes' = [writes EXCEPT ![c] = writes[c] + 1] /\ writes[c] + 1 \in Nat
    BY <1>2 DEF SendPacket, TypeOK
  <2>2. left' = [left EXCEPT ![c] = left[c] + 1] \/ left' = left
    BY <1>2 DEF SendPacket
  <2>3. left[c] + 1 \in Nat
    BY DEF TypeOK
  <2>4. writes' \in [Conns -> Nat] /\ left' \in [Conns -> Nat]
    BY <2>1, <2>2, <2>3 DEF TypeOK
  <2>5. ASSUME NEW d \in Conns
        PROVE  left'[d] <= writes'[d]
    <3>1. left[d] \in Nat /\ writes[d] \in Nat /\ left[d] <= writes[d]
      BY DEF TypeOK
    <3>2. writes'[d] = IF d = c THEN writes[d] + 1 ELSE writes[d]
      BY <2>1 DEF TypeOK
    <3>3. left'[d] = left[d] \/ (d = c /\ left'[d] = left[d] + 1)
      BY <2>2 DEF TypeOK
    <3>4. QED
      BY <3>1, <3>2, <3>3
  <2>6. QED
    BY <2>4, <2>5
<1>3. QED
  BY <1>1, <1>2

-----------------------------------------------------------------------------
(* One read of a client completes: the three handlers in one form.         *)
ReadStep(c) ==
  \E what \in {"header", "body"}, next \in {<<>>, <<"header">>, <<"body">>} :
    /\ ReadCompletes(c, what, next)
    /\ \/ /\ sock[c] = "open" /\ next # <<>>
          /\ Stays
       \/ /\ sock[c] = "open" /\ next = <<>>
          /\ CloseAndRemove(c)
       \/ /\ sock[c] = "closed" /\ next = <<>>
          /\ UNCHANGED sock /\ RemoveClient(c)
    /\ SendPacket(c) \/ UNCHANGED <<writes, left>>
    /\ request' \in {request, [request EXCEPT ![c] = TRUE], [request EXCEPT ![c] = FALSE]}
    /\ packets' = packets \/ (packets[c] < MaxPackets /\ packets' = [packets EXCEPT ![c] = @ + 1])
    /\ UNCHANGED intact

LEMMA ReadsAreReadSteps ==
  ASSUME NEW c \in Conns, HeaderRead(c) \/ BodyRead(c) \/ ReadFails(c)
  PROVE  ReadStep(c)
<1>0. <<"header">> # <<>> /\ <<"body">> # <<>>
  OBVIOUS
<1>1. CASE HeaderRead(c)
  <2>1. request' \in {[request EXCEPT ![c] = TRUE], [request EXCEPT ![c] = FALSE]}
    BY <1>1 DEF HeaderRead
  <2>2. CASE ProcessPacket(c, request'[c], "header")
    BY <1>0, <1>1, <2>1, <2>2 DEF HeaderRead, ProcessPacket, ReadStep
  <2>3. CASE ReadCompletes(c, "header", <<"body">>) /\ Stays /\ UNCHANGED <<writes, left>>
    BY <1>0, <1>1, <2>1, <2>3 DEF HeaderRead, ReadStep
  <2>4. CASE ReadCompletes(c, "header", <<>>) /\ CloseAndRemove(c) /\ UNCHANGED <<writes, left>>
    BY <1>0, <1>1, <2>1, <2>4 DEF HeaderRead, ReadStep
  <2>5. QED
    BY <1>1, <2>2, <2>3, <2>4 DEF HeaderRead
<1>2. CASE BodyRead(c)
  BY <1>0, <1>2 DEF BodyRead, ProcessPacket, ReadStep
<1>3. CASE ReadFails(c)
  BY <1>3 DEF ReadFails, ReadStep
<1>4. QED
  BY <1>1, <1>2, <1>3

LEMMA ReadStepType ==
  ASSUME TypeOK, NEW c \in Conns, ReadStep(c)
  PROVE  TypeOK'
<1>1. PICK what \in {"header", "body"}, next \in {<<>>, <<"header">>, <<"body">>} :
        /\ ReadCompletes(c, what, next)
        /\ Stays \/ CloseAndRemove(c) \/ (UNCHANGED sock /\ RemoveClient(c))
  BY DEF ReadStep
<1>2. next \in ReadSeq
  BY SequencesOfReads
<1>3. reads' \in [Conns -> ReadSeq] /\ UNCHANGED <<stage, up, accepting, key>>
  BY <1>1, <1>2, ReadCompletesReads
<1>4. clients' \in [Keys -> Conns \union {None}]
  BY <1>1, RemoveClientType DEF Stays, CloseAndRemove, TypeOK
<1>5. sock' \in [Conns -> {"absent", "backlog", "accepted", "open", "closed"}]
  BY <1>1 DEF Stays, CloseAndRemove, TypeOK
<1>6. /\ writes' \in [Conns -> Nat] /\ left' \in [Conns -> Nat]
      /\ \A d \in Conns : left'[d] <= writes'[d]
  BY SendPacketType DEF ReadStep
<1>7. request' \in [Conns -> BOOLEAN] /\ intact' \in [Conns -> BOOLEAN]
  BY DEF ReadStep, TypeOK
<1>8. packets' \in [Conns -> 0 .. MaxPackets]
  <2>1. packets' = packets \/ (packets[c] < MaxPackets /\ packets' = [packets EXCEPT ![c] = packets[c] + 1])
    BY DEF ReadStep
  <2>2. packets[c] < MaxPackets => packets[c] + 1 \in 0 .. MaxPackets
    BY PacketsAssumption DEF TypeOK
  <2>3. QED
    BY <2>1, <2>2 DEF TypeOK
<1>9. QED
  BY <1>3, <1>4, <1>5, <1>6, <1>7, <1>8 DEF TypeOK, ReadSeq

LEMMA WriteStepType ==
  ASSUME TypeOK, NEW c \in Conns, WriteDone(c) \/ RestSent(c) \/ WriteFails(c)
  PROVE  TypeOK'
<1>1. writes[c] \in Nat /\ left[c] \in Nat /\ left[c] <= writes[c]
  BY DEF TypeOK
<1>2. writes' = [writes EXCEPT ![c] = writes[c] - 1] \/ writes' = writes
  BY DEF WriteDone, RestSent, WriteFails
<1>3. left' = [left EXCEPT ![c] = left[c] - 1] \/ left' = left
  BY DEF WriteDone, RestSent, WriteFails
<1>4. \/ WriteDone(c) /\ writes[c] > left[c] /\ writes' = [writes EXCEPT ![c] = writes[c] - 1] /\ left' = left
      \/ RestSent(c) /\ left[c] > 0 /\ left' = [left EXCEPT ![c] = left[c] - 1] /\ writes' = writes
      \/ /\ WriteFails(c) /\ left[c] > 0
         /\ left' = [left EXCEPT ![c] = left[c] - 1] /\ writes' = [writes EXCEPT ![c] = writes[c] - 1]
  BY DEF WriteDone, RestSent, WriteFails
<1>5. writes' \in [Conns -> Nat] /\ left' \in [Conns -> Nat]
  <2>1. (writes[c] > left[c] \/ left[c] > 0) => writes[c] - 1 \in Nat
    BY <1>1
  <2>2. left[c] > 0 => left[c] - 1 \in Nat
    BY <1>1
  <2>3. QED
    BY <1>4, <2>1, <2>2 DEF TypeOK
<1>6. ASSUME NEW d \in Conns
      PROVE  left'[d] <= writes'[d]
  <2>1. left[d] \in Nat /\ writes[d] \in Nat /\ left[d] <= writes[d]
    BY DEF TypeOK
  <2>2. CASE d # c
    <3>1. left'[d] = left[d] /\ writes'[d] = writes[d]
      BY <1>2, <1>3, <2>2 DEF TypeOK
    <3>2. QED
      BY <2>1, <3>1
  <2>3. CASE d = c
    <3>1. \/ writes[c] > left[c] /\ writes'[c] = writes[c] - 1 /\ left'[c] = left[c]
          \/ left'[c] = left[c] - 1 /\ writes'[c] \in {writes[c], writes[c] - 1}
      BY <1>4 DEF TypeOK
    <3>2. QED
      BY <2>1, <2>3, <3>1
  <2>4. QED
    BY <2>2, <2>3
<1>7. clients' \in [Keys -> Conns \union {None}]
  <2>1. clients' = clients \/ RemoveClient(c)
    BY DEF WriteDone, RestSent, WriteFails, CloseAndRemove
  <2>2. QED
    BY <2>1, RemoveClientType DEF TypeOK
<1>8. sock' \in [Conns -> {"absent", "backlog", "accepted", "open", "closed"}]
  BY DEF WriteDone, RestSent, WriteFails, CloseAndRemove, TypeOK
<1>9. intact' \in [Conns -> BOOLEAN]
  BY DEF WriteDone, RestSent, WriteFails, TypeOK
<1>10. UNCHANGED <<stage, up, accepting, key, reads, request, packets>>
  BY DEF WriteDone, RestSent, WriteFails
<1>11. QED
  BY <1>5, <1>6, <1>7, <1>8, <1>9, <1>10 DEF TypeOK

LEMMA AcceptType ==
  ASSUME TypeOK, NEW c \in Conns, Accept(c)
  PROVE  TypeOK'
<1>1. CASE AcceptCheck(c)
  BY <1>1 DEF AcceptCheck, TypeOK
<1>2. CASE Register(c)
  <2>1. PICK k \in Keys : key' = [key EXCEPT ![c] = k] /\ clients' = [clients EXCEPT ![k] = c]
    <3>1. {IpOf[c]} \union (IF up[c] THEN {} ELSE {"unknown"}) \subseteq Keys
      BY IpAssumption DEF Keys
    <3>2. QED
      BY <1>2, <3>1 DEF Register, AddressOf
  <2>2. reads[c] \in ReadSeq /\ Append(reads[c], "header") \in ReadSeq
    BY DEF TypeOK, ReadSeq
  <2>3. reads' \in [Conns -> ReadSeq]
    BY <1>2, <2>2 DEF Register, AddressOf, TypeOK, ReadSeq
  <2>4. key' \in [Conns -> Keys] /\ clients' \in [Keys -> Conns \union {None}]
    BY <2>1 DEF TypeOK
  <2>5. QED
    BY <1>2, <2>3, <2>4 DEF Register, AddressOf, TypeOK, ReadSeq
<1>3. QED
  BY <1>1, <1>2 DEF Accept

(* The variables keep to the values the code can give them: no write is    *)
(* counted off that was not begun, no client is kept under a key the table *)
(* does not have.                                                          *)
THEOREM ClientsTypeCorrect == Spec => []TypeOK
<1>1. Init => TypeOK
  BY PacketsAssumption, SequencesOfReads DEF Init, TypeOK, Keys, ReadSeq
<1>2. TypeOK /\ [Next]_vars => TypeOK'
  <2> SUFFICES ASSUME TypeOK, [Next]_vars
               PROVE  TypeOK'
    OBVIOUS
  <2>1. ASSUME NEW c \in Conns, Peer(c)
        PROVE  TypeOK'
    BY <2>1 DEF Peer, Connect, Leave, io, TypeOK
  <2>2. ASSUME NEW c \in Conns, Accept(c)
        PROVE  TypeOK'
    BY <2>2, AcceptType
  <2>3. ASSUME NEW c \in Conns, Client(c)
        PROVE  TypeOK'
    BY <2>3, ReadsAreReadSteps, ReadStepType, WriteStepType DEF Client
  <2>4. CASE CleanupClients
    BY <2>4 DEF CleanupClients, io, TypeOK
  <2>5. CASE Shutdown
    BY <2>5 DEF Shutdown, ShutdownStop, ShutdownJoin, ShutdownClear, io, TypeOK
  <2>6. CASE UNCHANGED vars
    BY <2>6 DEF vars, io, TypeOK
  <2>7. QED
    BY <2>1, <2>2, <2>3, <2>4, <2>5, <2>6 DEF Next
<1>3. QED
  BY <1>1, <1>2, PTL DEF Spec

-----------------------------------------------------------------------------
(* The read loop                                                           *)

(* Before start() a client reads nothing, and the connection handleAccept()*)
(* holds has not been started.                                             *)
NotStarted ==
  /\ \A c \in Conns : sock[c] \in {"absent", "backlog", "accepted"} => reads[c] = <<>>
  /\ accepting # None => sock[accepting] = "accepted"

ReadInv == OneReadEach /\ NotStarted

LEMMA ReadInvInit == Init => ReadInv
<1> SUFFICES ASSUME Init PROVE ReadInv
  OBVIOUS
<1>1. Len(<<>>) = 0
  OBVIOUS
<1>2. QED
  BY <1>1 DEF Init, ReadInv, OneReadEach, NotStarted

(* A read that completes leaves one outstanding, or closes the socket.     *)
LEMMA ReadStepReadInv ==
  ASSUME TypeOK, ReadInv, NEW c \in Conns, ReadStep(c)
  PROVE  ReadInv'
<1>1. PICK what \in {"header", "body"}, next \in {<<>>, <<"header">>, <<"body">>} :
        /\ ReadCompletes(c, what, next)
        /\ \/ sock[c] = "open" /\ next # <<>> /\ Stays
           \/ sock[c] = "open" /\ next = <<>> /\ CloseAndRemove(c)
           \/ sock[c] = "closed" /\ next = <<>> /\ UNCHANGED sock
  BY DEF ReadStep
<1>2. next \in ReadSeq
  BY SequencesOfReads
<1>3. /\ reads' = [reads EXCEPT ![c] = Tail(reads[c]) \o next]
      /\ Len(Tail(reads[c]) \o next) = Len(reads[c]) - 1 + Len(next)
      /\ UNCHANGED accepting
  BY <1>1, <1>2, ReadCompletesReads
<1>4. Len(reads[c]) = 1
  <2>1. reads[c] # <<>> /\ reads[c] \in ReadSeq /\ Len(reads[c]) <= 1
    BY <1>1 DEF ReadCompletes, ReadInv, OneReadEach, TypeOK, ReadSeq
  <2>2. Len(reads[c]) # 0
    BY <2>1, EmptySeq DEF ReadSeq
  <2>3. Len(reads[c]) \in Nat
    BY <2>1 DEF ReadSeq
  <2>4. QED
    BY <2>1, <2>2, <2>3, NatUpToOne
<1>5. reads'[c] = Tail(reads[c]) \o next /\ \A d \in Conns \ {c} : reads'[d] = reads[d]
  BY <1>3 DEF TypeOK
<1>6. Len(reads'[c]) = Len(next)
  BY <1>3, <1>4, <1>5, SequencesOfReads
<1>7. \/ sock' = sock /\ sock[c] = "open" /\ next # <<>>
      \/ sock' = [sock EXCEPT ![c] = "closed"] /\ next = <<>>
      \/ sock' = sock /\ sock[c] = "closed" /\ next = <<>>
  BY <1>1 DEF Stays, CloseAndRemove
<1>8. /\ \A d \in Conns \ {c} : sock'[d] = sock[d]
      /\ \/ sock'[c] = "open" /\ Len(next) = 1
         \/ sock'[c] = "closed" /\ Len(next) = 0
      /\ sock[c] \in {"open", "closed"}
  BY <1>1, <1>7, SequencesOfReads DEF TypeOK
<1>9. OneReadEach'
  <2> SUFFICES ASSUME NEW d \in Conns
               PROVE  Len(reads'[d]) <= 1 /\ (sock'[d] = "open" => Len(reads'[d]) = 1)
    BY DEF OneReadEach
  <2>1. CASE d = c
    <3>1. \/ sock'[c] = "open" /\ Len(reads'[c]) = 1
          \/ sock'[c] = "closed" /\ Len(reads'[c]) = 0
      BY <1>6, <1>8
    <3>2. Len(reads'[c]) <= 1
      BY <3>1, NatUpToOne
    <3>3. sock'[c] = "open" => Len(reads'[c]) = 1
      BY <3>1
    <3>4. QED
      BY <2>1, <3>2, <3>3
  <2>2. CASE d # c
    BY <1>5, <1>8, <2>2 DEF ReadInv, OneReadEach
  <2>3. QED
    BY <2>1, <2>2
<1>10. NotStarted'
  BY <1>3, <1>5, <1>8, NoneAssumption DEF ReadInv, NotStarted, TypeOK
<1>11. QED
  BY <1>9, <1>10 DEF ReadInv

LEMMA ReadInvNext == TypeOK /\ ReadInv /\ [Next]_vars => ReadInv'
<1> SUFFICES ASSUME TypeOK, ReadInv, [Next]_vars
             PROVE  ReadInv'
  OBVIOUS
<1>1. ASSUME NEW c \in Conns, Peer(c)
      PROVE  ReadInv'
  BY <1>1, NoneAssumption DEF Peer, Connect, Leave, io, TypeOK, ReadInv, OneReadEach, NotStarted
<1>2. ASSUME NEW c \in Conns, AcceptCheck(c)
      PROVE  ReadInv'
  <2>1. /\ sock[c] = "backlog" /\ accepting = None /\ UNCHANGED reads
        /\ \/ sock' = [sock EXCEPT ![c] = "closed"] /\ accepting' = None
           \/ sock' = [sock EXCEPT ![c] = "accepted"] /\ accepting' = c
    BY <1>2 DEF AcceptCheck, IoThread
  <2>2. reads[c] = <<>> /\ Len(<<>>) = 0
    BY <2>1 DEF ReadInv, NotStarted
  <2>3. OneReadEach'
    BY <2>1, <2>2 DEF ReadInv, OneReadEach, TypeOK
  <2>4. NotStarted'
    BY <2>1, <2>2, NoneAssumption DEF ReadInv, NotStarted, TypeOK
  <2>5. QED
    BY <2>3, <2>4 DEF ReadInv
<1>3. ASSUME NEW c \in Conns, Register(c)
      PROVE  ReadInv'
  <2>1. /\ accepting = c /\ accepting' = None
        /\ sock' = [sock EXCEPT ![c] = "open"]
        /\ reads' = [reads EXCEPT ![c] = Append(reads[c], "header")]
    BY <1>3 DEF Register, AddressOf
  <2>2. reads[c] = <<>> /\ Append(<<>>, "header") = <<"header">>
    BY <2>1, NoneAssumption DEF ReadInv, NotStarted
  <2>3. reads'[c] = <<"header">> /\ \A d \in Conns \ {c} : reads'[d] = reads[d]
    BY <2>1, <2>2 DEF TypeOK
  <2>4. OneReadEach'
    <3>1. Len(reads'[c]) = 1
      BY <2>3, SequencesOfReads
    <3>2. \A d \in Conns \ {c} : sock'[d] = sock[d]
      BY <2>1 DEF TypeOK
    <3>3. Len(reads'[c]) <= 1
      BY <3>1, NatUpToOne
    <3>4. \A d \in Conns \ {c} :
            Len(reads'[d]) <= 1 /\ (sock'[d] = "open" => Len(reads'[d]) = 1)
      BY <2>3, <3>2 DEF ReadInv, OneReadEach
    <3>5. QED
      BY <3>1, <3>3, <3>4 DEF OneReadEach
  <2>5. NotStarted'
    BY <2>1, <2>3 DEF ReadInv, NotStarted, TypeOK
  <2>6. QED
    BY <2>4, <2>5 DEF ReadInv
<1>4. ASSUME NEW c \in Conns, Client(c)
      PROVE  ReadInv'
  <2>1. CASE HeaderRead(c) \/ BodyRead(c) \/ ReadFails(c)
    BY <2>1, ReadsAreReadSteps, ReadStepReadInv
  <2>2. CASE WriteDone(c) \/ RestSent(c)
    BY <2>2 DEF WriteDone, RestSent, ReadInv, OneReadEach, NotStarted
  <2>3. CASE WriteFails(c)
    <3>1. /\ sock' = [sock EXCEPT ![c] = "closed"] /\ UNCHANGED <<accepting, reads>>
          /\ accepting = None
      BY <2>3 DEF WriteFails, CloseAndRemove, IoThread
    <3>2. QED
      BY <3>1 DEF ReadInv, OneReadEach, NotStarted, TypeOK
  <2>4. QED
    BY <1>4, <2>1, <2>2, <2>3 DEF Client
<1>5. CASE CleanupClients \/ Shutdown \/ UNCHANGED vars
  <2>1. UNCHANGED io
    BY <1>5 DEF CleanupClients, Shutdown, ShutdownStop, ShutdownJoin, ShutdownClear, vars
  <2>2. QED
    BY <2>1 DEF io, ReadInv, OneReadEach, NotStarted
<1>6. QED
  BY <1>1, <1>2, <1>3, <1>4, <1>5 DEF Next, Accept

(* An open client has exactly one read outstanding, whatever its peer and  *)
(* the other clients do.                                                   *)
THEOREM OneReadEachHolds == Spec => []OneReadEach
<1>1. Spec => []TypeOK
  BY ClientsTypeCorrect
<1>2. ReadInv => OneReadEach
  BY DEF ReadInv
<1>3. QED
  BY <1>1, <1>2, ReadInvInit, ReadInvNext, PTL DEF Spec

-----------------------------------------------------------------------------
(* The entries of the table, whatever the limit.                           *)

(* An entry is kept under the address of a client that has been started.   *)
EntryIsClient ==
  \A k \in Keys : clients[k] # None =>
    key[clients[k]] = k /\ sock[clients[k]] \in {"open", "closed"}

LEMMA EntriesInit == Init => EntryIsClient
BY DEF Init, EntryIsClient

LEMMA CloseEntries ==
  ASSUME TypeOK, EntryIsClient, NEW c \in Conns, UNCHANGED key,
         \/ CloseAndRemove(c)
         \/ RemoveClient(c) /\ UNCHANGED sock
  PROVE  EntryIsClient'
<1>1. clients' = [k \in Keys |-> IF clients[k] = c THEN None ELSE clients[k]]
  BY DEF CloseAndRemove, RemoveClient
<1>2. \A d \in Conns \ {c} : sock'[d] = sock[d]
  BY DEF CloseAndRemove, TypeOK
<1> SUFFICES ASSUME NEW k \in Keys, clients'[k] # None
             PROVE  key[clients'[k]] = k /\ sock'[clients'[k]] \in {"open", "closed"}
  BY DEF EntryIsClient
<1>3. clients'[k] = clients[k] /\ clients[k] \in Conns \ {c}
  BY <1>1 DEF TypeOK
<1> QED BY <1>2, <1>3, NoneAssumption DEF EntryIsClient

LEMMA EntriesNext == TypeOK /\ ReadInv /\ EntryIsClient /\ [Next]_vars => EntryIsClient'
<1> SUFFICES ASSUME TypeOK, ReadInv, EntryIsClient, [Next]_vars
             PROVE  EntryIsClient'
  OBVIOUS
<1>1. ASSUME NEW c \in Conns, Connect(c) \/ AcceptCheck(c)
      PROVE  EntryIsClient'
  <2>1. /\ sock[c] \in {"absent", "backlog"} /\ UNCHANGED <<clients, key>>
        /\ \A d \in Conns \ {c} : sock'[d] = sock[d]
    BY <1>1 DEF Connect, AcceptCheck, TypeOK
  <2>2. ASSUME NEW k \in Keys, clients[k] # None
        PROVE  key[clients[k]] = k /\ sock'[clients[k]] \in {"open", "closed"}
    <3>1. clients[k] \in Conns /\ key[clients[k]] = k /\ sock[clients[k]] \in {"open", "closed"}
      BY <2>2 DEF EntryIsClient, TypeOK
    <3> QED BY <2>1, <3>1
  <2> QED BY <2>1, <2>2 DEF EntryIsClient
<1>2. ASSUME NEW c \in Conns, Register(c)
      PROVE  EntryIsClient'
  <2>1. PICK k \in {IpOf[c], "unknown"} :
          key' = [key EXCEPT ![c] = k] /\ clients' = [clients EXCEPT ![k] = c]
    BY <1>2 DEF Register, AddressOf
  <2>2. sock[c] = "accepted" /\ k \in Keys /\ sock' = [sock EXCEPT ![c] = "open"]
    BY <1>2, NoneAssumption, IpAssumption DEF Register, ReadInv, NotStarted, Keys
  <2>3. /\ key'[c] = k /\ \A d \in Conns \ {c} : key'[d] = key[d] /\ sock'[d] = sock[d]
        /\ sock'[c] = "open"
        /\ clients'[k] = c /\ \A j \in Keys \ {k} : clients'[j] = clients[j]
    BY <2>1, <2>2 DEF TypeOK
  <2> SUFFICES ASSUME NEW j \in Keys, clients'[j] # None
               PROVE  key'[clients'[j]] = j /\ sock'[clients'[j]] \in {"open", "closed"}
    BY DEF EntryIsClient
  <2>4. CASE j = k
    BY <2>3, <2>4
  <2>5. CASE j # k
    <3>1. clients'[j] = clients[j] /\ clients[j] \in Conns
      BY <2>3, <2>5 DEF TypeOK
    <3>2. key[clients[j]] = j /\ sock[clients[j]] \in {"open", "closed"}
      BY <3>1 DEF EntryIsClient
    <3>3. clients[j] # c
      BY <2>2, <3>2
    <3> QED BY <2>3, <3>1, <3>2, <3>3
  <2> QED BY <2>4, <2>5
<1>3. ASSUME NEW c \in Conns, Client(c)
      PROVE  EntryIsClient'
  <2>1. CASE HeaderRead(c) \/ BodyRead(c) \/ ReadFails(c)
    <3>1. ReadStep(c)
      BY <2>1, ReadsAreReadSteps
    <3>2. /\ UNCHANGED key
          /\ \/ Stays
             \/ CloseAndRemove(c)
             \/ UNCHANGED sock /\ RemoveClient(c)
      BY <3>1 DEF ReadStep, ReadCompletes
    <3>3. CASE Stays
      BY <3>2, <3>3 DEF Stays, EntryIsClient
    <3>4. CASE ~Stays
      BY <3>2, <3>4, CloseEntries
    <3> QED BY <3>3, <3>4
  <2>2. CASE WriteDone(c) \/ RestSent(c)
    BY <2>2 DEF WriteDone, RestSent, EntryIsClient
  <2>3. CASE WriteFails(c)
    BY <2>3, CloseEntries DEF WriteFails
  <2> QED BY <1>3, <2>1, <2>2, <2>3 DEF Client
<1>4. CASE CleanupClients
  BY <1>4 DEF CleanupClients, io, EntryIsClient
<1>5. CASE Shutdown
  BY <1>5 DEF Shutdown, ShutdownStop, ShutdownJoin, ShutdownClear, io, TypeOK, EntryIsClient
<1>6. CASE UNCHANGED vars \/ \E c \in Conns : Leave(c)
  BY <1>6 DEF vars, Leave, io, EntryIsClient
<1> QED BY <1>1, <1>2, <1>3, <1>4, <1>5, <1>6 DEF Next, Peer, Accept

(* handleAccept() never counts more than one connection of an address,     *)
(* however many there are: its table has one entry per address.  A limit   *)
(* of two or more is therefore never reached, and refuses nobody.          *)
THEOREM HigherLimitsAreNone ==
  Spec => [](\A ip \in Ips : /\ Counted(ip) \in {0, 1}
                             /\ MaxPerIp \geq 2 => ~Full(Counted(ip)))
<1> DEFINE AtMostOne == \A ip \in Ips : /\ Counted(ip) \in {0, 1}
                                        /\ MaxPerIp \geq 2 => ~Full(Counted(ip))
<1>1. TypeOK /\ EntryIsClient => AtMostOne
  <2> SUFFICES ASSUME TypeOK, EntryIsClient, NEW ip \in Ips
               PROVE  /\ Counted(ip) \in {0, 1}
                      /\ MaxPerIp \geq 2 => ~Full(Counted(ip))
    OBVIOUS
  <2> DEFINE S == {k \in Keys : clients[k] # None /\ key[clients[k]] = ip}
  <2>1. S \subseteq {ip}
    BY DEF EntryIsClient
  <2>2. Cardinality({ip}) = 1 /\ IsFiniteSet({ip})
    BY FS_Singleton
  <2>3. IsFiniteSet(S) /\ Cardinality(S) <= 1 /\ Cardinality(S) \in Nat
    BY <2>1, <2>2, FS_Subset, FS_CardinalityType
  <2>4. Counted(ip) = Cardinality(S)
    BY DEF Counted
  <2> HIDE DEF S
  <2> QED BY <2>3, <2>4, LimitAssumption DEF Full
<1> HIDE DEF AtMostOne
<1>2. Spec => []AtMostOne
  BY <1>1, ClientsTypeCorrect, ReadInvInit, ReadInvNext, EntriesInit, EntriesNext, PTL DEF Spec
<1> QED BY <1>2 DEF AtMostOne

-----------------------------------------------------------------------------
(* The table, when the limit is at most one connection per address.        *)

(* While handleAccept() is between its critical sections, no open client   *)
(* has the address of the connection it will register.                     *)
AddressIsFree ==
  accepting # None /\ stage # "down" =>
    \A d \in Conns : sock[d] = "open" => key[d] # IpOf[accepting]

TableInv == OwnsEntry /\ EntryIsClient /\ AddressIsFree

(* A table with no client of an address counts none.                       *)
LEMMA CountedNone ==
  ASSUME TypeOK, MaxPerIp \in {0, 1}, NEW ip, ~Full(Counted(ip))
  PROVE  \A k \in Keys : clients[k] # None => key[clients[k]] # ip
<1> DEFINE S == {k \in Keys : clients[k] # None /\ key[clients[k]] = ip}
<1>1. IsFiniteSet(Keys)
  <2>1. IsFiniteSet({"unknown"})
    BY FS_Singleton
  <2>2. QED
    BY <2>1, IpAssumption, FS_Union DEF Keys
<1>2. IsFiniteSet(S)
  BY <1>1, FS_Subset
<1>3. Cardinality(S) \in Nat
  BY <1>2, FS_CardinalityType
<1>4. Cardinality(S) = Counted(ip)
  BY DEF Counted
<1>5. Cardinality(S) = 0
  BY <1>3, <1>4 DEF Full
<1>6. S = {}
  BY <1>2, <1>5, FS_EmptySet
<1>7. QED
  BY <1>6

LEMMA TableInvInit == Init => TableInv
BY DEF Init, TableInv, OwnsEntry, EntryIsClient, AddressIsFree

(* A client that takes itself out leaves the others' entries alone, and is *)
(* closed if it was open.                                                  *)
LEMMA CloseTableInv ==
  ASSUME TypeOK, TableInv, EntryIsClient', NEW c \in Conns, UNCHANGED <<stage, accepting, key>>,
         \/ CloseAndRemove(c)
         \/ RemoveClient(c) /\ UNCHANGED sock /\ sock[c] = "closed"
  PROVE  TableInv'
<1>1. clients' = [k \in Keys |-> IF clients[k] = c THEN None ELSE clients[k]]
  BY DEF CloseAndRemove, RemoveClient
<1>2. sock'[c] = "closed" /\ \A d \in Conns \ {c} : sock'[d] = sock[d]
  BY DEF CloseAndRemove, TypeOK
<1>3. OwnsEntry'
  <2> SUFFICES ASSUME stage # "down", NEW d \in Conns, sock'[d] = "open", key[d] # "unknown"
               PROVE  clients'[key[d]] = d
    BY DEF OwnsEntry
  <2>1. d # c /\ sock[d] = "open"
    BY <1>2
  <2>2. key[d] \in Keys /\ clients[key[d]] = d
    BY <2>1 DEF TableInv, OwnsEntry, TypeOK
  <2>3. QED
    BY <1>1, <2>1, <2>2
<1>5. AddressIsFree'
  BY <1>2 DEF TableInv, AddressIsFree, TypeOK
<1>6. QED
  BY <1>3, <1>5 DEF TableInv

LEMMA AcceptCheckTableInv ==
  ASSUME TypeOK, TableInv, EntryIsClient', MaxPerIp \in {0, 1}, NEW c \in Conns, AcceptCheck(c)
  PROVE  TableInv'
<1>1. /\ sock[c] = "backlog" /\ stage = "up" /\ accepting = None
      /\ UNCHANGED <<stage, clients, key>>
      /\ \/ sock' = [sock EXCEPT ![c] = "closed"] /\ accepting' = None
         \/ sock' = [sock EXCEPT ![c] = "accepted"] /\ accepting' = c /\ ~Full(Counted(IpOf[c]))
  BY DEF AcceptCheck, IoThread
<1>2. /\ sock'[c] \in {"closed", "accepted"}
      /\ \A d \in Conns \ {c} : sock'[d] = sock[d]
  BY <1>1 DEF TypeOK
<1>3. OwnsEntry'
  BY <1>1, <1>2 DEF TableInv, OwnsEntry
<1>5. AddressIsFree'
  <2> SUFFICES ASSUME accepting' # None, NEW d \in Conns, sock'[d] = "open"
               PROVE  key[d] # IpOf[accepting']
    BY <1>1 DEF AddressIsFree
  <2>1. accepting' = c /\ ~Full(Counted(IpOf[c]))
    BY <1>1
  <2>2. d # c /\ sock[d] = "open"
    BY <1>2
  <2>3. IpOf[c] \in Ips /\ IpOf[c] # "unknown"
    BY IpAssumption
  <2>4. SUFFICES ASSUME key[d] = IpOf[c] PROVE FALSE
    BY <2>1
  <2>5. clients[key[d]] = d /\ key[d] \in Keys
    BY <1>1, <2>2, <2>3, <2>4 DEF TableInv, OwnsEntry, TypeOK
  <2>6. d # None
    BY NoneAssumption
  <2>7. \A k \in Keys : clients[k] # None => key[clients[k]] # IpOf[c]
    BY <2>1, CountedNone
  <2>8. QED
    BY <2>4, <2>5, <2>6, <2>7
<1>6. QED
  BY <1>3, <1>5 DEF TableInv

LEMMA RegisterTableInv ==
  ASSUME TypeOK, ReadInv, TableInv, EntryIsClient', NEW c \in Conns, Register(c)
  PROVE  TableInv'
<1>1. PICK k \in {IpOf[c], "unknown"} :
        key' = [key EXCEPT ![c] = k] /\ clients' = [clients EXCEPT ![k] = c]
  BY DEF Register, AddressOf
<1>2. /\ accepting = c /\ accepting' = None /\ stage' = stage
      /\ sock' = [sock EXCEPT ![c] = "open"]
  BY DEF Register, AddressOf
<1>3. sock[c] = "accepted" /\ k \in Keys
  BY <1>2, NoneAssumption, IpAssumption DEF ReadInv, NotStarted, Keys
<1>4. /\ key'[c] = k /\ \A d \in Conns \ {c} : key'[d] = key[d] /\ sock'[d] = sock[d]
      /\ sock'[c] = "open"
      /\ clients'[k] = c /\ \A j \in Keys \ {k} : clients'[j] = clients[j]
  BY <1>1, <1>2, <1>3 DEF TypeOK
<1>5. OwnsEntry'
  <2> SUFFICES ASSUME stage # "down", NEW d \in Conns, sock'[d] = "open", key'[d] # "unknown"
               PROVE  clients'[key'[d]] = d
    BY <1>2 DEF OwnsEntry
  <2>1. CASE d = c
    BY <1>4, <2>1
  <2>2. CASE d # c
    <3>1. sock[d] = "open" /\ key'[d] = key[d] /\ key[d] \in Keys
      BY <1>4, <2>2 DEF TypeOK
    <3>2. key[d] # IpOf[c]
      BY <1>2, <3>1, NoneAssumption DEF TableInv, AddressIsFree
    <3>3. key[d] # k
      BY <1>1, <3>1, <3>2
    <3>4. clients[key[d]] = d
      BY <3>1 DEF TableInv, OwnsEntry
    <3>5. QED
      BY <1>4, <3>1, <3>3, <3>4
  <2>3. QED
    BY <2>1, <2>2
<1>7. AddressIsFree'
  BY <1>2 DEF AddressIsFree
<1>8. QED
  BY <1>5, <1>7 DEF TableInv

LEMMA TableInvNext ==
  MaxPerIp \in {0, 1} => (TypeOK /\ ReadInv /\ TableInv /\ [Next]_vars => TableInv')
<1> SUFFICES ASSUME MaxPerIp \in {0, 1}, TypeOK, ReadInv, TableInv, [Next]_vars
             PROVE  TableInv'
  OBVIOUS
<1>0. EntryIsClient'
  BY EntriesNext DEF TableInv
<1>1. ASSUME NEW c \in Conns, Peer(c)
      PROVE  TableInv'
  <2>1. CASE Leave(c)
    BY <2>1 DEF Leave, io, TableInv, OwnsEntry, EntryIsClient, AddressIsFree
  <2>2. CASE Connect(c)
    <3>1. /\ sock[c] = "absent" /\ sock' = [sock EXCEPT ![c] = "backlog"]
          /\ UNCHANGED <<stage, clients, accepting, key>>
      BY <2>2 DEF Connect
    <3>2. sock'[c] = "backlog" /\ \A d \in Conns \ {c} : sock'[d] = sock[d]
      BY <3>1 DEF TypeOK
    <3>3. OwnsEntry' /\ AddressIsFree'
      BY <3>1, <3>2 DEF TableInv, OwnsEntry, AddressIsFree
    <3>5. QED
      BY <1>0, <3>3 DEF TableInv
  <2>3. QED
    BY <1>1, <2>1, <2>2 DEF Peer
<1>2. ASSUME NEW c \in Conns, Accept(c)
      PROVE  TableInv'
  BY <1>0, <1>2, AcceptCheckTableInv, RegisterTableInv DEF Accept
<1>3. ASSUME NEW c \in Conns, Client(c)
      PROVE  TableInv'
  <2>1. CASE HeaderRead(c) \/ BodyRead(c) \/ ReadFails(c)
    <3>1. ReadStep(c)
      BY <2>1, ReadsAreReadSteps
    <3>2. /\ UNCHANGED <<stage, accepting, key>>
          /\ \/ Stays
             \/ CloseAndRemove(c)
             \/ UNCHANGED sock /\ RemoveClient(c) /\ sock[c] = "closed"
      BY <3>1 DEF ReadStep, ReadCompletes
    <3>3. CASE Stays
      BY <3>2, <3>3 DEF Stays, TableInv, OwnsEntry, EntryIsClient, AddressIsFree
    <3>4. CASE ~Stays
      BY <1>0, <3>2, <3>4, CloseTableInv
    <3>5. QED
      BY <3>3, <3>4
  <2>2. CASE WriteDone(c) \/ RestSent(c)
    BY <2>2 DEF WriteDone, RestSent, TableInv, OwnsEntry, EntryIsClient, AddressIsFree
  <2>3. CASE WriteFails(c)
    BY <1>0, <2>3, CloseTableInv DEF WriteFails
  <2>4. QED
    BY <1>3, <2>1, <2>2, <2>3 DEF Client
<1>4. CASE CleanupClients
  <2>1. /\ UNCHANGED <<stage, accepting, sock, key>>
        /\ clients' = [k \in Keys |->
             IF clients[k] # None /\ sock[clients[k]] # "open" THEN None ELSE clients[k]]
    BY <1>4 DEF CleanupClients, io
  <2>2. OwnsEntry'
    BY <2>1 DEF TableInv, OwnsEntry, TypeOK
  <2>4. QED
    BY <1>0, <2>1, <2>2 DEF TableInv, AddressIsFree
<1>5. CASE Shutdown
  BY <1>5 DEF Shutdown, ShutdownStop, ShutdownJoin, ShutdownClear, io, TypeOK,
              TableInv, OwnsEntry, EntryIsClient, AddressIsFree
<1>6. CASE UNCHANGED vars
  BY <1>6 DEF vars, io, TableInv, OwnsEntry, EntryIsClient, AddressIsFree
<1>7. QED
  BY <1>1, <1>2, <1>3, <1>4, <1>5, <1>6 DEF Next

(* With a limit of at most one connection per address, every live client   *)
(* whose address is known is the one the table keeps for it, until         *)
(* shutdown() clears the table.                                            *)
THEOREM OwnsEntryHolds == MaxPerIp \in {0, 1} => (Spec => []OwnsEntry)
<1>1. Spec => []TypeOK
  BY ClientsTypeCorrect
<1>2. TableInv => OwnsEntry
  BY DEF TableInv
<1>3. MaxPerIp \in {0, 1} => (Init /\ []TypeOK /\ [][Next]_vars => []TableInv)
  <2> SUFFICES ASSUME MaxPerIp \in {0, 1}
               PROVE  Init /\ []TypeOK /\ [][Next]_vars => []TableInv
    OBVIOUS
  <2>1. TypeOK /\ ReadInv /\ TableInv /\ [Next]_vars => TableInv'
    BY TableInvNext
  <2>2. QED
    BY <2>1, ReadInvInit, ReadInvNext, TableInvInit, PTL
<1>4. QED
  BY <1>1, <1>2, <1>3, PTL DEF Spec

-----------------------------------------------------------------------------
(* The limit.                                                              *)

Live(c) == sock[c] = "open" /\ up[c]

(* A live client goes by the address its connection came from, and is the  *)
(* only one to do so; that handleAccept() is not under way once shutdown() *)
(* has joined the IO thread keeps it so when the table has been cleared.   *)
LiveUnderItsIp == \A c \in Conns : Live(c) => key[c] = IpOf[c]
OnePerIp == \A c, d \in Conns : Live(c) /\ Live(d) /\ IpOf[c] = IpOf[d] => c = d
JoinedIsIdle == stage \in {"joined", "down"} => accepting = None
ZeroAdmitsNone == MaxPerIp = 0 => accepting = None /\ \A c \in Conns : sock[c] # "open"

LimitInv == LiveUnderItsIp /\ OnePerIp /\ JoinedIsIdle /\ ZeroAdmitsNone

(* Nothing but Register() opens a socket, gives a client a key, or brings  *)
(* a peer back.                                                            *)
OpensNothing ==
  /\ UNCHANGED key
  /\ \A c \in Conns : /\ sock'[c] = "open" => sock[c] = "open"
                      /\ up'[c] => up[c]

LEMMA CloseOpensNothing ==
  ASSUME TypeOK, NEW c \in Conns, UNCHANGED <<key, up>>, CloseAndRemove(c) \/ UNCHANGED sock
  PROVE  OpensNothing
BY DEF OpensNothing, CloseAndRemove, TypeOK

LEMMA OnlyRegisterOpens ==
  ASSUME TypeOK, [Next]_vars, \A c \in Conns : ~Register(c)
  PROVE  OpensNothing
<1>1. ASSUME NEW c \in Conns, Peer(c) \/ AcceptCheck(c)
      PROVE  OpensNothing
  BY <1>1 DEF Peer, Connect, Leave, AcceptCheck, io, OpensNothing, TypeOK
<1>2. ASSUME NEW c \in Conns, Client(c)
      PROVE  OpensNothing
  <2>1. CASE HeaderRead(c) \/ BodyRead(c) \/ ReadFails(c)
    <3>1. UNCHANGED <<key, up>> /\ (CloseAndRemove(c) \/ UNCHANGED sock)
      BY <2>1, ReadsAreReadSteps DEF ReadStep, ReadCompletes, Stays
    <3> QED BY <3>1, CloseOpensNothing
  <2>2. CASE WriteDone(c) \/ RestSent(c) \/ WriteFails(c)
    <3>1. UNCHANGED <<key, up>> /\ (CloseAndRemove(c) \/ UNCHANGED sock)
      BY <2>2 DEF WriteDone, RestSent, WriteFails
    <3> QED BY <3>1, CloseOpensNothing
  <2> QED BY <1>2, <2>1, <2>2 DEF Client
<1>3. CASE CleanupClients \/ Shutdown \/ UNCHANGED vars
  BY <1>3 DEF CleanupClients, Shutdown, ShutdownStop, ShutdownJoin, ShutdownClear, vars, io,
              OpensNothing
<1> QED BY <1>1, <1>2, <1>3 DEF Next, Accept

(* handleAccept() starts only while the server is up, and shutdown() goes  *)
(* past the join only when none is under way.                              *)
LEMMA JoinedStaysIdle ==
  ASSUME TypeOK, JoinedIsIdle, [Next]_vars
  PROVE  JoinedIsIdle'
<1>1. ASSUME NEW c \in Conns, Peer(c) \/ Accept(c)
      PROVE  JoinedIsIdle'
  BY <1>1 DEF Peer, Connect, Leave, Accept, AcceptCheck, Register, IoThread, io, JoinedIsIdle
<1>2. ASSUME NEW c \in Conns, Client(c)
      PROVE  UNCHANGED <<stage, accepting>>
  <2>1. CASE HeaderRead(c) \/ BodyRead(c) \/ ReadFails(c)
    BY <2>1, ReadsAreReadSteps DEF ReadStep, ReadCompletes
  <2>2. CASE WriteDone(c) \/ RestSent(c) \/ WriteFails(c)
    BY <2>2 DEF WriteDone, RestSent, WriteFails
  <2> QED BY <1>2, <2>1, <2>2 DEF Client
<1>3. CASE CleanupClients \/ Shutdown \/ UNCHANGED vars
  BY <1>3 DEF CleanupClients, Shutdown, ShutdownStop, ShutdownJoin, ShutdownClear, vars, io,
              JoinedIsIdle
<1> QED BY <1>1, <1>2, <1>3 DEF Next, JoinedIsIdle

(* With a limit of 0 every address is full.                                *)
LEMMA ZeroIsFull ==
  ASSUME TypeOK, MaxPerIp = 0, NEW ip
  PROVE  Full(Counted(ip))
<1> DEFINE S == {k \in Keys : clients[k] # None /\ key[clients[k]] = ip}
<1>1. IsFiniteSet(S)
  <2>1. IsFiniteSet({"unknown"})
    BY FS_Singleton
  <2>2. IsFiniteSet(Keys)
    BY <2>1, IpAssumption, FS_Union DEF Keys
  <2> QED BY <2>2, FS_Subset
<1>2. Cardinality(S) \in Nat /\ Cardinality(S) = Counted(ip)
  BY <1>1, FS_CardinalityType DEF Counted
<1> QED BY <1>2 DEF Full

LEMMA ZeroStaysEmpty ==
  ASSUME TypeOK, ZeroAdmitsNone, MaxPerIp = 0, [Next]_vars
  PROVE  accepting' = None /\ \A c \in Conns : sock'[c] # "open"
<1>1. accepting = None /\ \A c \in Conns : sock[c] # "open" /\ ~Register(c)
  BY NoneAssumption DEF ZeroAdmitsNone, Register
<1>2. \A c \in Conns : sock'[c] # "open"
  BY <1>1, OnlyRegisterOpens DEF OpensNothing
<1>3. ASSUME NEW c \in Conns, Peer(c) \/ AcceptCheck(c)
      PROVE  accepting' = None
  BY <1>1, <1>3, ZeroIsFull DEF Peer, Connect, Leave, AcceptCheck, io
<1>4. ASSUME NEW c \in Conns, Client(c)
      PROVE  UNCHANGED accepting
  <2>1. CASE HeaderRead(c) \/ BodyRead(c) \/ ReadFails(c)
    BY <2>1, ReadsAreReadSteps DEF ReadStep, ReadCompletes
  <2>2. CASE WriteDone(c) \/ RestSent(c) \/ WriteFails(c)
    BY <2>2 DEF WriteDone, RestSent, WriteFails
  <2> QED BY <1>4, <2>1, <2>2 DEF Client
<1>5. ASSUME CleanupClients \/ Shutdown \/ UNCHANGED vars
      PROVE  UNCHANGED accepting
  BY <1>5 DEF CleanupClients, Shutdown, ShutdownStop, ShutdownJoin, ShutdownClear, vars, io
<1>6. accepting' = None
  BY <1>1, <1>3, <1>4, <1>5 DEF Next, Accept
<1> QED BY <1>2, <1>6

(* A client is registered under its own address, which nobody has.         *)
LEMMA RegisterIsAlone ==
  ASSUME TypeOK, TableInv, LimitInv, NEW c \in Conns, Register(c)
  PROVE  LiveUnderItsIp' /\ OnePerIp'
<1>1. PICK k \in AddressOf(c) : key' = [key EXCEPT ![c] = k]
  BY DEF Register
<1>2. /\ accepting = c /\ UNCHANGED up
      /\ sock' = [sock EXCEPT ![c] = "open"]
  BY DEF Register
<1>3. stage # "down"
  BY <1>2, NoneAssumption DEF LimitInv, JoinedIsIdle
<1>4. /\ sock'[c] = "open" /\ key'[c] = k
      /\ \A d \in Conns \ {c} : sock'[d] = sock[d] /\ key'[d] = key[d]
  BY <1>1, <1>2 DEF TypeOK
<1>5. up[c] => k = IpOf[c]
  BY <1>1 DEF AddressOf
<1>6. LiveUnderItsIp'
  BY <1>2, <1>4, <1>5 DEF LimitInv, LiveUnderItsIp, Live
<1>7. \A d \in Conns \ {c} : Live(d) => IpOf[d] # IpOf[c]
  BY <1>2, <1>3, NoneAssumption DEF LimitInv, LiveUnderItsIp, Live, TableInv, AddressIsFree
<1>8. \A d \in Conns \ {c} : Live(d)' => Live(d)
  BY <1>2, <1>4 DEF Live
<1>9. OnePerIp'
  BY <1>7, <1>8 DEF LimitInv, OnePerIp
<1> QED BY <1>6, <1>9

LEMMA LimitInvNext ==
  TypeOK /\ TableInv /\ LimitInv /\ [Next]_vars => LimitInv'
<1> SUFFICES ASSUME TypeOK, TableInv, LimitInv, [Next]_vars
             PROVE  LimitInv'
  OBVIOUS
<1>1. JoinedIsIdle' /\ ZeroAdmitsNone'
  BY JoinedStaysIdle, ZeroStaysEmpty DEF LimitInv, ZeroAdmitsNone
<1>2. CASE \E c \in Conns : Register(c)
  BY <1>1, <1>2, RegisterIsAlone DEF LimitInv
<1>3. CASE \A c \in Conns : ~Register(c)
  <2>1. UNCHANGED key /\ \A c \in Conns : Live(c)' => Live(c)
    BY <1>3, OnlyRegisterOpens DEF OpensNothing, Live
  <2>2. LiveUnderItsIp' /\ OnePerIp'
    BY <2>1 DEF LimitInv, LiveUnderItsIp, OnePerIp
  <2> QED BY <1>1, <2>2 DEF LimitInv
<1> QED BY <1>2, <1>3

LEMMA LimitInvLimits ==
  ASSUME MaxPerIp \in {0, 1}, LimitInv
  PROVE  LimitHolds
<1> SUFFICES ASSUME NEW ip \in Ips
             PROVE  Cardinality(OpenFrom(ip)) <= MaxPerIp
  BY DEF LimitHolds
<1>1. \A c \in OpenFrom(ip) : c \in Conns /\ Live(c) /\ IpOf[c] = ip
  BY DEF OpenFrom, Live
<1>2. CASE OpenFrom(ip) = {}
  BY <1>2, FS_EmptySet
<1>3. CASE OpenFrom(ip) # {}
  <2>1. PICK c \in Conns : c \in OpenFrom(ip)
    BY <1>1, <1>3
  <2>2. OpenFrom(ip) = {c}
    BY <1>1, <2>1 DEF LimitInv, OnePerIp
  <2>3. MaxPerIp = 1
    BY <1>1, <2>1 DEF LimitInv, ZeroAdmitsNone, Live
  <2> QED BY <2>2, <2>3, FS_Singleton
<1> QED BY <1>2, <1>3

(* With a limit of at most one connection per address, no address ever has *)
(* more live connections than that, shutdown() or not: what the comment in *)
(* handleAccept() says, which is false of every larger limit.              *)
THEOREM LimitOfOneHolds == MaxPerIp \in {0, 1} => (Spec => []LimitHolds)
<1>1. Init => LimitInv
  BY DEF Init, LimitInv, LiveUnderItsIp, OnePerIp, JoinedIsIdle, ZeroAdmitsNone, Live
<1>2. MaxPerIp \in {0, 1} => (Init /\ []TypeOK /\ [][Next]_vars => []LimitHolds)
  <2> SUFFICES ASSUME MaxPerIp \in {0, 1}
               PROVE  Init /\ []TypeOK /\ [][Next]_vars => []LimitHolds
    OBVIOUS
  <2>1. TypeOK /\ ReadInv /\ TableInv /\ [Next]_vars => TableInv'
    BY TableInvNext
  <2>2. LimitInv => LimitHolds
    BY LimitInvLimits
  <2>3. QED
    BY <1>1, <2>1, <2>2, ReadInvInit, ReadInvNext, TableInvInit, LimitInvNext, PTL
<1>3. QED
  BY <1>2, ClientsTypeCorrect, PTL DEF Spec
=============================================================================
