------------------------- MODULE RestSessions_proofs -------------------------
(***************************************************************************)
(* Proofs about the sessions of the REST server and the accounts they work *)
(* on.  A handler changes the database in one of five ways (DataStep), and *)
(* in none when it answers an error; the properties of the database follow *)
(* from an invariant about every list of characters, those of deleted      *)
(* accounts included, and about the numbers of the accounts.               *)
(***************************************************************************)
EXTENDS RestSessions, TLAPS

(* Room for one more character of that name.                               *)
AddsCharacter(a, n) ==
  /\ ~(Len(characters[a.id]) >= MaxCharacters)
  /\ ~HasCharacter(a, n)
  /\ AddCharacter(a, n)

DataStep ==
  \/ SameData
  \/ \E l \in Logins, p \in Passwords : Insert(l, p) \/ SetPassword(l, p)
  \/ \E l \in Logins : Remove(l)
  \/ \E a \in accounts, n \in Names : AddsCharacter(a, n)

Fits(list) ==
  /\ Len(list) <= MaxCharacters
  /\ \A i, j \in DOMAIN list : list[i].name = list[j].name => i = j

Rowed ==
  /\ accounts \subseteq Account
  /\ lastId \in 0 .. MaxAccounts
  /\ created = lastId
  /\ \A a \in accounts : a.id = a.number

Listed ==
  /\ characters \in [Ids -> Seq(Character)]
  /\ \A id \in Ids : Fits(characters[id])
  /\ \A id \in Ids : \A i \in DOMAIN characters[id] : characters[id][i].number = id

DataInv == Rowed /\ UniqueLogin /\ Listed

-----------------------------------------------------------------------------
(* What a handler may do to the database.  One that is left by an exception *)
(* makes no response and has changed nothing.                              *)
Responds == DataStep /\ code' \in Codes \union {0} /\ (code' >= 400 => SameData)

LEMMA ThrowsResponds == Throws => Responds
BY DEF Throws, Responds, DataStep

LEMMA HandlerSteps ==
  ASSUME NEW key, NEW verdicts, Handle(key, verdicts)
  PROVE  Responds
<1>1. CASE (code' = 404 \/ code' = 401) /\ SameData
  BY <1>1 DEF Responds, DataStep, Codes
<1>2. CASE \E l \in Logins, verdict \in verdicts : CreateAccount(l, verdict)
  <2>1. PICK l \in Logins, verdict \in verdicts : CreateAccount(l, verdict)
    BY <1>2
  <2>2. \/ Throws
        \/ (code' = 400 \/ code' = 409 \/ code' = 500) /\ SameData
        \/ code' = 201 /\ \E p \in Passwords : Insert(l, p)
    BY <2>1, Zenon DEF CreateAccount
  <2> QED
    BY <2>2, ThrowsResponds DEF Responds, DataStep, Codes
<1>3. CASE GetLogs \/ GetAllAccounts \/ ServerRequest(verdicts)
  BY <1>3, ThrowsResponds DEF GetLogs, GetAllAccounts, ServerRequest, Responds, DataStep, Codes
<1>4. CASE \E l \in Logins : LoginRequest(l, verdicts)
  <2>1. PICK l \in Logins : LoginRequest(l, verdicts)
    BY <1>4
  <2>2. CASE GetAccount(l) \/ GetCharacters(l)
    <3>1. (code' = 404 \/ code' \in {200, 404, 500}) /\ SameData
      BY <2>2, Zenon DEF GetAccount, GetCharacters
    <3> QED
      BY <3>1 DEF Responds, DataStep, Codes
  <2>3. CASE DeleteAccount(l)
    <3>1. \/ (code' = 404 \/ code' = 500) /\ SameData
          \/ code' = 200 /\ Remove(l)
      BY <2>3, Zenon DEF DeleteAccount
    <3> QED
      BY <3>1 DEF Responds, DataStep, Codes
  <2>4. ASSUME NEW verdict, UpdateAccount(l, verdict)
        PROVE  Responds
    <3>1. \/ Throws
          \/ (code' = 404 \/ code' \in {400, 500} \/ code' \in {200, 500}) /\ SameData
          \/ code' = 200 /\ \E p \in Passwords : SetPassword(l, p)
      BY <2>4, Zenon DEF UpdateAccount
    <3> QED
      BY <3>1, ThrowsResponds DEF Responds, DataStep, Codes
  <2>5. ASSUME NEW verdict, CreateCharacter(l, verdict)
        PROVE  Responds
    <3>1. \/ Throws
          \/ (code' = 404 \/ code' = 400 \/ code' = 409 \/ code' = 500) /\ SameData
          \/ code' = 201 /\ \E a \in Rows(l), n \in Names : AddsCharacter(a, n)
      BY <2>5, Zenon DEF CreateCharacter, AddsCharacter
    <3> QED
      BY <3>1, ThrowsResponds DEF Responds, DataStep, Codes, Rows
  <2>6. ASSUME NEW verdict, BanAccount(l, verdict)
        PROVE  Responds
    <3>1. \/ Throws
          \/ (code' \in {400, 500} \/ code' = 404 \/ code' \in {200, 500}) /\ SameData
      BY <2>6, Zenon DEF BanAccount
    <3> QED
      BY <3>1, ThrowsResponds DEF Responds, DataStep, Codes
  <2> QED
    BY <2>1, <2>2, <2>3, <2>4, <2>5, <2>6, Zenon DEF LoginRequest
<1> QED
  BY <1>1, <1>2, <1>3, <1>4, Zenon DEF Handle

-----------------------------------------------------------------------------
(* Append, for a list of characters.                                       *)
LEMMA AppendCharacter ==
  ASSUME NEW list \in Seq(Character), NEW c \in Character
  PROVE  /\ Append(list, c) \in Seq(Character)
         /\ Len(list) \in Nat /\ DOMAIN list = 1 .. Len(list)
         /\ Len(Append(list, c)) = Len(list) + 1
         /\ DOMAIN Append(list, c) = 1 .. Len(list) + 1
         /\ \A i \in 1 .. Len(list) : Append(list, c)[i] = list[i]
         /\ Append(list, c)[Len(list) + 1] = c
  OBVIOUS

(* A list that has room for a character, and has none of its name, still   *)
(* fits with it.                                                           *)
LEMMA FitsOneMore ==
  ASSUME NEW list \in Seq(Character), NEW c \in Character,
         Fits(list), ~(Len(list) >= MaxCharacters),
         ~\E i \in DOMAIN list : list[i].name = c.name
  PROVE  Fits(Append(list, c))
<1> DEFINE longer == Append(list, c)
<1>1. Len(longer) = Len(list) + 1 /\ Len(list) \in Nat /\ DOMAIN list = 1 .. Len(list)
      /\ DOMAIN longer = 1 .. Len(list) + 1
  BY AppendCharacter
<1>2. (\A i \in 1 .. Len(list) : longer[i] = list[i]) /\ longer[Len(list) + 1] = c
  BY AppendCharacter
<1> HIDE DEF longer
<1>3. Len(longer) <= MaxCharacters
  BY <1>1, MaxAssumption
<1>4. ASSUME NEW i \in DOMAIN longer, NEW j \in DOMAIN longer, longer[i].name = longer[j].name
      PROVE  i = j
  <2>1. i \in 1 .. Len(list) \/ i = Len(list) + 1
    BY <1>1
  <2>2. j \in 1 .. Len(list) \/ j = Len(list) + 1
    BY <1>1
  <2>3. CASE i \in 1 .. Len(list) /\ j \in 1 .. Len(list)
    BY <2>3, <1>1, <1>2, <1>4 DEF Fits
  <2>4. CASE i \in 1 .. Len(list) /\ j = Len(list) + 1
    BY <2>4, <1>1, <1>2, <1>4
  <2>5. CASE i = Len(list) + 1 /\ j \in 1 .. Len(list)
    BY <2>5, <1>1, <1>2, <1>4
  <2> QED
    BY <2>1, <2>2, <2>3, <2>4, <2>5
<1> QED
  BY <1>3, <1>4 DEF longer, Fits

-----------------------------------------------------------------------------
(* The five kinds of steps keep the invariant of the database.             *)
LEMMA InsertKeeps ==
  ASSUME NEW l \in Logins, NEW p \in Passwords, DataInv, Insert(l, p)
  PROVE  DataInv'
<1> DEFINE row == [id |-> NewId, login |-> l, password |-> p, number |-> created + 1]
<1>1. /\ ~Exists(l) /\ created < MaxAccounts
      /\ created' = created + 1 /\ lastId' = lastId + 1
      /\ accounts' = accounts \union {row}
      /\ characters' = characters
  BY DEF Insert, AddRow, NewId
<1>2. row \in Account /\ row.id = row.number /\ row.login = l
  BY <1>1, MaxAssumption DEF DataInv, Rowed, Account, Ids, NewId
<1>3. \A a \in accounts : a.login # l
  BY <1>1 DEF Exists, Rows
<1> HIDE DEF row
<1>4. Rowed'
  BY <1>1, <1>2, MaxAssumption DEF DataInv, Rowed
<1>5. UniqueLogin'
  BY <1>1, <1>2, <1>3 DEF DataInv, UniqueLogin
<1>6. Listed'
  BY <1>1 DEF DataInv, Listed, Fits
<1> QED
  BY <1>4, <1>5, <1>6 DEF DataInv

LEMMA SetPasswordKeeps ==
  ASSUME NEW l \in Logins, NEW p \in Passwords, DataInv, SetPassword(l, p)
  PROVE  DataInv'
<1> DEFINE new(a) == IF a.login = l THEN [a EXCEPT !.password = p] ELSE a
<1>1. /\ accounts' = {new(a) : a \in accounts}
      /\ lastId' = lastId /\ created' = created /\ characters' = characters
  BY DEF SetPassword
<1>2. \A a \in accounts : new(a) \in Account /\ new(a).login = a.login
                          /\ new(a).id = a.id /\ new(a).number = a.number
  BY DEF DataInv, Rowed, Account
<1> HIDE DEF new
<1>3. Rowed'
  BY <1>1, <1>2 DEF DataInv, Rowed
<1>4. UniqueLogin'
  BY <1>1, <1>2 DEF DataInv, UniqueLogin
<1>5. Listed'
  BY <1>1 DEF DataInv, Listed, Fits
<1> QED
  BY <1>3, <1>4, <1>5 DEF DataInv

LEMMA RemoveKeeps ==
  ASSUME NEW l \in Logins, DataInv, Remove(l)
  PROVE  DataInv'
<1>1. accounts' \subseteq accounts /\ lastId' = lastId /\ created' = created
  BY DEF Remove
<1>2. Rowed' /\ UniqueLogin'
  BY <1>1 DEF DataInv, Rowed, UniqueLogin
<1>3. CASE characters' = characters
  BY <1>2, <1>3 DEF DataInv, Listed, Fits
<1>4. CASE characters' = [id \in Ids |-> IF \E a \in Rows(l) : a.id = id THEN <<>> ELSE characters[id]]
  <2>1. /\ <<>> \in Seq(Character) /\ DOMAIN <<>> = {} /\ Len(<<>>) = 0
        /\ Fits(<<>>)
    BY MaxAssumption DEF Fits
  <2>2. \A id \in Ids : characters'[id] = <<>> \/ characters'[id] = characters[id]
    BY <1>4
  <2>3. characters' \in [Ids -> Seq(Character)]
    BY <1>4, <2>1 DEF DataInv, Listed
  <2>4. \A id \in Ids : Fits(characters'[id])
    BY <2>1, <2>2 DEF DataInv, Listed
  <2>5. \A id \in Ids : \A i \in DOMAIN characters'[id] : characters'[id][i].number = id
    BY <2>1, <2>2 DEF DataInv, Listed
  <2> QED
    BY <1>2, <2>3, <2>4, <2>5 DEF DataInv, Listed, Fits
<1> QED
  BY <1>3, <1>4 DEF Remove

LEMMA AddsCharacterKeeps ==
  ASSUME NEW a \in accounts, NEW n \in Names, DataInv, AddsCharacter(a, n)
  PROVE  DataInv'
<1> DEFINE c == [name |-> n, number |-> a.number]
<1>1. a \in Account /\ a.id \in Ids /\ a.number \in Ids /\ a.id = a.number
  BY DEF DataInv, Rowed, Account
<1>2. c \in Character /\ c.name = n /\ c.number = a.id
  BY <1>1 DEF Character
<1> HIDE DEF c
<1>3. accounts' = accounts /\ lastId' = lastId /\ created' = created
  BY DEF AddsCharacter, AddCharacter
<1>4. characters' = [characters EXCEPT ![a.id] = Append(@, c)]
  BY DEF AddsCharacter, AddCharacter, c
<1>5. characters[a.id] \in Seq(Character) /\ Fits(characters[a.id])
  BY <1>1 DEF DataInv, Listed
<1>6. /\ characters'[a.id] = Append(characters[a.id], c)
      /\ \A id \in Ids : id # a.id => characters'[id] = characters[id]
  BY <1>1, <1>4 DEF DataInv, Listed
<1>7. Fits(characters'[a.id])
  <2>1. ~(Len(characters[a.id]) >= MaxCharacters)
        /\ ~\E i \in DOMAIN characters[a.id] : characters[a.id][i].name = c.name
    BY <1>2 DEF AddsCharacter, HasCharacter
  <2> QED
    BY <1>2, <1>5, <1>6, <2>1, FitsOneMore
<1>8. \A i \in DOMAIN characters'[a.id] : characters'[a.id][i].number = a.id
  BY <1>1, <1>2, <1>5, <1>6, AppendCharacter DEF DataInv, Listed
<1>9. characters' \in [Ids -> Seq(Character)]
  BY <1>1, <1>2, <1>4, <1>5, AppendCharacter DEF DataInv, Listed
<1>10. Listed'
  <2>1. \A id \in Ids : Fits(characters'[id])
    BY <1>6, <1>7 DEF DataInv, Listed
  <2>2. \A id \in Ids : \A i \in DOMAIN characters'[id] : characters'[id][i].number = id
    BY <1>6, <1>8 DEF DataInv, Listed
  <2> QED
    BY <1>9, <2>1, <2>2 DEF Listed, Fits
<1> QED
  BY <1>3, <1>10 DEF DataInv, Rowed, UniqueLogin

LEMMA DataStepKeeps == DataInv /\ DataStep => DataInv'
<1> SUFFICES ASSUME DataInv, DataStep PROVE DataInv'
  OBVIOUS
<1>1. CASE SameData
  BY <1>1 DEF SameData, data, DataInv, Rowed, UniqueLogin, Listed, Fits
<1> QED
  BY <1>1, InsertKeeps, SetPasswordKeeps, RemoveKeeps, AddsCharacterKeeps DEF DataStep

-----------------------------------------------------------------------------
(* The invariant: the database's, the sessions' types, that a session which*)
(* waits for a body knows how many bytes to wait for, and that a response  *)
(* is for a whole body.                                                    *)
SessionType ==
  /\ io \in BOOLEAN
  /\ phase \in [Sessions -> {"none", "header", "body", "reply", "lost"}]
  /\ want \in [Sessions -> Lengths \union {TooLong, 0}]
  /\ sent \in [Sessions -> Nat] /\ got \in [Sessions -> Nat]
  /\ \A s \in Sessions : got[s] <= sent[s]
  /\ gone \in [Sessions -> BOOLEAN] /\ garbled \in [Sessions -> BOOLEAN]

ResponseType == entire \in BOOLEAN /\ code \in Codes \union {0}

BodyAwaited == \A s \in Sessions : phase[s] = "body" => want[s] # TooLong

IInv == DataInv /\ SessionType /\ ResponseType /\ BodyAwaited /\ WholeBody

LEMMA InvImplies == IInv => TypeOK /\ UniqueLogin /\ OwnCharacters /\ CharactersBounded /\ WholeBody
<1> SUFFICES ASSUME IInv PROVE TypeOK /\ OwnCharacters /\ CharactersBounded
  BY DEF IInv, DataInv
<1>1. DataType
  BY DEF IInv, DataInv, Rowed, Listed, ResponseType, DataType
<1>2. \A a \in accounts : a.id \in Ids /\ a.id = a.number
  BY DEF IInv, DataInv, Rowed, Account
<1>3. OwnCharacters
  BY <1>2 DEF IInv, DataInv, Listed, OwnCharacters
<1>4. CharactersBounded
  BY <1>2 DEF IInv, DataInv, Listed, Fits, CharactersBounded
<1> QED
  BY <1>1, <1>3, <1>4 DEF IInv, SessionType, ResponseType, TypeOK

LEMMA InvInit == Init => IInv
<1> SUFFICES ASSUME Init PROVE IInv
  OBVIOUS
<1>1. Rowed /\ UniqueLogin
  BY MaxAssumption DEF Init, DataInit, Rowed, UniqueLogin
<1>2. Listed
  <2>1. <<>> \in Seq(Character) /\ DOMAIN <<>> = {} /\ Len(<<>>) = 0 /\ Fits(<<>>)
    BY MaxAssumption DEF Fits
  <2>2. characters = [id \in Ids |-> <<>>]
    BY DEF Init, DataInit
  <2> QED
    BY <2>1, <2>2 DEF Listed
<1>3. SessionType /\ BodyAwaited
  BY DEF Init, SessionType, BodyAwaited
<1>4. ResponseType /\ WholeBody
  BY DEF Init, DataInit, ResponseType, WholeBody
<1> QED
  BY <1>1, <1>2, <1>3, <1>4 DEF IInv, DataInv

-----------------------------------------------------------------------------
(* What a step does to the database and to the response.                   *)
LEMMA ProcessResponds ==
  ASSUME NEW s \in Sessions, NEW bytes, Process(s, bytes)
  PROVE  /\ Responds
         /\ entire' \in BOOLEAN
         /\ entire' = (bytes = want[s])
<1>1. PICK key \in Keys : Handle(key, Verdicts(s, bytes))
  BY DEF Process
<1>2. Responds
  BY <1>1, HandlerSteps
<1>3. entire' = (bytes = want[s])
  BY DEF Process
<1> QED
  BY <1>2, <1>3

LEMMA NoResponseResponds ==
  ASSUME NoResponse, SameData
  PROVE  Responds /\ entire' \in BOOLEAN /\ entire'
BY DEF NoResponse, Responds, DataStep

(* The steps of the database and the sessions keep the invariant.          *)
LEMMA KeepsData ==
  ASSUME IInv, Responds, entire' \in BOOLEAN, entire'
  PROVE  DataInv' /\ ResponseType' /\ WholeBody'
BY DataStepKeeps DEF IInv, Responds, ResponseType, WholeBody

(* A session whose request is done keeps its types, whatever comes of it.  *)
LEMMA DoneKeepsSession ==
  ASSUME SessionType, BodyAwaited, NEW s \in Sessions, RequestDone(s),
         NEW to \in {"none", "reply", "lost"}, phase' = [phase EXCEPT ![s] = to],
         io' = io \/ io' = FALSE
  PROVE  SessionType' /\ BodyAwaited'
<1>1. /\ want' = [want EXCEPT ![s] = 0] /\ sent' = [sent EXCEPT ![s] = 0]
      /\ got' = [got EXCEPT ![s] = 0] /\ gone' = [gone EXCEPT ![s] = FALSE]
      /\ garbled' = [garbled EXCEPT ![s] = FALSE]
  BY DEF RequestDone
<1>2. SessionType'
  <2>1. io' \in BOOLEAN
    BY DEF SessionType
  <2>2. phase' \in [Sessions -> {"none", "header", "body", "reply", "lost"}]
    BY DEF SessionType
  <2>3. want' \in [Sessions -> Lengths \union {TooLong, 0}]
    BY <1>1 DEF SessionType
  <2>4. /\ sent' \in [Sessions -> Nat] /\ got' \in [Sessions -> Nat]
        /\ \A r \in Sessions : got'[r] <= sent'[r]
    BY <1>1 DEF SessionType
  <2>5. gone' \in [Sessions -> BOOLEAN] /\ garbled' \in [Sessions -> BOOLEAN]
    BY <1>1 DEF SessionType
  <2> QED
    BY <2>1, <2>2, <2>3, <2>4, <2>5 DEF SessionType
<1>3. BodyAwaited'
  BY <1>1 DEF SessionType, BodyAwaited
<1> QED
  BY <1>2, <1>3

LEMMA ProcessKeeps ==
  ASSUME IInv, NEW s \in Sessions, Process(s, want[s])
  PROVE  IInv'
<1>1. DataInv' /\ ResponseType' /\ WholeBody'
  BY ProcessResponds, KeepsData
<1>2. /\ RequestDone(s)
      /\ Escapes(s) \/ Replies(s)
  BY DEF Process
<1>3. SessionType' /\ BodyAwaited'
  BY <1>2, DoneKeepsSession DEF IInv, Escapes, Replies
<1> QED
  BY <1>1, <1>3 DEF IInv

LEMMA ReleaseKeeps ==
  ASSUME IInv, NEW s \in Sessions, Release(s)
  PROVE  IInv'
<1>1. DataInv' /\ ResponseType' /\ WholeBody'
  BY NoResponseResponds, KeepsData DEF Release, SameData
<1>2. SessionType' /\ BodyAwaited'
  BY DoneKeepsSession DEF Release, IInv
<1> QED
  BY <1>1, <1>2 DEF IInv

LEMMA InvNext == IInv /\ [Next]_vars => IInv'
<1> SUFFICES ASSUME IInv, [Next]_vars PROVE IInv'
  OBVIOUS
<1>1. ASSUME NEW s \in Sessions, NEW length \in Lengths \union {TooLong}, Accept(s, length)
      PROVE  IInv'
  <2>1. DataInv' /\ ResponseType' /\ WholeBody'
    BY <1>1, NoResponseResponds, KeepsData DEF Accept, SameData
  <2>2. SessionType' /\ BodyAwaited'
    BY <1>1 DEF Accept, IInv, SessionType, BodyAwaited
  <2> QED
    BY <2>1, <2>2 DEF IInv
<1>2. ASSUME NEW s \in Sessions, Send(s) PROVE IInv'
  <2>1. DataInv' /\ ResponseType' /\ WholeBody'
    BY <1>2, NoResponseResponds, KeepsData DEF Send, SameData
  <2>2. SessionType' /\ BodyAwaited'
    BY <1>2 DEF Send, IInv, SessionType, BodyAwaited
  <2> QED
    BY <2>1, <2>2 DEF IInv
<1>3. ASSUME NEW s \in Sessions, Leave(s) PROVE IInv'
  <2>1. DataInv' /\ ResponseType' /\ WholeBody'
    BY <1>3, NoResponseResponds, KeepsData DEF Leave, SameData
  <2>2. SessionType' /\ BodyAwaited'
    BY <1>3 DEF Leave, IInv, SessionType, BodyAwaited
  <2> QED
    BY <2>1, <2>2 DEF IInv
<1>4. ASSUME NEW s \in Sessions, HeaderRead(s) PROVE IInv'
  <2>1. PICK k \in 0 .. sent[s] :
          \/ LengthThrows(s)
          \/ /\ want[s] # TooLong /\ k < want[s]
             /\ phase' = [phase EXCEPT ![s] = "body"]
             /\ got' = [got EXCEPT ![s] = k]
             /\ NoResponse
             /\ UNCHANGED <<data, io, want, sent, gone, garbled>>
          \/ want[s] # TooLong /\ k = want[s] /\ Process(s, k)
    BY <1>4 DEF HeaderRead
  <2>2. CASE LengthThrows(s)
    <3>1. DataInv' /\ ResponseType' /\ WholeBody'
      BY <2>2, NoResponseResponds, KeepsData DEF LengthThrows, SameData
    <3>2. SessionType' /\ BodyAwaited'
      BY <2>2, DoneKeepsSession DEF LengthThrows, Escapes, IInv
    <3> QED
      BY <3>1, <3>2 DEF IInv
  <2>3. CASE /\ want[s] # TooLong /\ k < want[s]
             /\ phase' = [phase EXCEPT ![s] = "body"]
             /\ got' = [got EXCEPT ![s] = k]
             /\ NoResponse
             /\ UNCHANGED <<data, io, want, sent, gone, garbled>>
    <3>1. DataInv' /\ ResponseType' /\ WholeBody'
      BY <2>3, NoResponseResponds, KeepsData DEF SameData
    <3>2. sent[s] \in Nat /\ k \in Nat /\ k <= sent[s]
      BY DEF IInv, SessionType
    <3>3. SessionType' /\ BodyAwaited'
      BY <2>3, <3>2 DEF IInv, SessionType, BodyAwaited
    <3> QED
      BY <3>1, <3>3 DEF IInv
  <2>4. CASE want[s] # TooLong /\ k = want[s] /\ Process(s, k)
    BY <2>4, ProcessKeeps
  <2> QED
    BY <2>1, <2>2, <2>3, <2>4
<1>5. ASSUME NEW s \in Sessions, BodyRead(s) PROVE IInv'
  <2>1. want[s] \in Nat /\ got[s] \in Nat
    <3>1. phase[s] = "body"
      BY <1>5 DEF BodyRead
    <3>2. want[s] # TooLong
      BY <3>1 DEF IInv, BodyAwaited
    <3>3. want \in [Sessions -> Lengths \union {TooLong, 0}] /\ got \in [Sessions -> Nat]
      BY DEF IInv, SessionType
    <3>4. want[s] \in Lengths \union {TooLong, 0} /\ got[s] \in Nat
      BY <3>3, Zenon
    <3>5. want[s] \in Lengths \/ want[s] = 0
      BY <3>2, <3>4, Zenon
    <3>6. \A x \in Lengths : x \in Nat
      BY LengthsAssumption
    <3>7. 0 \in Nat
      OBVIOUS
    <3>8. want[s] \in Nat
      BY <3>5, <3>6, <3>7, Zenon
    <3> QED
      BY <3>4, <3>8
  <2>2. got[s] + (want[s] - got[s]) = want[s]
    BY <2>1
  <2>3. Process(s, got[s] + (want[s] - got[s]))
    BY <1>5 DEF BodyRead
  <2> QED
    BY <2>2, <2>3, ProcessKeeps
<1>6. ASSUME NEW s \in Sessions, ReadFails(s) \/ WriteDone(s) PROVE IInv'
  BY <1>6, ReleaseKeeps DEF ReadFails, WriteDone
<1>7. CASE UNCHANGED vars
  BY <1>7 DEF vars, data, session, IInv, DataInv, Rowed, UniqueLogin, Listed, Fits, SessionType,
              ResponseType, BodyAwaited, WholeBody
<1> QED
  BY <1>1, <1>2, <1>3, <1>4, <1>5, <1>6, <1>7 DEF Next

LEMMA NextResponds == Next => Responds
<1> SUFFICES ASSUME NEW s \in Sessions,
                    \/ \E length \in Lengths \union {TooLong} : Accept(s, length)
                    \/ Send(s) \/ Leave(s)
                    \/ HeaderRead(s) \/ BodyRead(s) \/ ReadFails(s) \/ WriteDone(s)
             PROVE  Responds
  BY DEF Next
<1>1. CASE NoResponse /\ SameData
  BY <1>1, NoResponseResponds
<1>2. ASSUME NEW bytes, Process(s, bytes) PROVE Responds
  BY <1>2, ProcessResponds
<1>3. CASE HeaderRead(s)
  BY <1>1, <1>2, <1>3 DEF HeaderRead, LengthThrows, SameData
<1>4. CASE BodyRead(s)
  BY <1>2, <1>4 DEF BodyRead
<1> QED
  BY <1>1, <1>3, <1>4 DEF Accept, Send, Leave, ReadFails, WriteDone, Release, SameData

-----------------------------------------------------------------------------
LEMMA Invariance == Spec => []IInv
BY InvInit, InvNext, PTL DEF Spec

(* The sessions, the response and the tables keep their types: lengths     *)
(* that do not fit an int, failing statements and peers that leave         *)
(* included.                                                               *)
THEOREM SessionsTypeCorrect == Spec => []TypeOK
BY Invariance, InvImplies, PTL

(* createAccount() and accountExists() of the database: no login twice.    *)
THEOREM UniqueLoginHolds == Spec => []UniqueLogin
BY Invariance, InvImplies, PTL

(* AUTOINCREMENT: an account never takes over the characters of a deleted  *)
(* one.                                                                    *)
THEOREM OwnCharactersHold == Spec => []OwnCharacters
BY Invariance, InvImplies, PTL

(* AccountController::createCharacter(): the limit and the names.          *)
THEOREM CharactersAreBounded == Spec => []CharactersBounded
BY Invariance, InvImplies, PTL

(* readRequest(): no truncated body is handled, in however many pieces it  *)
(* comes.                                                                  *)
THEOREM BodiesAreWhole == Spec => []WholeBody
BY Invariance, InvImplies, PTL

(* The handlers of AccountController: an error has changed nothing.        *)
THEOREM ErrorsAreHarmless == Spec => ErrorsChangeNothing
<1>1. [Next]_vars => [code' >= 400 => SameData]_<<data, code>>
  BY NextResponds DEF Responds, vars
<1> QED
  BY <1>1, PTL DEF Spec, ErrorsChangeNothing
=============================================================================
