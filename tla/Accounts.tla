-------------------------------- MODULE Accounts --------------------------------
(***************************************************************************)
(* The accounts and characters of the database and what the account        *)
(* controller does with them: one operator per request handler, given the  *)
(* arguments of the request.  Email, battle tag, salts, time stamps and    *)
(* the fields of a character other than its name are left out.             *)
(*                                                                         *)
(* A statement may fail.  accountExists() then answers "no" (line 215) and *)
(* an insertion answers false.  The statements that DatabaseManager only   *)
(* declares are modelled from how the controller uses them, and are taken  *)
(* to answer truly when they answer.                                       *)
(*                                                                         *)
(* The checks of a body end in a verdict: it is "valid", it is "invalid"   *)
(* and the handler answers 400, or the answer itself "throws".  For a body *)
(* that does not parse, parseRequestJson() builds its answer from the      *)
(* parser's message, which quotes the body up to the byte that was wrong;  *)
(* dump() throws on a message that is not UTF-8, and nothing catches it.   *)
(***************************************************************************)
EXTENDS Naturals, Sequences

CONSTANTS
  Logins,         \* valid login names
  Passwords,      \* valid passwords
  Names,          \* valid character names
  MaxCharacters,  \* config: MaxCharactersPerAccount
  MaxAccounts     \* bound: accounts ever created

ASSUME MaxAssumption == MaxCharacters \in Nat /\ MaxAccounts \in Nat

VARIABLES
  accounts,    \* the rows of the table accounts
  lastId,      \* the largest id the table has given out (AUTOINCREMENT)
  created,     \* the accounts ever created
  characters,  \* characters[id]: the rows of the table characters with account_id = id
  code         \* the status code of the response this step has made; 0: it made none

data == <<accounts, lastId, created, characters>>

(* A row of accounts, and the number of the account among all ever created;*)
(* a row of characters, and the account it was created for.                *)
Ids == 1 .. MaxAccounts
Account == [id : Ids, login : Logins, password : Passwords, number : Ids]
Character == [name : Names, number : Ids]

Codes == {200, 201, 400, 401, 404, 409, 500}

DataType ==
  /\ accounts \subseteq Account
  /\ lastId \in 0 .. MaxAccounts /\ created \in 0 .. MaxAccounts
  /\ characters \in [Ids -> Seq(Character)]
  /\ code \in Codes \union {0}

DataInit ==
  /\ accounts = {} /\ lastId = 0 /\ created = 0
  /\ characters = [id \in Ids |-> <<>>]
  /\ code = 0

SameData == UNCHANGED data

Rows(l) == {a \in accounts : a.login = l}
Exists(l) == Rows(l) # {}

(* What accountExists() may answer.                                        *)
SaysExists(l) == {Exists(l), FALSE}

-----------------------------------------------------------------------------
(* Deviants of NewId: a primary key without AUTOINCREMENT gives out the    *)
(* largest id present and one.                                             *)
NewIdReused == CHOOSE id \in 1 .. MaxAccounts + 1 :
  (\A a \in accounts : a.id < id) /\ (id = 1 \/ \E a \in accounts : a.id = id - 1)

NewId == lastId + 1

AddRow(l, p) ==
  /\ created < MaxAccounts
  /\ created' = created + 1
  /\ lastId' = NewId
  /\ accounts' = accounts \union {[id |-> NewId, login |-> l, password |-> p, number |-> created + 1]}
  /\ UNCHANGED characters

(* Deviant of Insert: a table without the UNIQUE constraint.               *)
InsertAny(l, p) == AddRow(l, p)

(* The statement of DatabaseManager::createAccount; login is UNIQUE.       *)
Insert(l, p) == ~Exists(l) /\ AddRow(l, p)

(* The handler is left by an exception, without a response.                *)
Throws == code' = 0 /\ SameData

(* The controller asks whether the account exists, and createAccount() of  *)
(* the database asks again before it inserts.                              *)
CreateAccount(l, verdict) ==
  \/ verdict = "throws" /\ Throws
  \/ verdict = "invalid" /\ code' = 400 /\ SameData
  \/ verdict = "valid" /\ TRUE \in SaysExists(l) /\ code' = 409 /\ SameData
  \/ /\ verdict = "valid" /\ FALSE \in SaysExists(l)
     /\ \/ code' = 500 /\ SameData
        \/ code' = 201 /\ \E p \in Passwords : Insert(l, p)

GetAccount(l) ==
  /\ \/ FALSE \in SaysExists(l) /\ code' = 404
     \/ TRUE \in SaysExists(l) /\ code' \in {200, 404, 500}
  /\ SameData

(* It asks, and fails, in the same order.                                  *)
GetCharacters(l) == GetAccount(l)

(* The list is always empty.                                               *)
GetAllAccounts == code' \in {200, 500} /\ SameData

(* AdminController looks at the body first.  Whether an account is banned  *)
(* is left out: nothing here depends on it.                                *)
BanAccount(l, verdict) ==
  \/ verdict = "throws" /\ Throws
  \/ verdict = "invalid" /\ code' \in {400, 500} /\ SameData
  \/ verdict # "throws" /\ FALSE \in SaysExists(l) /\ code' = 404 /\ SameData
  \/ verdict = "valid" /\ TRUE \in SaysExists(l) /\ code' \in {200, 500} /\ SameData

(* changeAccountPassword()                                                 *)
SetPassword(l, p) ==
  /\ accounts' = {IF a.login = l THEN [a EXCEPT !.password = p] ELSE a : a \in accounts}
  /\ UNCHANGED <<lastId, created, characters>>

(* Deviant of UpdateAccount: the password is checked once it is stored.    *)
UpdateThenCheck(l, verdict) ==
  \/ FALSE \in SaysExists(l) /\ code' = 404 /\ SameData
  \/ /\ TRUE \in SaysExists(l)
     /\ \/ verdict = "throws" /\ Throws
        \/ verdict = "invalid" /\ code' \in {400, 500} /\ \E p \in Passwords : SetPassword(l, p)
        \/ verdict = "valid" /\ code' \in {200, 500} /\ SameData
        \/ verdict = "valid" /\ code' = 200 /\ \E p \in Passwords : SetPassword(l, p)

(* A request without a password changes nothing and succeeds.              *)
UpdateAccount(l, verdict) ==
  \/ FALSE \in SaysExists(l) /\ code' = 404 /\ SameData
  \/ /\ TRUE \in SaysExists(l)
     /\ \/ verdict = "throws" /\ Throws
        \/ verdict = "invalid" /\ code' \in {400, 500} /\ SameData
        \/ verdict = "valid" /\ code' \in {200, 500} /\ SameData
        \/ verdict = "valid" /\ code' = 200 /\ \E p \in Passwords : SetPassword(l, p)

(* deleteAccount(): foreign keys are not enforced, so the characters may   *)
(* stay.                                                                   *)
Remove(l) ==
  /\ accounts' = accounts \ Rows(l)
  /\ characters' \in {characters,
                      [id \in Ids |-> IF \E a \in Rows(l) : a.id = id THEN <<>> ELSE characters[id]]}
  /\ UNCHANGED <<lastId, created>>

DeleteAccount(l) ==
  \/ FALSE \in SaysExists(l) /\ code' = 404 /\ SameData
  \/ TRUE \in SaysExists(l) /\ code' = 500 /\ SameData
  \/ TRUE \in SaysExists(l) /\ code' = 200 /\ Remove(l)

AddCharacter(a, n) ==
  /\ characters' = [characters EXCEPT ![a.id] = Append(@, [name |-> n, number |-> a.number])]
  /\ UNCHANGED <<accounts, lastId, created>>

HasCharacter(a, n) == \E i \in DOMAIN characters[a.id] : characters[a.id][i].name = n

(* Deviant of CreateCharacter: the limit is tested off by one.             *)
CreateCharacterOverLimit(l, verdict) ==
  \/ code' = 404 /\ SameData
  \/ \E a \in Rows(l) :
       LET full == Len(characters[a.id]) > MaxCharacters
       IN  \/ (full \/ verdict = "invalid") /\ code' = 400 /\ SameData
           \/ ~full /\ verdict = "throws" /\ Throws
           \/ /\ ~full /\ verdict = "valid"
              /\ \/ code' = 500 /\ SameData
                 \/ \E n \in Names :
                      \/ HasCharacter(a, n) /\ code' = 409 /\ SameData
                      \/ ~HasCharacter(a, n) /\ code' = 201 /\ AddCharacter(a, n)

(* getAccountDetails() answers nothing when it fails; the limit is tested  *)
(* before the request is looked at, the name after it.  The list of the    *)
(* characters is taken to be read without failing.                         *)
CreateCharacter(l, verdict) ==
  \/ code' = 404 /\ SameData
  \/ \E a \in Rows(l) :
       LET full == Len(characters[a.id]) >= MaxCharacters
       IN  \/ (full \/ verdict = "invalid") /\ code' = 400 /\ SameData
           \/ ~full /\ verdict = "throws" /\ Throws
           \/ /\ ~full /\ verdict = "valid"
              /\ \/ code' = 500 /\ SameData
                 \/ \E n \in Names :
                      \/ HasCharacter(a, n) /\ code' = 409 /\ SameData
                      \/ ~HasCharacter(a, n) /\ code' = 201 /\ AddCharacter(a, n)

-----------------------------------------------------------------------------
(* Properties                                                              *)

(* No two accounts have the same login, although accountExists() may fail  *)
(* to find one that is there.                                              *)
UniqueLogin == \A a, b \in accounts : a.login = b.login => a = b

(* An account shows only characters that were created for it, never those  *)
(* of a deleted account whose login, or whose rows, it took over.          *)
OwnCharacters ==
  \A a \in accounts : \A i \in DOMAIN characters[a.id] : characters[a.id][i].number = a.number

(* An account has at most MaxCharactersPerAccount characters, no two of    *)
(* them with the same name.                                                *)
CharactersBounded ==
  \A a \in accounts :
    LET list == characters[a.id]
    IN  /\ Len(list) <= MaxCharacters
        /\ \A i, j \in DOMAIN list : list[i].name = list[j].name => i = j

(* A response that reports an error has changed nothing: a client may try  *)
(* again.                                                                  *)
ErrorsChangeNothing == [][code' >= 400 => SameData]_<<data, code>>
=============================================================================
