----------------------------- MODULE Directory ------------------------------
(***************************************************************************)
(* What the API promises of owners and wallets, as if each request took    *)
(* effect in one step: a wallet belongs to an owner that exists, an owner  *)
(* has one wallet per currency, and the HTTP status of an answer tells     *)
(* what the request did.                                                   *)
(***************************************************************************)
EXTENDS Integers

CONSTANTS
  Request,
  OwnerID,
  Call,
  ValidCall,   \* the calls whose fields the API accepts
  NoCall,
  OpeningOwner \* the owners that are there from the start, as some databases have

VARIABLES
  received,   \* received[r]: the call of r, once it has arrived
  owners,     \* the owners
  wallets,    \* the wallets, as pairs of owner and currency
  answer,     \* answer[r]: the HTTP status, 0 while or if there is none
  listed,     \* listed[r]: the rows in the answer
  applied     \* the requests that have added a row

directoryVars == <<received, owners, wallets, answer, listed, applied>>

Init ==
  /\ received = [r \in Request |-> NoCall]
  /\ owners \in {{}, OpeningOwner}
  /\ wallets = {}
  /\ answer = [r \in Request |-> 0]
  /\ listed = [r \in Request |-> {}]
  /\ applied = {}

Pair(r) == <<received[r].owner, received[r].currency>>

\* A call that the API does not accept is answered at once.
Receive(r, c) ==
  /\ received[r] = NoCall
  /\ received' = [received EXCEPT ![r] = c]
  /\ answer' = [answer EXCEPT ![r] = IF c \in ValidCall THEN 0 ELSE 400]
  /\ UNCHANGED <<owners, wallets, listed, applied>>

Open(r, op) == /\ received[r] # NoCall
               /\ received[r].op = op
               /\ answer[r] = 0
               /\ r \notin applied

\* An added row is answered 201, unless something fails on the way back.
Added(r) ==
  /\ applied' = applied \cup {r}
  /\ \E st \in {201, 500, 0} : answer' = [answer EXCEPT ![r] = st]
  /\ UNCHANGED <<received, listed>>

CreateOwner(r) ==
  /\ Open(r, "createOwner")
  /\ \E o \in OwnerID \ owners : owners' = owners \cup {o}
  /\ UNCHANGED wallets
  /\ Added(r)

CreateWallet(r) ==
  /\ Open(r, "createWallet")
  /\ received[r].owner \in owners
  /\ Pair(r) \notin wallets
  /\ wallets' = wallets \cup {Pair(r)}
  /\ UNCHANGED owners
  /\ Added(r)

List(r) ==
  /\ \/ /\ Open(r, "listOwners")
        /\ listed' = [listed EXCEPT ![r] = owners]
     \/ /\ Open(r, "listWallets")
        /\ received[r].owner \in owners
        /\ listed' = [listed EXCEPT ![r] = {p \in wallets : p[1] = received[r].owner}]
  /\ answer' = [answer EXCEPT ![r] = 200]
  /\ UNCHANGED <<received, owners, wallets, applied>>

\* A refusal has a reason, and changes nothing.
Reason(r, st) ==
  LET c == received[r] IN
  \/ st = 404 /\ c.op \in {"createWallet", "listWallets"} /\ c.owner \notin owners
  \/ st = 409 /\ c.op = "createWallet" /\ Pair(r) \in wallets
  \/ st = 500

Refuse(r) ==
  /\ \E op \in {"createOwner", "createWallet", "listOwners", "listWallets"} : Open(r, op)
  /\ \E st \in {404, 409, 500} :
       Reason(r, st) /\ answer' = [answer EXCEPT ![r] = st]
  /\ UNCHANGED <<received, owners, wallets, listed, applied>>

Next == \E r \in Request :
          \/ \E c \in Call : Receive(r, c)
          \/ CreateOwner(r) \/ CreateWallet(r) \/ List(r) \/ Refuse(r)

Spec == Init /\ [][Next]_directoryVars
=============================================================================
