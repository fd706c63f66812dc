------------------------ MODULE IdentityRegistration ------------------------
(***************************************************************************)
(* An agent's ERC-8004 identity: the script that registers it once under a *)
(* lock (register-hunter-erc8004.ts), the services that register what is   *)
(* not on record and bind the agent's wallet when they start               *)
(* (onchain-registration.ts), the store of records, and the registry on    *)
(* the chain.  All act for one owner, so their records have one key.       *)
(***************************************************************************)
EXTENDS Integers, Sequences, FiniteSets

CONSTANTS Wallets, NoWallet,
          NoIdentity,    \* nothing on record
          MaxPrograms    \* bound: programs started

ASSUME IdentityAssumption ==
  /\ NoWallet \notin Wallets /\ MaxPrograms \in Nat
  /\ NoIdentity \notin [token : Nat, wallet : Wallets \cup {NoWallet}]

VARIABLES
  identities,   \* the registry: who registered each identity, and its wallet
  unmined,      \* transactions: registrations (token 0) and wallet changes
  onRecord,     \* the record: an identity, and the wallet it is said to have
  regLock,      \* the program that made the lock directory, or 0
  program,      \* the programs started
  erred         \* scripts that failed after they had sent their transaction

identityVars == <<identities, unmined, onRecord, regLock, program, erred>>

Programs == 1..MaxPrograms
NotStarted == [kind |-> "none", at |-> "none", target |-> NoWallet, copy |-> NoIdentity]

IdentityInit ==
  /\ identities = << >> /\ unmined = {} /\ onRecord = NoIdentity /\ regLock = 0
  /\ program = [i \in Programs |-> NotStarted] /\ erred = 0

Is(i, at) == program[i].at = at
Stands(i, at) == program' = [program EXCEPT ![i].at = at]
StandsWith(i, at, copy) == program' = [program EXCEPT ![i].at = at, ![i].copy = copy]

Stops(i, at) ==
  program' = [program EXCEPT ![i] = [NotStarted EXCEPT !.kind = program[i].kind, !.at = at]]

\* withLocalFileLock removes the directory when the operation ends or throws.
Leaves(i) == Stops(i, "over") /\ regLock' = IF regLock = i THEN 0 ELSE regLock

-----------------------------------------------------------------------------
(* The script waits for the lock; a service has none.                      *)

StartProgram(i) ==
  /\ Is(i, "none") /\ \A j \in Programs : j < i => ~Is(j, "none")
  /\ \/ program' = [program EXCEPT ![i].kind = "script", ![i].at = "waiting"]
     \/ \E w \in Wallets :
          program' = [program EXCEPT ![i] = [kind |-> "service", at |-> "entered",
                                             target |-> w, copy |-> NoIdentity]]
  /\ UNCHANGED <<identities, unmined, onRecord, regLock, erred>>

\* variant: a stale lock is stolen
StaleOrFree == regLock \in {0} \cup {i \in Programs : Is(i, "dead")}
LockFree == regLock = 0

EnterLock(i) ==
  /\ Is(i, "waiting")
  /\ \/ LockFree /\ regLock' = i /\ Stands(i, "entered")
     \/ ~LockFree /\ Leaves(i)
  /\ UNCHANGED <<identities, unmined, onRecord, erred>>

LookUpIdentity(i) ==
  /\ Is(i, "entered")
  /\ IF onRecord = NoIdentity THEN Stands(i, "ready") /\ UNCHANGED regLock
     ELSE IF program[i].kind = "script" THEN Leaves(i)
     ELSE StandsWith(i, "bind", onRecord) /\ UNCHANGED regLock
  /\ UNCHANGED <<identities, unmined, onRecord, erred>>

\* An error ends the registration, and with it the script's lock.
RegistrationFails(i, afterSending) ==
  /\ Leaves(i)
  /\ erred' = IF afterSending /\ program[i].kind = "script" THEN erred + 1 ELSE erred

\* The preflight may refuse; the answer to the broadcast may be lost.
Register(i) ==
  /\ Is(i, "ready")
  /\ \/ RegistrationFails(i, FALSE) /\ UNCHANGED unmined
     \/ /\ unmined' = unmined \cup {[of |-> i, token |-> 0, wallet |-> NoWallet]}
        /\ (Stands(i, "sent") /\ UNCHANGED <<regLock, erred>>) \/ RegistrationFails(i, TRUE)
  /\ UNCHANGED <<identities, onRecord>>

TokensOf(i) == {n \in DOMAIN identities : identities[n].by = i}

\* The wait ends with the receipt and the identity its event names, or throws.
Confirmed(i) ==
  /\ Is(i, "sent")
  /\ \/ /\ TokensOf(i) # {}
        /\ \E n \in TokensOf(i) : StandsWith(i, "minted", [token |-> n, wallet |-> NoWallet])
        /\ UNCHANGED <<regLock, erred>>
     \/ RegistrationFails(i, TRUE)
  /\ UNCHANGED <<identities, unmined, onRecord>>

SaveIdentity(i) ==
  /\ Is(i, "minted")
  /\ \/ /\ onRecord' = program[i].copy
        /\ IF program[i].kind = "script" THEN Leaves(i)
           ELSE Stands(i, "bind") /\ UNCHANGED regLock
        /\ UNCHANGED erred
     \/ RegistrationFails(i, TRUE) /\ UNCHANGED onRecord
  /\ UNCHANGED <<identities, unmined>>

-----------------------------------------------------------------------------
(* A service binds its wallet: not if the registry has it already, and     *)
(* only with the wallet's signature.  Every error is only logged.          *)

BindWallet(i) ==
  /\ Is(i, "bind")
  /\ LET n == program[i].copy.token IN
     \/ /\ identities[n].wallet = program[i].target /\ Stands(i, "bound") /\ UNCHANGED unmined
     \/ /\ identities[n].wallet # program[i].target /\ Stands(i, "binding")
        /\ unmined' = unmined \cup {[of |-> i, token |-> n, wallet |-> program[i].target]}
     \/ Stops(i, "over") /\ UNCHANGED unmined
  /\ UNCHANGED <<identities, onRecord, regLock, erred>>

\* The wait throws although the transaction may still be mined.
WaitFails(i) ==
  /\ Is(i, "binding") /\ Stops(i, "over")
  /\ UNCHANGED <<identities, unmined, onRecord, regLock, erred>>

\* The whole record is written from the copy the service started with.
SaveWallet(i) ==
  /\ Is(i, "bound") /\ Stops(i, "over")
  /\ onRecord' = [program[i].copy EXCEPT !.wallet = program[i].target]
  /\ UNCHANGED <<identities, unmined, regLock, erred>>

-----------------------------------------------------------------------------
(* The chain, deaths, and the operator.                                    *)

\* A transaction is mined, or reverts, in any order.
MineRegistration ==
  \E t \in unmined :
    /\ t.token = 0 /\ unmined' = unmined \ {t}
    /\ \/ UNCHANGED identities
       \/ identities' = Append(identities, [by |-> t.of, wallet |-> NoWallet])
    /\ UNCHANGED <<onRecord, regLock, program, erred>>

\* A service still waiting for it learns which.
MineWallet ==
  \E t \in unmined :
    /\ t.token # 0 /\ unmined' = unmined \ {t}
    /\ \/ /\ identities' = [identities EXCEPT ![t.token].wallet = t.wallet]
          /\ IF Is(t.of, "binding") THEN Stands(t.of, "bound") ELSE UNCHANGED program
       \/ /\ UNCHANGED identities
          /\ IF Is(t.of, "binding") THEN Stops(t.of, "over") ELSE UNCHANGED program
    /\ UNCHANGED <<onRecord, regLock, erred>>

ProgramDies(i) ==
  /\ program[i].at \notin {"none", "over", "dead"}
  /\ Stops(i, IF regLock = i THEN "dead" ELSE "over")
  /\ UNCHANGED <<identities, unmined, onRecord, regLock, erred>>

\* The lock of a dead script is removed by hand, after a look at the chain:
\* not while a transaction is out, and an identity found there is recorded.
OperatorUnlocks ==
  /\ regLock # 0 /\ Is(regLock, "dead") /\ unmined = {} /\ regLock' = 0
  /\ IF onRecord # NoIdentity \/ identities = << >> THEN UNCHANGED onRecord
     ELSE \E n \in DOMAIN identities : onRecord' = [token |-> n, wallet |-> NoWallet]
  /\ UNCHANGED <<identities, unmined, program, erred>>

IdentityNext ==
  \/ \E i \in Programs :
       \/ StartProgram(i) \/ EnterLock(i) \/ LookUpIdentity(i) \/ Register(i) \/ Confirmed(i)
       \/ SaveIdentity(i) \/ BindWallet(i) \/ WaitFails(i) \/ SaveWallet(i) \/ ProgramDies(i)
  \/ MineRegistration \/ MineWallet \/ OperatorUnlocks

IdentitySpec == IdentityInit /\ [][IdentityNext]_identityVars

-----------------------------------------------------------------------------
\* The scripts register at most one identity more than those of them that
\* failed, alive, after they had sent their transaction: however many are
\* started together or die between the transaction and the record, none of
\* that makes a duplicate (the comment at register-hunter-erc8004.ts:108).
\* Services do make duplicates: they take no lock.
DuplicatesAreErrors ==
  Cardinality({n \in DOMAIN identities : program[identities[n].by].kind = "script"}) <= 1 + erred
=============================================================================
