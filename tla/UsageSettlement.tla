-------------------------- MODULE UsageSettlement --------------------------
(***************************************************************************)
(* Token-wallet settlement: UsageLogService.CreateUsageLog                 *)
(* (biz/usage_log.go) with TokenWalletService (biz/token_wallet.go) inside *)
(* the transaction it retries up to eight times.  One settlement writes a  *)
(* usage log, debits the caller's wallet, credits half of the request's    *)
(* effective tokens to the donor of the channel, and appends the ledger    *)
(* rows; all of it commits or none of it does.                             *)
(*                                                                         *)
(* The database is external and modelled by what the code can observe.     *)
(* Engine names how it isolates transactions:                              *)
(*   "sqlite"    one writer at a time; the snapshot of the first read must *)
(*               still be the latest when the transaction first writes,    *)
(*               else SQLITE_BUSY; BUSY or LOCKED may also come at once    *)
(*               whenever another transaction is open;                     *)
(*   "postgres"  read committed: a statement sees what is committed when   *)
(*               it runs; a written row is locked until the end;           *)
(*   "mysql"     repeatable read: plain reads see the snapshot of the      *)
(*               first read, writes act on (and lock) the latest row.      *)
(* Wallet rows exist from the start: ensureWallet's upsert only touches    *)
(* one, which still takes its lock.                                        *)
(***************************************************************************)
EXTENDS Integers, FiniteSets, Functions

CONSTANTS
    Calls,          \* invocations of CreateUsageLog
    Requests,       \* logical requests; several calls may settle the same one
    Users,
    NoUser,         \* no API key, or a channel without an owner
    RequestOf,      \* the request a call settles
    Caller,         \* request -> user of its API key
    ChannelOwner,   \* request -> user who donated the channel it used
    Owners,         \* users with IsOwner set, who earn nothing
    Effective,      \* request -> effective tokens
    Exempt,         \* requests that are channel tests or precede the cutover
    Initial,        \* user -> balance before these calls
    MaxAttempts,    \* maxWalletSettlementAttempts, 8 in the code
    Engine,
    Database        \* what a transaction locks in SQLite: the whole file

ASSUME SettlementAssumption ==
    /\ NoUser \notin Users
    /\ Database \notin Users
    /\ RequestOf \in [Calls -> Requests]
    /\ Caller \in [Requests -> Users \cup {NoUser}]
    /\ ChannelOwner \in [Requests -> Users \cup {NoUser}]
    /\ Effective \in [Requests -> Nat]
    /\ Initial \in [Users -> Nat]
    /\ MaxAttempts \in Nat \ {0}
    /\ Engine \in {"sqlite", "postgres", "mysql"}

VARIABLES
    wallet,     \* user -> its committed user_token_wallets row
    logs,       \* committed usage logs, each with the call that wrote it
    ledger,     \* committed token_wallet_ledgers rows
    pc,         \* call -> where it is
    attempt,    \* call -> attempts that ended in a retryable error
    plan,       \* call -> the debit and credit its transaction prepared
    view,       \* call -> the snapshot its transaction reads
    held        \* call -> locks its transaction holds

vars == <<wallet, logs, ledger, pc, attempt, plan, view, held>>

Row == [balance : Int, credited : Nat, debited : Nat, version : Nat]
Snapshot == [wallet : [Users -> Row], logs : SUBSET [call : Calls, debit : Nat, credit : Nat]]
InTransaction == {"prepare", "debit", "credit", "commit"}
Ended == {"settled", "existing", "failed", "noCutover", "expired", "lost"}

Nothing == [debit |-> 0, credit |-> 0]
Latest == [wallet |-> wallet, logs |-> logs]

Init ==
    /\ wallet = [u \in Users |-> [balance |-> Initial[u], credited |-> 0, debited |-> 0, version |-> 0]]
    /\ logs = {}
    /\ ledger = {}
    /\ pc = [c \in Calls |-> "idle"]
    /\ attempt = [c \in Calls |-> 0]
    /\ plan = [c \in Calls |-> Nothing]
    /\ view = [c \in Calls |-> Latest]
    /\ held = [c \in Calls |-> {}]

-----------------------------------------------------------------------------
(* The database. *)

\* What taking the row of user u locks.
Lock(u) == IF Engine = "sqlite" THEN Database ELSE u

\* The state a plain SELECT of c's transaction sees.
Seen(c) == IF Engine = "postgres" THEN Latest ELSE view[c]

HolderOf(lock) == {c \in Calls : lock \in held[c]}

\* SQLite refuses to upgrade a transaction whose snapshot is no longer the latest.
Stale(c) == Engine = "sqlite" /\ view[c] # Latest

CanTake(c, lock) ==
    \/ lock \in held[c]
    \/ HolderOf(lock) = {} /\ ~Stale(c)

Take(c, lock) == held' = [held EXCEPT ![c] = @ \cup {lock}]

\* SQLITE_BUSY or SQLITE_LOCKED may answer any statement of c while another call's
\* transaction is open or its EnsureStartedAt writes.
Contended(c) ==
    /\ Engine = "sqlite"
    /\ \E d \in Calls \ {c} : pc[d] \in InTransaction \cup {"cutover"}

\* Is there a committed usage log of c's request?
Logged(c) == \E l \in logs : RequestOf[l.call] = RequestOf[c]

\* Mutant of Recorded: the ledger without its unique index.
Recorded_NoUniqueIndex(c, u, kind) == FALSE

\* The unique index over (request_id, user_id, kind).
Recorded(c, u, kind) ==
    \E row \in ledger : RequestOf[row.call] = RequestOf[c] /\ row.user = u /\ row.kind = kind

-----------------------------------------------------------------------------
(* What a settlement moves. *)

CallerOf(c) == Caller[RequestOf[c]]
DonorOf(c) == ChannelOwner[RequestOf[c]]
Used(c) == Effective[RequestOf[c]]

\* Test traffic, usage before the cutover and zero tokens move nothing.
Counts(c) == RequestOf[c] \notin Exempt /\ Used(c) > 0

Debits(c) == Counts(c) /\ CallerOf(c) # NoUser
Credits(c) == Counts(c) /\ DonorOf(c) \notin Owners \cup {NoUser, CallerOf(c)}

\* The wallet pays what it can.
DebitOf(c) ==
    LET balance == Seen(c).wallet[CallerOf(c)].balance
    IN  IF ~Debits(c) THEN 0 ELSE IF balance < Used(c) THEN balance ELSE Used(c)

CreditOf(c) == IF Credits(c) THEN Used(c) \div 2 ELSE 0

Debited(row, n) ==
    [balance |-> row.balance - n, credited |-> row.credited,
     debited |-> row.debited + n, version |-> row.version + 1]

Credited(row, n) ==
    [balance |-> row.balance + n, credited |-> row.credited + n,
     debited |-> row.debited, version |-> row.version + 1]

-----------------------------------------------------------------------------
(* One call. *)

Start(c) ==
    /\ pc[c] = "idle"
    /\ pc' = [pc EXCEPT ![c] = "cutover"]
    /\ UNCHANGED <<wallet, logs, ledger, attempt, plan, view, held>>

\* The cutover is stored unless it is there, and read, outside the transaction that
\* is retried: an error of these two statements ends the call.
EnsureStartedAt(c) ==
    /\ pc[c] = "cutover"
    /\ \/ /\ Engine = "sqlite" => HolderOf(Database) = {}
          /\ pc' = [pc EXCEPT ![c] = "check"]
       \/ /\ Contended(c)
          /\ pc' = [pc EXCEPT ![c] = "noCutover"]
    /\ UNCHANGED <<wallet, logs, ledger, attempt, plan, view, held>>

\* Begin, and look for a usage log of the request.
CheckExisting(c) ==
    /\ pc[c] = "check"
    /\ pc' = [pc EXCEPT ![c] = IF Logged(c) THEN "existing" ELSE "prepare"]
    /\ view' = [view EXCEPT ![c] = Latest]
    /\ UNCHANGED <<wallet, logs, ledger, attempt, plan, held>>

\* prepareSettlement: ensureWallet locks the caller's row, then the balance is read.
PrepareSettlement(c) ==
    /\ pc[c] = "prepare"
    /\ IF Debits(c)
       THEN CanTake(c, Lock(CallerOf(c))) /\ Take(c, Lock(CallerOf(c)))
       ELSE UNCHANGED held
    /\ plan' = [plan EXCEPT ![c] = [debit |-> DebitOf(c), credit |-> CreditOf(c)]]
    /\ pc' = [pc EXCEPT ![c] = "debit"]
    /\ UNCHANGED <<wallet, logs, ledger, attempt, view>>

\* Mutant of RollBack: an error path that forgets tx.Rollback.
RollBack_Forgotten(c, next) ==
    /\ pc' = [pc EXCEPT ![c] = next]
    /\ UNCHANGED <<wallet, logs, ledger, plan, view, held>>

\* The rollback of the failed transaction, which goes on at next.
RollBack(c, next) ==
    /\ pc' = [pc EXCEPT ![c] = next]
    /\ held' = [held EXCEPT ![c] = {}]
    /\ plan' = [plan EXCEPT ![c] = Nothing]
    /\ UNCHANGED <<wallet, logs, ledger, view>>

\* A retryable error: wait and try again, or give up after the last attempt.
Retry(c) ==
    /\ attempt' = [attempt EXCEPT ![c] = @ + 1]
    /\ RollBack(c, IF attempt[c] + 1 < MaxAttempts THEN "waiting" ELSE "lookup")

\* Mutant of DebitConflict: an UPDATE without the version and balance conditions.
DebitConflict_UnguardedUpdate(c) == Recorded(c, CallerOf(c), "debit")

\* Mutant of DebitConflict: an UPDATE without the version condition.
DebitConflict_IgnoresVersion(c) ==
    \/ wallet[CallerOf(c)].balance < plan[c].debit
    \/ Recorded(c, CallerOf(c), "debit")

\* The reload sees the version the snapshot has; the UPDATE meets the latest row.
DebitConflict(c) ==
    LET row == wallet[CallerOf(c)]
    IN  \/ row.version # Seen(c).wallet[CallerOf(c)].version
        \/ row.balance < plan[c].debit
        \/ Recorded(c, CallerOf(c), "debit")

\* Insert the usage log, then debit the caller's wallet and record it.
WriteDebit(c) ==
    /\ pc[c] = "debit"
    /\ Engine = "sqlite" => CanTake(c, Database)
    /\ \/ /\ plan[c].debit > 0 /\ DebitConflict(c)
          /\ Retry(c)
       \/ /\ plan[c].debit = 0 \/ ~DebitConflict(c)
          /\ pc' = [pc EXCEPT ![c] = "credit"]
          /\ IF Engine = "sqlite" THEN Take(c, Database) ELSE UNCHANGED held
          /\ UNCHANGED <<wallet, logs, ledger, attempt, plan, view>>

\* Credit the donor's wallet and record it.
WriteCredit(c) ==
    /\ pc[c] = "credit"
    /\ \/ /\ plan[c].credit = 0
          /\ pc' = [pc EXCEPT ![c] = "commit"]
          /\ UNCHANGED <<wallet, logs, ledger, attempt, plan, view, held>>
       \/ /\ plan[c].credit > 0
          /\ CanTake(c, Lock(DonorOf(c)))
          /\ Recorded(c, DonorOf(c), "credit")
          /\ Retry(c)
       \/ /\ plan[c].credit > 0
          /\ CanTake(c, Lock(DonorOf(c)))
          /\ ~Recorded(c, DonorOf(c), "credit")
          /\ Take(c, Lock(DonorOf(c)))
          /\ pc' = [pc EXCEPT ![c] = "commit"]
          /\ UNCHANGED <<wallet, logs, ledger, attempt, plan, view>>

NewRows(c) ==
    {row \in {[call |-> c, user |-> CallerOf(c), kind |-> "debit", amount |-> plan[c].debit],
              [call |-> c, user |-> DonorOf(c), kind |-> "credit", amount |-> plan[c].credit]} :
        row.amount > 0}

\* Mutant of NewWallet: SET to the balance that was read, instead of adding.
NewWallet_SetsWhatItRead(c) ==
    [u \in Users |->
        IF plan[c].debit > 0 /\ u = CallerOf(c) THEN Debited(Seen(c).wallet[u], plan[c].debit)
        ELSE IF plan[c].credit > 0 /\ u = DonorOf(c) THEN Credited(Seen(c).wallet[u], plan[c].credit)
        ELSE wallet[u]]

NewWallet(c) ==
    [u \in Users |->
        IF plan[c].debit > 0 /\ u = CallerOf(c) THEN Debited(wallet[u], plan[c].debit)
        ELSE IF plan[c].credit > 0 /\ u = DonorOf(c) THEN Credited(wallet[u], plan[c].credit)
        ELSE wallet[u]]

\* The writes become visible; the reply may be lost, which reads as an error.
Commit(c) ==
    /\ pc[c] = "commit"
    /\ wallet' = NewWallet(c)
    /\ logs' = logs \cup {[call |-> c, debit |-> plan[c].debit, credit |-> plan[c].credit]}
    /\ ledger' = ledger \cup NewRows(c)
    /\ \E next \in {"settled", "lookup"} : pc' = [pc EXCEPT ![c] = next]
    /\ held' = [held EXCEPT ![c] = {}]
    /\ plan' = [plan EXCEPT ![c] = Nothing]
    /\ UNCHANGED <<attempt, view>>

\* Mutant of Busy: a BUSY that isRetryableTokenWalletSettlementError does not know.
Busy_NotRetryable(c) ==
    /\ pc[c] \in InTransaction \cup {"check"}
    /\ Contended(c)
    /\ RollBack(c, "lookup")
    /\ UNCHANGED attempt

\* SQLITE_BUSY or SQLITE_LOCKED, at any statement under contention, or at the
\* first write when the snapshot is stale.
Busy(c) ==
    /\ pc[c] \in InTransaction \cup {"check"}
    /\ \/ Contended(c)
       \/ pc[c] \in {"prepare", "debit"} /\ Stale(c)
    /\ Retry(c)

\* The row lock c's next statement waits for.
Wanted(c) ==
    IF pc[c] = "prepare" /\ Debits(c) THEN {CallerOf(c)}
    ELSE IF pc[c] = "credit" /\ plan[c].credit > 0 THEN {DonorOf(c)}
    ELSE {}

WaitsFor(c, d) == c # d /\ Wanted(c) \cap held[d] # {}

\* c is on a cycle of transactions that wait for one another.
Deadlocked(c) ==
    \E S \in SUBSET Calls :
        /\ c \in S
        /\ \A d \in S : (\E e \in S : WaitsFor(d, e)) /\ (\E e \in S : WaitsFor(e, d))

\* The engine breaks a deadlock by failing one transaction of it; its error is
\* not one isRetryableTokenWalletSettlementError knows.
DeadlockVictim(c) ==
    /\ Engine # "sqlite"
    /\ Deadlocked(c)
    /\ RollBack(c, "lookup")
    /\ UNCHANGED attempt

\* Mutant of Wake: the retry trusts the first check for an existing usage log.
Wake_SkipsTheCheck(c) ==
    /\ pc[c] = "waiting"
    /\ pc' = [pc EXCEPT ![c] = "prepare"]
    /\ view' = [view EXCEPT ![c] = Latest]
    /\ UNCHANGED <<wallet, logs, ledger, attempt, plan, held>>

\* The delay before the next attempt is over.
Wake(c) ==
    /\ pc[c] = "waiting"
    /\ pc' = [pc EXCEPT ![c] = "check"]
    /\ UNCHANGED <<wallet, logs, ledger, attempt, plan, view, held>>

\* After a final error: another call may have settled the request.  The lookup
\* itself is not retried.
Lookup(c) ==
    /\ pc[c] = "lookup"
    /\ \/ pc' = [pc EXCEPT ![c] = IF Logged(c) THEN "existing" ELSE "failed"]
       \/ /\ Contended(c)
          /\ pc' = [pc EXCEPT ![c] = "failed"]
    /\ UNCHANGED <<wallet, logs, ledger, attempt, plan, view, held>>

\* The ten seconds of the detached persistence context are over.
ContextEnds(c) ==
    /\ pc[c] \in InTransaction \cup {"cutover", "check", "waiting", "lookup"}
    /\ RollBack(c, "expired")
    /\ UNCHANGED attempt

\* The process dies: the engine rolls every open transaction back.
Crash ==
    /\ \E c \in Calls : pc[c] \notin Ended \cup {"idle"}
    /\ pc' = [c \in Calls |-> IF pc[c] \in Ended \cup {"idle"} THEN pc[c] ELSE "lost"]
    /\ held' = [c \in Calls |-> {}]
    /\ plan' = [c \in Calls |-> Nothing]
    /\ UNCHANGED <<wallet, logs, ledger, attempt, view>>

Step(c) ==
    \/ EnsureStartedAt(c)
    \/ CheckExisting(c) \/ PrepareSettlement(c) \/ WriteDebit(c) \/ WriteCredit(c) \/ Commit(c)
    \/ Busy(c) \/ DeadlockVictim(c) \/ Wake(c) \/ Lookup(c)

Next ==
    \/ \E c \in Calls : Start(c) \/ Step(c) \/ ContextEnds(c)
    \/ Crash

Spec == Init /\ [][Next]_vars

\* A call's goroutine runs on, and the engine answers each statement in the end.
FairSpec == Spec /\ \A c \in Calls : WF_vars(Step(c))

-----------------------------------------------------------------------------
(* Properties. *)

TypeOK ==
    /\ wallet \in [Users -> Row]
    /\ logs \subseteq [call : Calls, debit : Nat, credit : Nat]
    /\ ledger \subseteq [call : Calls, user : Users, kind : {"debit", "credit"}, amount : Nat \ {0}]
    /\ pc \in [Calls -> InTransaction \cup Ended \cup {"idle", "cutover", "check", "waiting", "lookup"}]
    /\ attempt \in [Calls -> 0 .. MaxAttempts]
    /\ plan \in [Calls -> [debit : Nat, credit : Nat]]
    /\ view \in [Calls -> Snapshot]
    /\ held \in [Calls -> SUBSET (Users \cup {Database})]

\* Concurrent settlements never take a wallet below zero, whichever snapshot
\* each of them read its balance from.
NeverOverdrawn == \A u \in Users : wallet[u].balance >= 0

SumOf(rows) == SumFunction([row \in rows |-> row.amount])

\* The materialised balance and the lifetime counters of every wallet are what
\* its append-only ledger adds up to.
WalletsMatchLedger ==
    \A u \in Users :
        LET in  == SumOf({row \in ledger : row.user = u /\ row.kind = "credit"})
            out == SumOf({row \in ledger : row.user = u /\ row.kind = "debit"})
        IN  /\ wallet[u].balance = Initial[u] + in - out
            /\ wallet[u].credited = in
            /\ wallet[u].debited = out

\* A request moves money once: two calls for it, retries and lost commit
\* replies never debit its caller twice nor credit its donor twice.
SettledOnce ==
    \A r1, r2 \in ledger :
        RequestOf[r1.call] = RequestOf[r2.call] /\ r1.kind = r2.kind => r1 = r2

\* A logical request has a single usage log: its tokens are counted once in the
\* quotas and the rankings.
OneLogPerRequest ==
    \A l1, l2 \in logs : RequestOf[l1.call] = RequestOf[l2.call] => l1 = l2

\* Contention does not end a settlement early: a call that got as far as its first
\* transaction and fails, without its context ending, used all its attempts, or its
\* request is settled anyway.
ContentionIsRetried ==
    \A c \in Calls : pc[c] = "failed" => attempt[c] = MaxAttempts \/ Logged(c)

\* Contention with other settlements loses no usage before the attempts are used
\* up: neither in the transaction nor in the statements before it.
UsageSurvivesContention ==
    /\ ContentionIsRetried
    /\ \A c \in Calls : pc[c] = "noCutover" => Logged(c)

\* What AtomicSettlement asks of a request's payer, and gives its donor.
Price == [r \in Requests |-> IF r \in Exempt \/ Caller[r] = NoUser THEN 0 ELSE Effective[r]]

Reward ==
    [r \in Requests |->
        IF r \in Exempt \/ ChannelOwner[r] \in Owners \cup {NoUser, Caller[r]} THEN 0
        ELSE Effective[r] \div 2]

Balances == [u \in Users |-> wallet[u].balance]

Moves ==
    {[request |-> RequestOf[row.call], user |-> row.user, kind |-> row.kind,
      amount |-> row.amount] : row \in ledger}

Atomic == INSTANCE AtomicSettlement
    WITH Request <- Requests, User <- Users, Payer <- Caller, Donor <- ChannelOwner,
         MissesCredits <- Engine = "mysql", balance <- Balances, moves <- Moves

\* However its reads, locks, conflicts, retries and crashes interleave with
\* other settlements, a settlement takes effect at its commit as if it ran
\* alone then: the caller's wallet pays all it has at that moment, up to the
\* request's tokens, and the donor gets half of them, once per request.
\* Under MySQL's snapshots a wallet that was credited since may count as
\* empty: an empty one is not debited, so no version is compared.
SettlesAtomically == Atomic!Spec

\* Every call that starts returns, so no transaction holds its locks for ever.
EveryCallReturns ==
    \A c \in Calls : pc[c] = "cutover" ~> pc[c] \in Ended
=============================================================================
