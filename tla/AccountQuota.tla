---------------------------- MODULE AccountQuota ----------------------------
(***************************************************************************)
(* The allowance of one account: CheckUserDailyTokenQuota before a call    *)
(* (biz/quota.go), and what the call's usage does to the next check:       *)
(* CreateUsageLog stores or reads the cutover of the token wallet, stamps  *)
(* the usage and settles it in one transaction (biz/usage_log.go,          *)
(* biz/token_wallet.go; UsageSettlement opens that transaction up).        *)
(*                                                                         *)
(* Times count from a UTC midnight in units of which DayLength make a day; *)
(* Beijing is BeijingOffset units ahead.  The clock does not go back.      *)
(***************************************************************************)
EXTENDS EffectiveTokens, FiniteSets, Functions

CONSTANTS
    Calls,
    Reports,        \* usages an upstream reports, within Usage
    OldReports,     \* usages in rows of the release without the wallet
    NoCall,         \* the caller in those rows
    NoTime,         \* no time was stored or read
    DailyLimit, WeeklyLimit,
    DayLength, BeijingOffset,
    FirstWeekday,   \* of the first UTC day, Go's time.Weekday: Sunday is 0
    MaxClock,       \* bound: the clock
    MaxDonations    \* bound: rewards this account gets as a donor

ASSUME QuotaAssumption ==
    /\ Reports \subseteq Usage
    /\ OldReports \subseteq Usage
    /\ NoCall \notin Calls
    /\ NoTime \notin Int
    /\ DailyLimit \in Nat
    /\ WeeklyLimit \in Nat
    /\ DayLength \in Nat \ {0}
    /\ BeijingOffset \in Nat
    /\ FirstWeekday \in 0 .. 6
    /\ MaxClock \in Nat
    /\ MaxDonations \in Nat

VARIABLES
    clock,
    balance,    \* wallet.BalanceTokens
    donated,    \* rewards so far
    log,        \* the usage logs of the account's API keys
    startedAt,  \* the stored cutover
    pc,         \* call -> its next step
    now,        \* call -> the clock it read last: for the check, then as cutover
    daily,      \* call -> dailyUsed
    before,     \* call -> the log when it read the clock for its check (history)
    usage,      \* call -> what the upstream reported
    cutover,    \* call -> walletStartedAt, as read back
    createdAt   \* call -> usageCreatedAt

check == <<daily, before>>
settlement == <<usage, cutover, createdAt>>
world == <<clock, balance, donated, log, startedAt>>
vars == <<world, pc, now, check, settlement>>

Times == 0 .. MaxClock
Checking == {"clock", "daily", "weekly"}
Settling == {"insert", "read", "stamp", "settle"}
NoUsage == [prompt |-> 0, completion |-> 0, total |-> 0, details |-> FALSE, cached |-> 0]

\* A row of the release before this one; reported is history.
OldUsageLog(u) ==
    [call |-> NoCall, reported |-> u, createdAt |-> 0, wallet |-> 0,
     tokens |-> RowOf(u, 0, FALSE)]

Init ==
    /\ clock = 0
    /\ balance = 0
    /\ donated = 0
    /\ \E old \in SUBSET OldReports : log = {OldUsageLog(u) : u \in old}
    /\ startedAt = NoTime
    /\ pc = [c \in Calls |-> "idle"]
    /\ now = [c \in Calls |-> NoTime]
    /\ daily = [c \in Calls |-> 0]
    /\ before = [c \in Calls |-> {}]
    /\ usage = [c \in Calls |-> NoUsage]
    /\ cutover = [c \in Calls |-> NoTime]
    /\ createdAt = [c \in Calls |-> NoTime]

Goto(c, from, to) == pc[c] = from /\ pc' = [pc EXCEPT ![c] = to]

Tick ==
    /\ clock < MaxClock
    /\ clock' = clock + 1
    /\ UNCHANGED <<balance, donated, log, startedAt, pc, now, check, settlement>>

\* Another account's call of this account's channel is settled: the reward is half
\* of the call's effective tokens.
Donate ==
    /\ donated < MaxDonations
    /\ balance' = balance + 1
    /\ donated' = donated + 1
    /\ UNCHANGED <<clock, log, startedAt, pc, now, check, settlement>>

-----------------------------------------------------------------------------
(* The check before a call.                                                *)

\* Mutant: the week of a Sunday begins on the Monday after it.
accountQuotaWindows_SundayFirst(t) ==
    LET day == (t + BeijingOffset) \div DayLength
        today == day * DayLength - BeijingOffset
        weekday == (FirstWeekday + day) % 7
        monday == today - (weekday - 1) * DayLength
    IN  [daily |-> today .. today + DayLength - 1,
         weekly |-> monday .. monday + 7 * DayLength - 1]

\* The times of the Beijing day and of the Beijing week, Monday to Sunday, of t.
accountQuotaWindows(t) ==
    LET day == (t + BeijingOffset) \div DayLength
        today == day * DayLength - BeijingOffset
        sunday == (FirstWeekday + day) % 7 = 0
        weekday == IF sunday THEN 7 ELSE (FirstWeekday + day) % 7
        monday == today - (weekday - 1) * DayLength
    IN  [daily |-> today .. today + DayLength - 1,
         weekly |-> monday .. monday + 7 * DayLength - 1]

\* Mutant: what the wallet paid is counted again.
settledBaseTokensSQL_Whole(r) == effectiveTokensSQL(r.tokens)

\* The part of a row that the wallet did not pay.
settledBaseTokensSQL(r) ==
    IF r.wallet >= effectiveTokensSQL(r.tokens) THEN 0
    ELSE effectiveTokensSQL(r.tokens) - Greater(r.wallet, 0)

settledBaseTokenUsage(window) ==
    LET rows == {r \in log : r.createdAt \in window}
    IN  SumFunction([r \in rows |-> settledBaseTokensSQL(r)])

\* A positive balance passes whatever the windows say.
CheckWallet(c) ==
    /\ Goto(c, "idle", IF balance > 0 THEN "running" ELSE "clock")
    /\ UNCHANGED <<world, now, check, settlement>>

ReadClock(c) ==
    /\ Goto(c, "clock", "daily")
    /\ now' = [now EXCEPT ![c] = clock]
    /\ before' = [before EXCEPT ![c] = log]
    /\ UNCHANGED <<world, daily, settlement>>

ReadDaily(c) ==
    /\ Goto(c, "daily", "weekly")
    /\ daily' = [daily EXCEPT ![c] =
                    settledBaseTokenUsage(accountQuotaWindows(now[c]).daily)]
    /\ UNCHANGED <<world, now, before, settlement>>

Allowed(c) ==
    /\ daily[c] < DailyLimit
    /\ settledBaseTokenUsage(accountQuotaWindows(now[c]).weekly) < WeeklyLimit

ReadWeekly(c) ==
    /\ Goto(c, "weekly", IF Allowed(c) THEN "running" ELSE "denied")
    /\ UNCHANGED <<world, now, check, settlement>>

-----------------------------------------------------------------------------
(* CreateUsageLog.                                                         *)

\* The call was answered; EnsureStartedAt(ctx, time.Now().UTC()).
OfferNow(c) ==
    /\ Goto(c, "running", "insert")
    /\ \E u \in Reports : usage' = [usage EXCEPT ![c] = u]
    /\ now' = [now EXCEPT ![c] = clock]
    /\ daily' = [daily EXCEPT ![c] = 0]
    /\ before' = [before EXCEPT ![c] = {}]
    /\ UNCHANGED <<world, cutover, createdAt>>

\* INSERT ... ON CONFLICT (key) leaves a stored cutover as it is.
Insert(c) ==
    /\ Goto(c, "insert", "read")
    /\ startedAt' = IF startedAt = NoTime THEN now[c] ELSE startedAt
    /\ UNCHANGED <<clock, balance, donated, log, now, check, settlement>>

ReadBack(c) ==
    /\ Goto(c, "read", "stamp")
    /\ cutover' = [cutover EXCEPT ![c] = startedAt]
    /\ UNCHANGED <<world, now, check, usage, createdAt>>

\* Mutant: the usage carries the time read before the cutover.
Stamp_BeforeCutover(c) ==
    /\ Goto(c, "stamp", "settle")
    /\ createdAt' = [createdAt EXCEPT ![c] = now[c]]
    /\ UNCHANGED <<world, now, check, usage, cutover>>

\* usageCreatedAt := time.Now().UTC()
Stamp(c) ==
    /\ Goto(c, "stamp", "settle")
    /\ createdAt' = [createdAt EXCEPT ![c] = clock]
    /\ UNCHANGED <<world, now, check, usage, cutover>>

\* Mutant: the wallet pays more than it holds.
WalletDebit_Overdraws(c) == Greater(EffectiveOf(usage[c]), 0)

\* prepareSettlement: historical usage does not touch the wallet.
WalletDebit(c) ==
    IF EffectiveOf(usage[c]) <= 0 \/ createdAt[c] < cutover[c] THEN 0
    ELSE Lesser(balance, EffectiveOf(usage[c]))

\* The transaction writes the row and debits the wallet.
Settle(c) ==
    /\ Goto(c, "settle", "settled")
    /\ log' = log \cup {[call |-> c, reported |-> usage[c], createdAt |-> createdAt[c],
                         wallet |-> WalletDebit(c),
                         tokens |-> RowOf(usage[c], EffectiveOf(usage[c]),
                                          usage[c].details)]}
    /\ balance' = balance - WalletDebit(c)
    /\ usage' = [usage EXCEPT ![c] = NoUsage]
    /\ now' = [now EXCEPT ![c] = NoTime]
    /\ cutover' = [cutover EXCEPT ![c] = NoTime]
    /\ createdAt' = [createdAt EXCEPT ![c] = NoTime]
    /\ UNCHANGED <<clock, donated, startedAt, check>>

\* The process restarts: what is stored survives, the calls in flight do not.
Restart ==
    /\ \E c \in Calls : pc[c] \in Settling
    /\ pc' = [c \in Calls |-> IF pc[c] \in Checking \cup Settling \cup {"running"}
                              THEN "lost" ELSE pc[c]]
    /\ UNCHANGED <<world, now, check, settlement>>

Next ==
    \/ Tick
    \/ Donate
    \/ Restart
    \/ \E c \in Calls :
          \/ CheckWallet(c) \/ ReadClock(c) \/ ReadDaily(c) \/ ReadWeekly(c)
          \/ OfferNow(c) \/ Insert(c) \/ ReadBack(c) \/ Stamp(c) \/ Settle(c)

Spec == Init /\ [][Next]_vars

-----------------------------------------------------------------------------
(* Properties.                                                             *)

TimeOrNone == Times \cup {NoTime}

TypeOK ==
    /\ clock \in Times
    /\ balance \in Nat
    /\ donated \in 0 .. MaxDonations
    /\ \A r \in log : r.createdAt \in Times /\ r.wallet \in Nat /\ r.reported \in Usage
    /\ startedAt \in TimeOrNone
    /\ pc \in [Calls -> Checking \cup Settling
                          \cup {"idle", "running", "denied", "settled", "lost"}]
    /\ now \in [Calls -> TimeOrNone]
    /\ DOMAIN daily = Calls
    /\ before \in [Calls -> SUBSET log]
    /\ usage \in [Calls -> Usage]
    /\ cutover \in [Calls -> TimeOrNone]
    /\ createdAt \in [Calls -> TimeOrNone]

(* Usage of the new release is never taken for historical usage, even among *)
(* the first requests of a fresh deployment, which race to store the        *)
(* cutover: the wallet pays for each of them.                               *)
NothingNewIsHistorical ==
    \A c \in Calls : pc[c] = "settle" => createdAt[c] >= cutover[c]

(* Both readers of a usage log, rankings and the quota's SQL, count what is *)
(* documented for the usage that was reported, for rows of both releases,   *)
(* negative counts and counts near the limits of the integers.              *)
AccountsTheDefinition ==
    \A r \in log : /\ StoredEffectiveTokens(r.tokens) = Documented(r.reported)
                   /\ effectiveTokensSQL(r.tokens) = Documented(r.reported)

\* The Beijing calendar, told by counting midnights and Mondays.
BeijingDay(t) == (t + BeijingOffset) \div DayLength
BeijingWeek(t) == (BeijingDay(t) + FirstWeekday + 6) \div 7

Allowance(rows) ==
    SumFunction([r \in rows |-> Documented(r.reported) - r.wallet])

(* A call let through with an empty wallet found room: what had been        *)
(* recorded when its check began, of the Beijing day and of the Monday to   *)
(* Sunday week of that moment, less what the wallet paid, was below the     *)
(* limits, whatever was settled while the check read.                       *)
QuotaHolds ==
    \A c \in Calls :
        pc[c] = "running" /\ now[c] # NoTime =>
            /\ Allowance({r \in before[c] : BeijingDay(r.createdAt) = BeijingDay(now[c])})
                 < DailyLimit
            /\ Allowance({r \in before[c] : BeijingWeek(r.createdAt) = BeijingWeek(now[c])})
                 < WeeklyLimit

(* Every effective token is paid once: from the wallet, whose balance is    *)
(* what was donated less what rows say it paid, or from the allowance,      *)
(* never from both and never from neither.                                  *)
PaidOnce ==
    /\ balance + SumFunction([r \in log |-> r.wallet]) = donated
    /\ \A r \in log : settledBaseTokensSQL(r) + r.wallet = Documented(r.reported)
=============================================================================
