------------------------- MODULE AccountQuota_proofs -------------------------
(***************************************************************************)
(* Proofs about AccountQuota: the number every reader of a usage log       *)
(* computes, and the types and the cutover for any number of calls.        *)
(***************************************************************************)
EXTENDS AccountQuota, DataFacts, TLAPS

(* The wrapped, saturating arithmetic of the code computes the documented   *)
(* number on every four words, for any integer width and any ceiling.       *)
THEOREM CodeComputesDefinition ==
    ASSUME NEW p \in Word, NEW o \in Word, NEW t \in Word, NEW k \in Word
    PROVE  boundedEffectiveTokens(p, o, t, k) = Definition(p, o, t, k)
<1>1. /\ WithoutCache(p, k) = Greater(Greater(p, 0) - Greater(k, 0), 0)
      /\ WithoutCache(t, k) = Greater(Greater(t, 0) - Greater(k, 0), 0)
      /\ WithoutCache(p, k) \in 0 .. MaxInt
      /\ WithoutCache(t, k) \in 0 .. MaxInt
  BY TokensAssumption DEF WithoutCache, Wrapped, Greater, Word
<1>2. ASSUME NEW a \in 0 .. MaxInt
      PROVE  saturatingAddNonNegative(a, o) = Lesser(a + Greater(o, 0), MaxInt)
  BY TokensAssumption DEF saturatingAddNonNegative, Wrapped, Greater, Lesser, Word
<1>3. saturatingAddNonNegative(WithoutCache(p, k), o)
        = Lesser(WithoutCache(p, k) + Greater(o, 0), MaxInt)
  BY <1>1, <1>2
<1> QED
  BY <1>1, <1>3, TokensAssumption DEF boundedEffectiveTokens, Definition, Greater, Lesser, Word

(* The documented number is a natural number up to the ceiling.             *)
LEMMA DefinitionBounded ==
    ASSUME NEW p \in Word, NEW o \in Word, NEW t \in Word, NEW k \in Word
    PROVE  Definition(p, o, t, k) \in 0 .. Ceiling
BY TokensAssumption DEF Definition, Greater, Lesser, Word

LEMMA WordsOfUsage ==
    ASSUME NEW u \in Usage
    PROVE  /\ u.prompt \in Word /\ u.completion \in Word /\ u.total \in Word
           /\ u.cached \in Word /\ u.details \in BOOLEAN
           /\ CachedTokens(u) \in Word
           /\ Greater(u.total, 0) \in Word
           /\ 0 \in Word
<1>1. /\ u.prompt \in Word /\ u.completion \in Word /\ u.total \in Word
      /\ u.cached \in Word /\ u.details \in BOOLEAN
  BY DEF Usage
<1>2. 0 \in Word
  BY TokensAssumption DEF Word
<1> QED
  BY <1>1, <1>2, TokensAssumption DEF CachedTokens, Greater, Word

(* What CreateUsageLog stores is the documented number.                     *)
LEMMA EffectiveIsDocumented ==
    ASSUME NEW u \in Usage
    PROVE  /\ EffectiveOf(u) = Documented(u)
           /\ Documented(u) \in 0 .. Ceiling
BY WordsOfUsage, CodeComputesDefinition, DefinitionBounded DEF EffectiveOf, Documented

(* The SQL of the quotas derives the documented number from the counts of a *)
(* row without the accounting fields.                                       *)
LEMMA SQLComputesDefinition ==
    ASSUME NEW r, r.prompt \in Word, r.completion \in Word, r.total \in Word,
           r.cached \in Word, r.effective = 0, r.known = FALSE
    PROVE  effectiveTokensSQL(r) = Definition(r.prompt, r.completion, r.total, r.cached)
<1> DEFINE p == r.prompt
           o == r.completion
           t == r.total
           k == r.cached
<1>1. p \in Word /\ o \in Word /\ t \in Word /\ k \in Word
  OBVIOUS
<1>2. effectiveTokensSQL(r) =
        Greater(Lesser(Wrapped(WithoutCacheSQL(p, k) + Bounded(o)), Ceiling),
                WithoutCacheSQL(t, k))
  BY DEF effectiveTokensSQL
<1> HIDE DEF p, o, t, k
<1>3. /\ WithoutCacheSQL(p, k) = Lesser(Greater(Greater(p, 0) - Greater(k, 0), 0), Ceiling)
      /\ WithoutCacheSQL(t, k) = Lesser(Greater(Greater(t, 0) - Greater(k, 0), 0), Ceiling)
  BY <1>1, TokensAssumption DEF WithoutCacheSQL, Wrapped, Greater, Lesser, Word
<1>4. Bounded(o) = Lesser(Greater(o, 0), Ceiling)
  BY <1>1, TokensAssumption DEF Bounded, Greater, Lesser, Word
<1>5. Wrapped(WithoutCacheSQL(p, k) + Bounded(o)) = WithoutCacheSQL(p, k) + Bounded(o)
  BY <1>1, <1>3, <1>4, TokensAssumption DEF Wrapped, Greater, Lesser, Word
<1>6. effectiveTokensSQL(r) = Definition(p, o, t, k)
  BY <1>1, <1>3, <1>4, <1>2, <1>5, TokensAssumption DEF Definition, Greater, Lesser, Word
<1> QED
  BY <1>6 DEF p, o, t, k

(* A negative total, which is stored as zero, counts like zero.             *)
LEMMA TotalStoredAsZero ==
    ASSUME NEW p \in Word, NEW o \in Word, NEW t \in Word, NEW k \in Word
    PROVE  Definition(p, o, Greater(t, 0), k) = Definition(p, o, t, k)
BY TokensAssumption DEF Definition, Greater, Lesser, Word

LEMMA CachedCountsFromZero ==
    ASSUME NEW p \in Word, NEW o \in Word, NEW t \in Word, NEW k \in Word
    PROVE  Definition(p, o, t, Greater(k, 0)) = Definition(p, o, t, k)
BY TokensAssumption DEF Definition, Greater, Lesser, Word

(* Both readers account the documented number of whatever was reported, for *)
(* rows of either release.                                                  *)
THEOREM ReadersAgree ==
    ASSUME NEW u \in Usage
    PROVE  \A r \in {RowOf(u, 0, FALSE), RowOf(u, EffectiveOf(u), u.details)} :
              /\ StoredEffectiveTokens(r) = Documented(u)
              /\ effectiveTokensSQL(r) = Documented(u)
<1> DEFINE k == IF u.details THEN u.cached ELSE 0
           old == RowOf(u, 0, FALSE)
           new == RowOf(u, EffectiveOf(u), u.details)
<1>1. /\ u.prompt \in Word /\ u.completion \in Word /\ u.total \in Word
      /\ u.details \in BOOLEAN /\ k \in Word /\ Greater(u.total, 0) \in Word
  BY WordsOfUsage
<1>2. Documented(u) = Definition(u.prompt, u.completion, Greater(u.total, 0), k)
  <2>1. CachedTokens(u) = Greater(k, 0)
    BY DEF CachedTokens, Greater
  <2> QED
    BY <1>1, <2>1, TotalStoredAsZero, CachedCountsFromZero DEF Documented
<1>3. /\ EffectiveOf(u) = Documented(u)
      /\ Documented(u) \in 0 .. Ceiling
  BY EffectiveIsDocumented
<1>5. ASSUME NEW r \in {old, new}, r.effective = 0, r.known = FALSE
      PROVE  /\ StoredEffectiveTokens(r) = Documented(u)
             /\ effectiveTokensSQL(r) = Documented(u)
  <2>1. /\ r.prompt = u.prompt /\ r.completion = u.completion
        /\ r.total = Greater(u.total, 0) /\ r.cached = k
    BY DEF RowOf
  <2>2. effectiveTokensSQL(r) = Documented(u)
    <3> HIDE DEF k, old, new
    <3>1. effectiveTokensSQL(r) = Definition(u.prompt, u.completion, Greater(u.total, 0), k)
      BY <1>1, <1>5, <2>1, SQLComputesDefinition
    <3> QED
      BY <1>2, <3>1
  <2>3. StoredEffectiveTokens(r)
          = boundedEffectiveTokens(u.prompt, u.completion, Greater(u.total, 0), k)
    BY <1>5, <2>1 DEF StoredEffectiveTokens
  <2> QED
    BY <1>1, <1>2, <2>2, <2>3, CodeComputesDefinition
<1>6. ASSUME NEW r \in {old, new}, ~(r.effective = 0 /\ r.known = FALSE)
      PROVE  /\ StoredEffectiveTokens(r) = Documented(u)
             /\ effectiveTokensSQL(r) = Documented(u)
  <2>1. /\ r.effective = Documented(u)
        /\ r.effective # 0 \/ r.known
    <3>1. r = new
      BY <1>6 DEF RowOf
    <3>2. /\ new.effective = EffectiveOf(u)
          /\ new.known = u.details
      BY DEF RowOf
    <3> QED
      BY <1>1, <1>3, <1>6, <3>1, <3>2
  <2>2. r.effective > 0 \/ r.known
    BY <1>3, <2>1, TokensAssumption
  <2>3. StoredEffectiveTokens(r) = Greater(r.effective, 0)
    BY <2>2 DEF StoredEffectiveTokens
  <2>4. effectiveTokensSQL(r) = Bounded(r.effective)
    BY <2>1 DEF effectiveTokensSQL
  <2> QED
    BY <1>3, <2>1, <2>3, <2>4, TokensAssumption DEF Greater, Bounded, Lesser
<1> QED
  BY <1>5, <1>6

-----------------------------------------------------------------------------
(* The state machine.                                                       *)

RowIn(r) ==
    /\ r.createdAt \in Times
    /\ r.wallet \in Nat
    /\ r.reported \in Usage
    /\ r.tokens \in {RowOf(r.reported, 0, FALSE),
                     RowOf(r.reported, EffectiveOf(r.reported), r.reported.details)}

(* What a call knows of the cutover once it has read it: that of the        *)
(* system row, which is not later than the clock.                           *)
CutoverInv ==
    /\ startedAt # NoTime => startedAt <= clock
    /\ \A c \in Calls :
          /\ pc[c] \in {"daily", "weekly", "insert"} => now[c] # NoTime
          /\ now[c] # NoTime => now[c] <= clock
          /\ pc[c] \in {"read", "stamp", "settle"} => startedAt # NoTime
          /\ pc[c] \in {"stamp", "settle"} => cutover[c] = startedAt
          /\ pc[c] = "settle" =>
                createdAt[c] # NoTime /\ createdAt[c] >= cutover[c]

LogInv == \A r \in log : RowIn(r)

IInv == TypeOK /\ CutoverInv /\ LogInv

LEMMA NoTimeIsNoTime == NoTime \notin Times
BY QuotaAssumption DEF Times

LEMMA InitIInv == Init => IInv
<1> SUFFICES ASSUME Init PROVE IInv
  OBVIOUS
<1>1. 0 \in Times /\ 0 \in 0 .. MaxDonations /\ NoTime # 0
  BY QuotaAssumption DEF Times
<1>2. NoUsage \in Usage
  BY TokensAssumption DEF NoUsage, Usage, Word
<1>3. ASSUME NEW r \in log PROVE RowIn(r)
  <2>1. PICK u \in OldReports : r = OldUsageLog(u)
    BY DEF Init
  <2> QED
    BY <1>1, <2>1, QuotaAssumption DEF OldUsageLog, RowIn
<1>4. LogInv
  BY <1>3 DEF LogInv
<1>5. TypeOK
  <2>1. pc \in [Calls -> {"idle"}]
    BY DEF Init
  <2> QED
    BY <1>1, <1>2, <1>3, <2>1 DEF Init, TypeOK, TimeOrNone, RowIn, Times
<1>6. CutoverInv
  BY DEF Init, CutoverInv
<1> QED
  BY <1>4, <1>5, <1>6 DEF IInv

LEMMA DebitWithinBounds ==
    ASSUME IInv, NEW c \in Calls
    PROVE  WalletDebit(c) \in 0 .. balance
BY TokensAssumption, EffectiveIsDocumented DEF IInv, TypeOK, WalletDebit, Lesser

LEMMA NextIInv == IInv /\ [Next]_vars => IInv'
<1> SUFFICES ASSUME IInv, [Next]_vars PROVE IInv'
  OBVIOUS
<1> USE NoTimeIsNoTime DEF IInv, Times, TimeOrNone
<1>1. CASE Tick
  <2>1. clock' \in Times /\ clock < clock'
    BY <1>1, QuotaAssumption DEF Tick, TypeOK
  <2>2. TypeOK'
    BY <1>1, <2>1 DEF Tick, TypeOK, check, settlement
  <2>3. CutoverInv'
    BY <1>1, <2>1, QuotaAssumption DEF Tick, TypeOK, CutoverInv, check, settlement
  <2>4. LogInv'
    BY <1>1 DEF Tick, LogInv, RowIn
  <2> QED
    BY <2>2, <2>3, <2>4
<1>2. CASE Donate
  <2>1. balance' \in Nat /\ donated' \in 0 .. MaxDonations
    BY <1>2, QuotaAssumption DEF Donate, TypeOK
  <2>2. TypeOK'
    BY <1>2, <2>1 DEF Donate, TypeOK, check, settlement
  <2>3. CutoverInv' /\ LogInv'
    BY <1>2 DEF Donate, CutoverInv, LogInv, RowIn, check, settlement
  <2> QED
    BY <2>2, <2>3
<1>3. CASE Restart
  BY <1>3 DEF Restart, TypeOK, CutoverInv, LogInv, RowIn, check, settlement, world,
              Checking, Settling
<1>4. ASSUME NEW c \in Calls, CheckWallet(c) PROVE IInv'
  BY <1>4 DEF CheckWallet, Goto, TypeOK, CutoverInv, LogInv, RowIn, check, settlement,
              world, Checking, Settling
<1>5. ASSUME NEW c \in Calls, ReadClock(c) PROVE IInv'
  <2>1. LogInv'
    BY <1>5 DEF ReadClock, LogInv, RowIn, world
  <2>2. CutoverInv'
    BY <1>5 DEF ReadClock, Goto, TypeOK, CutoverInv, world, check, settlement
  <2>3. now' \in [Calls -> TimeOrNone] /\ usage' \in [Calls -> Usage]
    BY <1>5, QuotaAssumption DEF ReadClock, TypeOK, world, settlement
  <2>4. before' \in [Calls -> SUBSET log']
    BY <1>5 DEF ReadClock, TypeOK, world
  <2>5. TypeOK'
    BY <1>5, <2>3, <2>4 DEF ReadClock, Goto, TypeOK, world, settlement, Checking, Settling
  <2> QED
    BY <2>1, <2>2, <2>5
<1>6. ASSUME NEW c \in Calls, ReadDaily(c) PROVE IInv'
  <2>1. LogInv'
    BY <1>6 DEF ReadDaily, LogInv, RowIn, world
  <2>2. CutoverInv'
    BY <1>6 DEF ReadDaily, Goto, TypeOK, CutoverInv, world, settlement
  <2>3. DOMAIN daily' = Calls
    BY <1>6 DEF ReadDaily, TypeOK
  <2>4. TypeOK'
    BY <1>6, <2>3 DEF ReadDaily, Goto, TypeOK, world, settlement, Checking, Settling
  <2> QED
    BY <2>1, <2>2, <2>4
<1>7. ASSUME NEW c \in Calls, ReadWeekly(c) PROVE IInv'
  BY <1>7 DEF ReadWeekly, Goto, TypeOK, CutoverInv, LogInv, RowIn, check, settlement,
              world, Checking, Settling
<1>8. ASSUME NEW c \in Calls, OfferNow(c) PROVE IInv'
  <2>1. LogInv'
    BY <1>8 DEF OfferNow, LogInv, RowIn, world
  <2>2. CutoverInv'
    BY <1>8 DEF OfferNow, Goto, TypeOK, CutoverInv, world, check, settlement
  <2>3. now' \in [Calls -> TimeOrNone] /\ usage' \in [Calls -> Usage]
    BY <1>8, QuotaAssumption DEF OfferNow, TypeOK, world, settlement
  <2>4. before' \in [Calls -> SUBSET log']
    BY <1>8 DEF OfferNow, TypeOK, world
  <2>5. TypeOK'
    BY <1>8, <2>3, <2>4 DEF OfferNow, Goto, TypeOK, world, settlement, Checking, Settling
  <2> QED
    BY <2>1, <2>2, <2>5
<1>9. ASSUME NEW c \in Calls, Insert(c) PROVE IInv'
  BY <1>9 DEF Insert, Goto, TypeOK, CutoverInv, LogInv, RowIn, check, settlement,
              Checking, Settling
<1>10. ASSUME NEW c \in Calls, ReadBack(c) PROVE IInv'
  BY <1>10 DEF ReadBack, Goto, TypeOK, CutoverInv, LogInv, RowIn, check, world,
              Checking, Settling
<1>11. ASSUME NEW c \in Calls, Stamp(c) PROVE IInv'
  BY <1>11 DEF Stamp, Goto, TypeOK, CutoverInv, LogInv, RowIn, check, world,
              Checking, Settling
<1>12. ASSUME NEW c \in Calls, Settle(c) PROVE IInv'
  <2>1. WalletDebit(c) \in 0 .. balance
    BY DebitWithinBounds
  <2>2. NoUsage \in Usage
    BY TokensAssumption DEF NoUsage, Usage, Word
  <2>3. createdAt[c] \in Times
    BY <1>12 DEF Settle, Goto, TypeOK, CutoverInv
  <2>4. ASSUME NEW r \in log' PROVE RowIn(r)
    <3>1. CASE r \in log
      BY <3>1 DEF LogInv
    <3>2. CASE r \notin log
      <4>1. /\ r.createdAt = createdAt[c]
            /\ r.wallet = WalletDebit(c)
            /\ r.reported = usage[c]
            /\ r.tokens = RowOf(usage[c], EffectiveOf(usage[c]), usage[c].details)
        BY <1>12, <2>4, <3>2 DEF Settle
      <4>2. WalletDebit(c) \in Nat /\ usage[c] \in Usage
        BY <2>1 DEF TypeOK
      <4> QED
        BY <2>3, <4>1, <4>2 DEF RowIn
    <3> QED
      BY <3>1, <3>2
  <2>5. LogInv'
    BY <2>4 DEF LogInv, RowIn
  <2>6. TypeOK'
    <3>1. balance' \in Nat
      BY <1>12, <2>1 DEF Settle, TypeOK
    <3>2. \A r \in log' : r.createdAt \in Times /\ r.wallet \in Nat /\ r.reported \in Usage
      BY <2>4 DEF RowIn
    <3>3. before' \in [Calls -> SUBSET log']
      BY <1>12 DEF Settle, TypeOK, check
    <3>4. /\ usage' \in [Calls -> Usage] /\ now' \in [Calls -> TimeOrNone]
          /\ cutover' \in [Calls -> TimeOrNone] /\ createdAt' \in [Calls -> TimeOrNone]
      BY <1>12, <2>2 DEF Settle, TypeOK
    <3> QED
      BY <1>12, <3>1, <3>2, <3>3, <3>4 DEF Settle, Goto, TypeOK, check, Checking, Settling
  <2>7. CutoverInv'
    BY <1>12 DEF Settle, Goto, TypeOK, CutoverInv, Checking, Settling
  <2> QED
    BY <2>5, <2>6, <2>7
<1>13. CASE UNCHANGED vars
  BY <1>13 DEF vars, world, check, settlement, TypeOK, CutoverInv, LogInv, RowIn
<1> QED
  BY <1>1, <1>2, <1>3, <1>4, <1>5, <1>6, <1>7, <1>8, <1>9, <1>10, <1>11, <1>12, <1>13
  DEF Next

LEMMA Inductive == Spec => []IInv
BY InitIInv, NextIInv, PTL DEF Spec

(* The state keeps its types; no wallet goes below zero.                    *)
THEOREM TypeCorrect == Spec => []TypeOK
BY Inductive, PTL DEF IInv

(* Whatever the number of calls and restarts, and wherever they interleave, *)
(* no usage of this release is stamped before the cutover.                  *)
THEOREM NewUsageIsNeverHistorical == Spec => []NothingNewIsHistorical
<1>1. IInv => NothingNewIsHistorical
  BY DEF IInv, CutoverInv, NothingNewIsHistorical
<1> QED
  BY <1>1, Inductive, PTL

(* Every row is read as documented, by every reader, in every reachable log.*)
THEOREM RowsReadAsDocumented == Spec => []AccountsTheDefinition
<1>1. IInv => AccountsTheDefinition
  BY ReadersAgree DEF IInv, LogInv, RowIn, AccountsTheDefinition
<1> QED
  BY <1>1, Inductive, PTL

-----------------------------------------------------------------------------
(* Every token is paid once.                                                *)

\* What the wallet paid for the rows of L.
PaidByWallet(L) == SumFunction([r \in L |-> r.wallet])

PaidInv ==
    /\ IsFiniteSet(log)
    /\ \A r \in log : r.wallet <= Documented(r.reported)
    /\ \A r \in log : r.call # NoCall => r.call \in Calls /\ pc[r.call] = "settled"
    /\ balance + PaidByWallet(log) = donated

(* There are finitely many usages, so the first log is finite.              *)
LEMMA UsageFinite == IsFiniteSet(Usage)
<1>1. IsFiniteSet(Word)
  BY TokensAssumption, FS_Interval DEF Word
<1>2. IsFiniteSet(BOOLEAN)
  <2>1. IsFiniteSet({TRUE} \cup {FALSE})
    BY FS_Singleton, FS_AddElement
  <2>2. BOOLEAN = {TRUE} \cup {FALSE}
    OBVIOUS
  <2> QED BY <2>1, <2>2
<1> DEFINE W == Word \X Word
           S == (W \X W) \X BOOLEAN
           f == [s \in S |-> [prompt |-> s[1][1][1], completion |-> s[1][1][2],
                              total |-> s[1][2][1], details |-> s[2],
                              cached |-> s[1][2][2]]]
<1>3. IsFiniteSet(S)
  BY <1>1, <1>2, FS_Product
<1>4. ASSUME NEW u \in Usage PROVE u \in {f[s] : s \in S}
  <2>1. PICK s : s = << << <<u.prompt, u.completion>>, <<u.total, u.cached>> >>, u.details >>
    OBVIOUS
  <2>2. s \in S
    BY <2>1 DEF Usage
  <2>3. f[s] = u
    BY <2>1, <2>2 DEF Usage
  <2> QED BY <2>2, <2>3
<1> HIDE DEF f, S
<1>5. IsFiniteSet({f[s] : s \in S})
  BY <1>3, ImageFinite
<1> QED BY <1>4, <1>5, FS_Subset

(* A row adds what the wallet pays for it.                                  *)
LEMMA PaidByWalletFacts ==
    ASSUME NEW L, IsFiniteSet(L), \A r \in L : r.wallet \in Nat
    PROVE  /\ PaidByWallet(L) \in Nat
           /\ (\A r \in L : r.wallet = 0) => PaidByWallet(L) = 0
           /\ \A row : row \notin L /\ row.wallet \in Nat
                          => PaidByWallet(L \cup {row}) = PaidByWallet(L) + row.wallet
<1> DEFINE h == [r \in L |-> r.wallet]
<1>1. DOMAIN h = L /\ \A r \in L : h[r] = r.wallet /\ h[r] \in Nat
  OBVIOUS
<1>2. PaidByWallet(L) = SumFunction(h)
  BY DEF PaidByWallet
<1> HIDE DEF h
<1>3. PaidByWallet(L) \in Nat
  BY <1>1, <1>2, SumFunctionFacts
<1>4. (\A r \in L : r.wallet = 0) => PaidByWallet(L) = 0
  BY <1>1, <1>2, SumZero
<1>5. ASSUME NEW row, row \notin L, row.wallet \in Nat
      PROVE  PaidByWallet(L \cup {row}) = PaidByWallet(L) + row.wallet
  <2> DEFINE f == [r \in L \cup {row} |-> r.wallet]
  <2>1. /\ DOMAIN f = L \cup {row} /\ f[row] = row.wallet
        /\ \A r \in DOMAIN f : f[r] \in Int
        /\ \A r \in L : f[r] = h[r]
    BY <1>1, <1>5
  <2>2. PaidByWallet(L \cup {row}) = SumFunction(f)
    BY DEF PaidByWallet
  <2> HIDE DEF f
  <2> QED BY <1>1, <1>2, <1>5, <2>1, <2>2, SumFunctionAdd
<1> QED BY <1>3, <1>4, <1>5

LEMMA InitPaidInv == Init => PaidInv
<1> SUFFICES ASSUME Init PROVE PaidInv
  OBVIOUS
<1>1. PICK old \in SUBSET OldReports : log = {OldUsageLog(u) : u \in old}
  BY DEF Init
<1>2. IsFiniteSet(old)
  BY <1>1, UsageFinite, QuotaAssumption, FS_Subset
<1>3. IsFiniteSet(log)
  <2> DEFINE f == [u \in old |-> OldUsageLog(u)]
  <2>1. log = {f[u] : u \in old}
    BY <1>1
  <2> HIDE DEF f
  <2> QED BY <1>2, <2>1, ImageFinite
<1>4. ASSUME NEW r \in log
      PROVE  r.wallet = 0 /\ r.call = NoCall /\ r.reported \in Usage
  <2>1. PICK u \in old : r = OldUsageLog(u)
    BY <1>1
  <2>2. u \in Usage
    BY <1>1, <2>1, QuotaAssumption
  <2> QED BY <2>1, <2>2 DEF OldUsageLog
<1>5. \A r \in log : r.wallet <= Documented(r.reported)
  <2>1. \A u \in Usage : Documented(u) \in 0 .. Ceiling
    BY EffectiveIsDocumented
  <2> QED BY <1>4, <2>1, TokensAssumption
<1>6. PaidByWallet(log) = 0
  <2>1. (\A r \in log : r.wallet \in Nat) /\ (\A r \in log : r.wallet = 0)
    BY <1>4
  <2> QED BY <1>3, <2>1, PaidByWalletFacts
<1> QED BY <1>3, <1>4, <1>5, <1>6 DEF Init, PaidInv

LEMMA NextPaidInv == IInv /\ PaidInv /\ [Next]_vars => PaidInv'
<1> SUFFICES ASSUME IInv, PaidInv, [Next]_vars PROVE PaidInv'
  OBVIOUS
<1>0. /\ TypeOK /\ balance \in Nat /\ donated \in Nat /\ PaidByWallet(log) \in Nat
  <2>1. \A r \in log : r.wallet \in Nat
    BY DEF IInv, TypeOK
  <2> QED BY <2>1, PaidByWalletFacts, QuotaAssumption DEF IInv, TypeOK, PaidInv
<1>1. ASSUME UNCHANGED log, balance' - balance = donated' - donated,
             balance' \in Nat, donated' \in Nat,
             \A c \in Calls : pc[c] = "settled" => pc'[c] = "settled"
      PROVE  PaidInv'
  <2>1. PaidByWallet(log)' = PaidByWallet(log)
    BY <1>1 DEF PaidByWallet
  <2>2. (balance + PaidByWallet(log) = donated)'
    BY <1>0, <1>1, <2>1 DEF PaidInv
  <2> QED BY <1>1, <2>2 DEF PaidInv
<1>2. CASE Donate
  BY <1>0, <1>1, <1>2 DEF Donate
<1>3. CASE Tick \/ Restart \/ UNCHANGED vars
  BY <1>0, <1>1, <1>3 DEF Tick, Restart, vars, world, Checking, Settling
<1>4. ASSUME NEW c \in Calls,
             \/ CheckWallet(c) \/ ReadClock(c) \/ ReadDaily(c) \/ ReadWeekly(c)
             \/ OfferNow(c) \/ Insert(c) \/ ReadBack(c) \/ Stamp(c)
      PROVE  PaidInv'
  <2>1. UNCHANGED <<log, balance, donated>>
    BY <1>4 DEF CheckWallet, ReadClock, ReadDaily, ReadWeekly, OfferNow, Insert,
                ReadBack, Stamp, world
  <2>2. \E from, to : Goto(c, from, to) /\ from # "settled"
    BY <1>4 DEF CheckWallet, ReadClock, ReadDaily, ReadWeekly, OfferNow, Insert,
                ReadBack, Stamp
  <2>3. \A d \in Calls : pc[d] = "settled" => pc'[d] = "settled"
    BY <1>0, <2>2 DEF Goto, TypeOK
  <2> QED BY <1>0, <1>1, <2>1, <2>3
<1>5. ASSUME NEW c \in Calls, Settle(c) PROVE PaidInv'
  <2>1. PICK row : row = [call |-> c, reported |-> usage[c], createdAt |-> createdAt[c],
                          wallet |-> WalletDebit(c),
                          tokens |-> RowOf(usage[c], EffectiveOf(usage[c]),
                                           usage[c].details)]
    OBVIOUS
  <2>2. log' = log \cup {row} /\ balance' = balance - WalletDebit(c) /\ donated' = donated
    BY <1>5, <2>1 DEF Settle
  <2>3. row.call = c /\ row.wallet = WalletDebit(c) /\ row.reported = usage[c]
    BY <2>1
  <2>4. c # NoCall /\ pc[c] = "settle"
    BY <1>5, QuotaAssumption DEF Settle, Goto
  <2>5. row \notin log
    BY <2>3, <2>4 DEF PaidInv
  <2>6. WalletDebit(c) \in 0 .. balance
    BY DebitWithinBounds
  <2>7. WalletDebit(c) <= Documented(usage[c])
    <3>1. EffectiveOf(usage[c]) = Documented(usage[c]) /\ Documented(usage[c]) \in 0 .. Ceiling
      BY <1>0, EffectiveIsDocumented DEF TypeOK
    <3> QED BY <1>0, <3>1, TokensAssumption DEF WalletDebit, Lesser
  <2>8. IsFiniteSet(log')
    BY <2>2, FS_AddElement DEF PaidInv
  <2>9. PaidByWallet(log)' = PaidByWallet(log) + WalletDebit(c)
    <3>1. \A r \in log : r.wallet \in Nat
      BY <1>0 DEF TypeOK
    <3>2. row.wallet \in Nat
      BY <1>0, <2>3, <2>6
    <3>3. PaidByWallet(log \cup {row}) = PaidByWallet(log) + row.wallet
      BY <2>5, <3>1, <3>2, PaidByWalletFacts DEF PaidInv
    <3> QED BY <2>2, <2>3, <3>3 DEF PaidByWallet
  <2>10. (balance + PaidByWallet(log) = donated)'
    BY <1>0, <2>2, <2>6, <2>9 DEF PaidInv
  <2>11. \A d \in Calls : pc[d] = "settled" \/ d = c => pc'[d] = "settled"
    BY <1>0, <1>5 DEF Settle, Goto, TypeOK
  <2>12. ASSUME NEW r \in log'
         PROVE  /\ r.wallet <= Documented(r.reported)
                /\ r.call # NoCall => r.call \in Calls /\ pc'[r.call] = "settled"
    BY <2>2, <2>3, <2>7, <2>11 DEF PaidInv
  <2> QED BY <2>8, <2>10, <2>12 DEF PaidInv
<1> QED BY <1>2, <1>3, <1>4, <1>5 DEF Next

LEMMA PaidInvHolds == Spec => []PaidInv
BY InitPaidInv, NextPaidInv, Inductive, PTL DEF Spec

(* What the SQL of the quotas reads of a row is what the wallet left.       *)
LEMMA BaseIsTheRest ==
    ASSUME IInv, PaidInv, NEW r \in log
    PROVE  /\ settledBaseTokensSQL(r) = Documented(r.reported) - r.wallet
           /\ Documented(r.reported) - r.wallet \in Nat
           /\ Documented(r.reported) \in Nat /\ r.wallet \in Nat
<1>1. RowIn(r) /\ r.wallet <= Documented(r.reported)
  BY DEF IInv, LogInv, PaidInv
<1>2. effectiveTokensSQL(r.tokens) = Documented(r.reported)
  BY <1>1, ReadersAgree DEF RowIn
<1>3. Documented(r.reported) \in 0 .. Ceiling /\ r.wallet \in Nat
  BY <1>1, EffectiveIsDocumented DEF RowIn
<1> QED BY <1>1, <1>2, <1>3, TokensAssumption DEF settledBaseTokensSQL, Greater

(* No token is paid twice or not at all (prepareSettlement and the quota's  *)
(* settledBaseTokensSQL), for any number of calls, donations and restarts.  *)
THEOREM TokensArePaidOnce == Spec => []PaidOnce
<1>1. IInv /\ PaidInv => PaidOnce
  <2> SUFFICES ASSUME IInv, PaidInv PROVE PaidOnce
    OBVIOUS
  <2>1. \A r \in log : settledBaseTokensSQL(r) + r.wallet = Documented(r.reported)
    BY BaseIsTheRest
  <2> QED BY <2>1 DEF PaidInv, PaidByWallet, PaidOnce
<1> QED BY <1>1, Inductive, PaidInvHolds, PTL

-----------------------------------------------------------------------------
(* A check that passes was right about the moment it read the clock.        *)

\* The rows of c's check that fall on the day, and in the week, of its clock.
OfTheDay(c) == {r \in before[c] : BeijingDay(r.createdAt) = BeijingDay(now[c])}
OfTheWeek(c) == {r \in before[c] : BeijingWeek(r.createdAt) = BeijingWeek(now[c])}

RoomFound(c) ==
    /\ pc[c] = "idle" => now[c] = NoTime
    /\ pc[c] = "weekly" => daily[c] \in Int /\ Allowance(OfTheDay(c)) <= daily[c]
    /\ pc[c] = "running" /\ now[c] # NoTime =>
          /\ Allowance(OfTheDay(c)) < DailyLimit
          /\ Allowance(OfTheWeek(c)) < WeeklyLimit

RoomInv == \A c \in Calls : RoomFound(c)

(* The query's bounds are those of the Beijing day.                         *)
LEMMA DayIsCovered ==
    ASSUME NEW t \in Times, NEW m \in Times, BeijingDay(t) = BeijingDay(m)
    PROVE  t \in accountQuotaWindows(m).daily
<1>1. t + BeijingOffset \in Nat /\ DayLength \in Nat \ {0} /\ t \in Nat
  BY QuotaAssumption DEF Times
<1>2. PICK d : d = (m + BeijingOffset) \div DayLength
  OBVIOUS
<1>3. d = (t + BeijingOffset) \div DayLength
  BY <1>2 DEF BeijingDay
<1>4. d * DayLength <= t + BeijingOffset /\ t + BeijingOffset <= d * DayLength + DayLength - 1
      /\ d \in Nat
  BY <1>1, <1>3, SameQuotient
<1>5. PICK s \in Nat : s = d * DayLength
  BY <1>1, <1>4
<1>6. accountQuotaWindows(m).daily = s - BeijingOffset .. s - BeijingOffset + DayLength - 1
  BY <1>2, <1>5 DEF accountQuotaWindows
<1>7. t \in s - BeijingOffset .. s - BeijingOffset + DayLength - 1
  BY <1>1, <1>4, <1>5, QuotaAssumption
<1> QED BY <1>6, <1>7

(* The Monday from which the query starts is the first day of the week.     *)
LEMMA MondayStartsTheWeek ==
    ASSUME NEW d \in Nat, NEW e \in Nat,
           (d + FirstWeekday + 6) \div 7 = (e + FirstWeekday + 6) \div 7,
           NEW w, w = IF (FirstWeekday + d) % 7 = 0 THEN 7 ELSE (FirstWeekday + d) % 7
    PROVE  w - 1 \in 0 .. 6 /\ e - (d - (w - 1)) \in 0 .. 6
BY QuotaAssumption

(* The query's bounds are those of the week from Monday to Sunday.          *)
LEMMA WeekIsCovered ==
    ASSUME NEW t \in Times, NEW m \in Times, BeijingWeek(t) = BeijingWeek(m)
    PROVE  t \in accountQuotaWindows(m).weekly
<1>1. /\ t + BeijingOffset \in Nat /\ m + BeijingOffset \in Nat
      /\ DayLength \in Nat \ {0} /\ t \in Nat /\ BeijingOffset \in Nat
  BY QuotaAssumption DEF Times
<1>2. PICK d, e : d = (m + BeijingOffset) \div DayLength /\ e = (t + BeijingOffset) \div DayLength
  OBVIOUS
<1>3. /\ d \in Nat /\ e \in Nat
      /\ e * DayLength <= t + BeijingOffset
      /\ t + BeijingOffset <= e * DayLength + DayLength - 1
  BY <1>1, <1>2, SameQuotient
<1>4. (d + FirstWeekday + 6) \div 7 = (e + FirstWeekday + 6) \div 7
  BY <1>2 DEF BeijingWeek, BeijingDay
<1>5. PICK w : w = IF (FirstWeekday + d) % 7 = 0 THEN 7 ELSE (FirstWeekday + d) % 7
  OBVIOUS
<1>6. w - 1 \in 0 .. 6 /\ e - (d - (w - 1)) \in 0 .. 6
  BY <1>3, <1>4, <1>5, MondayStartsTheWeek
<1>7. accountQuotaWindows(m).weekly =
        (d * DayLength - BeijingOffset) - (w - 1) * DayLength
          .. (d * DayLength - BeijingOffset) - (w - 1) * DayLength + 7 * DayLength - 1
  BY <1>2, <1>5 DEF accountQuotaWindows
<1>8. PICK i \in 0 .. 6, j \in 0 .. 6 : i = w - 1 /\ j = e - (d - i)
  BY <1>6
<1>9. e = (d - i) + j /\ w - 1 = i
  BY <1>3, <1>8
<1>10. PICK a, b, x, y : a = d * DayLength /\ b = i * DayLength /\ x = j * DayLength /\ y = e * DayLength
  OBVIOUS
<1>11. a \in Nat /\ b \in Nat /\ x \in Nat /\ y \in Nat
  <2>1. \A p, q \in Nat : p * q \in Nat
    <3> TAKE p, q \in Nat
    <3>1. p * q \in Int /\ p >= 0 /\ q >= 0
      OBVIOUS
    <3>2. p * q >= 0
      BY <3>1
    <3> QED BY <3>1, <3>2
  <2>2. d \in Nat /\ e \in Nat
    BY <1>3
  <2>3. DayLength \in Nat
    BY <1>1
  <2>4. i \in Nat /\ j \in Nat
    BY ONLY i \in 0 .. 6, j \in 0 .. 6
  <2>5. d \in Nat /\ e \in Nat /\ i \in Nat /\ j \in Nat /\ DayLength \in Nat
    BY <2>2, <2>3, <2>4
  <2>6. a \in Nat /\ b \in Nat
    BY <1>10, <2>1, <2>5, Zenon
  <2>7. x \in Nat /\ y \in Nat
    BY <1>10, <2>1, <2>5, Zenon
  <2> QED BY <2>6, <2>7
<1>12. y = (a - b) + x
  BY <1>1, <1>3, <1>8, <1>9, <1>10
<1>13. x \in 0 .. 6 * DayLength
  BY <1>1, <1>8, <1>10
<1>14. accountQuotaWindows(m).weekly =
         (a - BeijingOffset) - b .. (a - BeijingOffset) - b + 7 * DayLength - 1
  BY <1>7, <1>9, <1>10
<1>15. y <= t + BeijingOffset /\ t + BeijingOffset <= y + DayLength - 1
  BY <1>3, <1>10
<1>16. t \in (a - BeijingOffset) - b .. (a - BeijingOffset) - b + 7 * DayLength - 1
  BY <1>1, <1>11, <1>12, <1>13, <1>15
<1> QED BY <1>14, <1>16

(* A query over a window counts at least the rows known to lie in it.       *)
LEMMA QueryCovers ==
    ASSUME IInv, PaidInv, NEW window, NEW R \in SUBSET log,
           \A r \in R : r.createdAt \in window
    PROVE  /\ Allowance(R) \in Nat
           /\ settledBaseTokenUsage(window) \in Nat
           /\ Allowance(R) <= settledBaseTokenUsage(window)
<1> DEFINE W == {r \in log : r.createdAt \in window}
           h == [r \in R |-> Documented(r.reported) - r.wallet]
           f == [r \in W |-> settledBaseTokensSQL(r)]
<1>1. R \subseteq W /\ IsFiniteSet(W) /\ IsFiniteSet(R)
  BY FS_Subset DEF PaidInv
<1>2. \A r \in log : /\ settledBaseTokensSQL(r) = Documented(r.reported) - r.wallet
                     /\ Documented(r.reported) - r.wallet \in Nat
  BY BaseIsTheRest
<1>3. DOMAIN h = R /\ \A r \in R : h[r] \in Nat /\ h[r] = settledBaseTokensSQL(r)
  BY <1>2
<1>4. DOMAIN f = W /\ \A r \in W : f[r] \in Nat /\ f[r] = settledBaseTokensSQL(r)
  BY <1>2
<1>5. Allowance(R) = SumFunction(h) /\ settledBaseTokenUsage(window) = SumFunction(f)
  BY DEF Allowance, settledBaseTokenUsage
<1> HIDE DEF W, h, f
<1>6. SumFunction(h) \in Nat /\ SumFunction(f) \in Nat
  BY <1>1, <1>3, <1>4, SumFunctionFacts
<1>7. SumFunction(h) <= SumFunction(f)
  <2>1. \A r \in DOMAIN h : f[r] = h[r]
    BY <1>1, <1>3, <1>4
  <2>2. /\ IsFiniteSet(DOMAIN f) /\ DOMAIN h \subseteq DOMAIN f
        /\ \A r \in DOMAIN f : f[r] \in Nat
    BY <1>1, <1>3, <1>4
  <2> QED BY <2>1, <2>2, SumFunctionGrows
<1> QED BY <1>5, <1>6, <1>7

LEMMA NextRoomInv == IInv /\ PaidInv /\ RoomInv /\ [Next]_vars => RoomInv'
<1> SUFFICES ASSUME IInv, PaidInv, RoomInv, [Next]_vars, NEW d \in Calls
             PROVE  RoomFound(d)'
  BY DEF RoomInv
<1>0. TypeOK /\ CutoverInv /\ RoomFound(d)
  BY DEF IInv, RoomInv
<1>1. ASSUME pc'[d] = pc[d] \/ pc'[d] \notin {"idle", "weekly", "running"},
             now'[d] = now[d], daily'[d] = daily[d], before'[d] = before[d]
      PROVE  RoomFound(d)'
  BY <1>0, <1>1 DEF RoomFound, OfTheDay, OfTheWeek, Allowance, BeijingDay, BeijingWeek
<1>2. CASE Tick \/ Donate \/ Restart \/ UNCHANGED vars
  BY <1>1, <1>2 DEF Tick, Donate, Restart, vars, world, check, settlement
<1>3. ASSUME NEW c \in Calls, c # d,
             \/ CheckWallet(c) \/ ReadClock(c) \/ ReadDaily(c) \/ ReadWeekly(c)
             \/ OfferNow(c) \/ Insert(c) \/ ReadBack(c) \/ Stamp(c) \/ Settle(c)
      PROVE  RoomFound(d)'
  <2>1. pc'[d] = pc[d]
    BY <1>0, <1>3 DEF TypeOK, CheckWallet, ReadClock, ReadDaily, ReadWeekly, OfferNow,
                      Insert, ReadBack, Stamp, Settle, Goto
  <2>2. now'[d] = now[d]
    BY <1>0, <1>3 DEF TypeOK, CheckWallet, ReadClock, ReadDaily, ReadWeekly, OfferNow,
                      Insert, ReadBack, Stamp, Settle
  <2>3. daily'[d] = daily[d]
    BY <1>0, <1>3 DEF TypeOK, CheckWallet, ReadClock, ReadDaily, ReadWeekly, OfferNow,
                      Insert, ReadBack, Stamp, Settle, check
  <2>4. before'[d] = before[d]
    BY <1>0, <1>3 DEF TypeOK, CheckWallet, ReadClock, ReadDaily, ReadWeekly, OfferNow,
                      Insert, ReadBack, Stamp, Settle, check
  <2> QED BY <1>1, <2>1, <2>2, <2>3, <2>4
<1>4. CASE CheckWallet(d)
  <2>1. now'[d] = NoTime /\ pc'[d] \in {"running", "clock"}
    BY <1>0, <1>4 DEF CheckWallet, Goto, TypeOK, RoomFound
  <2> QED BY <2>1 DEF RoomFound
<1>5. CASE ReadClock(d) \/ Insert(d) \/ ReadBack(d) \/ Stamp(d) \/ Settle(d) \/ OfferNow(d)
  <2>1. pc'[d] \in {"daily", "read", "stamp", "settle", "settled", "insert"}
    BY <1>0, <1>5 DEF ReadClock, Insert, ReadBack, Stamp, Settle, OfferNow, Goto, TypeOK
  <2> QED BY <2>1 DEF RoomFound
<1>6. now[d] # NoTime => now[d] \in Times
  BY <1>0 DEF TypeOK, TimeOrNone
<1>7. before[d] \subseteq log /\ \A r \in log : r.createdAt \in Times
  BY <1>0 DEF TypeOK
<1>8. CASE ReadDaily(d)
  <2>1. /\ pc[d] = "daily" /\ pc'[d] = "weekly" /\ now' = now /\ before' = before
        /\ daily'[d] = settledBaseTokenUsage(accountQuotaWindows(now[d]).daily)
    BY <1>0, <1>8 DEF ReadDaily, Goto, TypeOK
  <2>2. now[d] \in Times
    BY <1>0, <1>6, <2>1 DEF CutoverInv
  <2>3. PICK window : window = accountQuotaWindows(now[d]).daily
    OBVIOUS
  <2>4. OfTheDay(d) \in SUBSET log /\ \A r \in OfTheDay(d) : r.createdAt \in window
    BY <1>7, <2>2, <2>3, DayIsCovered DEF OfTheDay
  <2>5. /\ Allowance(OfTheDay(d)) <= settledBaseTokenUsage(window)
        /\ settledBaseTokenUsage(window) \in Nat
    BY <2>4, QueryCovers
  <2>6. Allowance(OfTheDay(d))' = Allowance(OfTheDay(d))
    BY <2>1 DEF Allowance, OfTheDay, BeijingDay
  <2> QED BY <2>1, <2>3, <2>5, <2>6 DEF RoomFound
<1>9. CASE ReadWeekly(d)
  <2>1. /\ pc[d] = "weekly" /\ now' = now /\ before' = before /\ daily' = daily
        /\ pc'[d] = IF Allowed(d) THEN "running" ELSE "denied"
    BY <1>0, <1>9 DEF ReadWeekly, Goto, TypeOK, check
  <2>2. now[d] \in Times
    BY <1>0, <1>6, <2>1 DEF CutoverInv
  <2>3. PICK window : window = accountQuotaWindows(now[d]).weekly
    OBVIOUS
  <2>4. OfTheWeek(d) \in SUBSET log /\ \A r \in OfTheWeek(d) : r.createdAt \in window
    BY <1>7, <2>2, <2>3, WeekIsCovered DEF OfTheWeek
  <2>5. /\ Allowance(OfTheWeek(d)) <= settledBaseTokenUsage(window)
        /\ settledBaseTokenUsage(window) \in Nat /\ Allowance(OfTheWeek(d)) \in Nat
    BY <2>4, QueryCovers
  <2>6. daily[d] \in Int /\ Allowance(OfTheDay(d)) <= daily[d]
    BY <1>0, <2>1 DEF RoomFound
  <2>7. Allowance(OfTheDay(d)) \in Nat
    <3>1. OfTheDay(d) \in SUBSET log /\ \A r \in OfTheDay(d) : r.createdAt \in Times
      BY <1>7 DEF OfTheDay
    <3> QED BY <3>1, QueryCovers
  <2>8. Allowed(d) => /\ Allowance(OfTheDay(d)) < DailyLimit
                      /\ Allowance(OfTheWeek(d)) < WeeklyLimit
    BY <2>3, <2>5, <2>6, <2>7, QuotaAssumption DEF Allowed
  <2>9. /\ Allowance(OfTheDay(d))' = Allowance(OfTheDay(d))
        /\ Allowance(OfTheWeek(d))' = Allowance(OfTheWeek(d))
    BY <2>1 DEF Allowance, OfTheDay, OfTheWeek, BeijingDay, BeijingWeek
  <2> QED BY <2>1, <2>8, <2>9 DEF RoomFound
<1> QED BY <1>2, <1>3, <1>4, <1>5, <1>8, <1>9 DEF Next

(* A call let through with an empty wallet found room in the Beijing day    *)
(* and the Beijing week (CheckUserDailyTokenQuota), for every calendar,     *)
(* every limit and any settlements while the check reads.                   *)
THEOREM ChecksFindRoom == Spec => []QuotaHolds
<1>1. Init => RoomInv
  BY DEF Init, RoomInv, RoomFound
<1>2. RoomInv => QuotaHolds
  BY DEF RoomInv, RoomFound, OfTheDay, OfTheWeek, QuotaHolds
<1> QED BY <1>1, <1>2, NextRoomInv, Inductive, PaidInvHolds, PTL DEF Spec
=============================================================================
