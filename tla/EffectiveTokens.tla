-------------------------- MODULE EffectiveTokens --------------------------
(***************************************************************************)
(* The tokens a request is accounted for (biz/effective_tokens.go), from   *)
(* the usage an upstream reports to the usage log, and back: by            *)
(* StoredEffectiveTokens, which rankings use, and by the SQL expressions   *)
(* with which quotas add rows up (biz/quota.go).  Rows of the release      *)
(* before the accounting fields are read too.                              *)
(*                                                                         *)
(* Integers wrap around like the code's int64: MaxInt stands for           *)
(* math.MaxInt64 and Ceiling for MaxEffectiveTokensPerRequest.             *)
(***************************************************************************)
EXTENDS Integers

CONSTANTS MaxInt, Ceiling

\* The SQL adds two bounded counts without saturation.
ASSUME TokensAssumption ==
    /\ MaxInt \in Nat
    /\ Ceiling \in Nat
    /\ 2 * Ceiling <= MaxInt

Word == -(MaxInt + 1) .. MaxInt
Usage == [prompt : Word, completion : Word, total : Word, details : BOOLEAN, cached : Word]

Greater(m, n) == IF m > n THEN m ELSE n
Lesser(m, n) == IF m < n THEN m ELSE n

\* Two's-complement addition and subtraction of two words.
Wrapped(n) ==
    IF n > MaxInt THEN n - 2 * (MaxInt + 1)
    ELSE IF n < -(MaxInt + 1) THEN n + 2 * (MaxInt + 1) ELSE n

\* Mutant of saturatingAddNonNegative: plain addition.
saturatingAddNonNegative_Plain(left, right) == Wrapped(Greater(left, 0) + Greater(right, 0))

saturatingAddNonNegative(left, right) ==
    IF Greater(left, 0) > Wrapped(MaxInt - Greater(right, 0)) THEN MaxInt
    ELSE Wrapped(Greater(left, 0) + Greater(right, 0))

\* The part of tokens that was not read from a cache.
WithoutCache(tokens, cached) ==
    IF Greater(tokens, 0) > Greater(cached, 0)
    THEN Wrapped(Greater(tokens, 0) - Greater(cached, 0))
    ELSE 0

boundedEffectiveTokens(prompt, completion, total, cached) ==
    Lesser(Greater(saturatingAddNonNegative(WithoutCache(prompt, cached), completion),
                   WithoutCache(total, cached)),
           Ceiling)

\* cached is what PromptTokensDetails says, when it is there.
CachedTokens(u) == IF u.details THEN Greater(u.cached, 0) ELSE 0

EffectiveOf(u) == boundedEffectiveTokens(u.prompt, u.completion, u.total, CachedTokens(u))

\* Mutant of StoredEffectiveTokens: any zero is taken for a row of the old release.
StoredEffectiveTokens_ZeroIsOld(r) ==
    IF r.effective > 0 THEN Greater(r.effective, 0)
    ELSE boundedEffectiveTokens(r.prompt, r.completion, r.total, 0)

StoredEffectiveTokens(r) ==
    IF r.effective > 0 \/ r.known THEN Greater(r.effective, 0)
    ELSE boundedEffectiveTokens(r.prompt, r.completion, r.total, r.cached)

\* The row CreateUsageLog writes.
RowOf(u, effective, known) ==
    [prompt |-> u.prompt, completion |-> u.completion,
     total |-> Greater(u.total, 0), cached |-> IF u.details THEN u.cached ELSE 0,
     effective |-> effective, known |-> known]

-----------------------------------------------------------------------------
(* The expressions of the quota queries.                                   *)

\* CASE ... > ceiling THEN ceiling: n, between zero and the ceiling.
Bounded(n) == IF n <= 0 THEN 0 ELSE Lesser(n, Ceiling)

WithoutCacheSQL(tokens, cached) ==
    IF tokens <= 0 \/ cached >= tokens THEN 0
    ELSE Lesser(Wrapped(tokens - Greater(cached, 0)), Ceiling)

effectiveTokensSQL(r) ==
    LET derived == Lesser(Wrapped(WithoutCacheSQL(r.prompt, r.cached)
                                  + Bounded(r.completion)), Ceiling)
        totalOnly == WithoutCacheSQL(r.total, r.cached)
    IN  IF r.effective # 0 \/ r.known THEN Bounded(r.effective)
        ELSE Greater(derived, totalOnly)

-----------------------------------------------------------------------------

\* The documented definition, over unbounded integers: reported negative
\* numbers count as zero, and the ceiling limits one request.
Definition(prompt, completion, total, cached) ==
    LET P == Greater(prompt, 0)
        C == Greater(cached, 0)
        nonCachedInput == Greater(P - C, 0)
    IN  Lesser(Greater(nonCachedInput + Greater(completion, 0), Greater(total, 0) - C), Ceiling)

\* What a reported usage counts for.
Documented(u) == Definition(u.prompt, u.completion, u.total, CachedTokens(u))
=============================================================================
