----------------------- MODULE UsageSettlement_proofs -----------------------
(***************************************************************************)
(* Proofs about UsageSettlement, for any number of calls, requests and     *)
(* users, and for each of the three kinds of transaction isolation.        *)
(***************************************************************************)
EXTENDS UsageSettlement, DataFacts, TLAPS

\* Locks exclude one another.
LocksExclude ==
    \A c, d \in Calls : \A l \in held[c] \cap held[d] : c = d

\* No snapshot shows a negative balance.
ViewsNonNegative ==
    \A c \in Calls : \A u \in Users : view[c].wallet[u].balance >= 0

\* What a transaction plans to write, it has locked by the time it commits.
PlanLocked(c) ==
    /\ pc[c] \in {"debit", "credit", "commit"} /\ plan[c].debit > 0
            => CallerOf(c) \in Users /\ Lock(CallerOf(c)) \in held[c]
    /\ pc[c] \in {"debit", "credit", "commit"} /\ plan[c].credit > 0
            => DonorOf(c) \in Users /\ DonorOf(c) # CallerOf(c)
    /\ pc[c] = "commit" /\ plan[c].credit > 0 => Lock(DonorOf(c)) \in held[c]

\* The conditional UPDATE and the unique index checked what will be committed.
PlanCovered(c) ==
    /\ pc[c] \in {"credit", "commit"} /\ plan[c].debit > 0
            => /\ wallet[CallerOf(c)].balance >= plan[c].debit
               /\ ~Recorded(c, CallerOf(c), "debit")
    /\ pc[c] = "commit" /\ plan[c].credit > 0 => ~Recorded(c, DonorOf(c), "credit")

\* A call that is still trying has an attempt left.
AttemptLeft(c) ==
    pc[c] \in InTransaction \cup {"idle", "cutover", "check", "waiting"} => attempt[c] < MaxAttempts

Own(c) == PlanLocked(c) /\ PlanCovered(c) /\ AttemptLeft(c)

\* Ledger rows belong to the two parties of their request.
LedgerParties ==
    \A row \in ledger :
        row.user = IF row.kind = "debit" THEN CallerOf(row.call) ELSE DonorOf(row.call)

IInv ==
    /\ TypeOK
    /\ NeverOverdrawn
    /\ ViewsNonNegative
    /\ LocksExclude
    /\ \A c \in Calls : Own(c)
    /\ LedgerParties
    /\ SettledOnce

-----------------------------------------------------------------------------

\* The program counters of a call.
Places == InTransaction \cup Ended \cup {"idle", "cutover", "check", "waiting", "lookup"}

\* What a conversion of the source's settlement arithmetic returns.
LEMMA Amounts ==
    ASSUME TypeOK, NeverOverdrawn, ViewsNonNegative, NEW c \in Calls
    PROVE  /\ Used(c) \in Nat
           /\ CallerOf(c) \in Users \cup {NoUser}
           /\ DonorOf(c) \in Users \cup {NoUser}
           /\ DebitOf(c) \in Nat
           /\ CreditOf(c) \in Nat
           /\ DebitOf(c) > 0 => Debits(c)
           /\ CreditOf(c) > 0 => DonorOf(c) \in Users /\ DonorOf(c) # CallerOf(c)
           /\ Debits(c) => CallerOf(c) \in Users
<1>1. Used(c) \in Nat /\ CallerOf(c) \in Users \cup {NoUser} /\ DonorOf(c) \in Users \cup {NoUser}
  BY SettlementAssumption DEF Used, CallerOf, DonorOf
<1>2. Debits(c) => CallerOf(c) \in Users
  BY <1>1 DEF Debits
<1>3. CreditOf(c) \in Nat
  BY <1>1, SMT DEF CreditOf
<1>4. CreditOf(c) > 0 => DonorOf(c) \in Users /\ DonorOf(c) # CallerOf(c)
  BY <1>1, SMT DEF CreditOf, Credits
<1>5. DebitOf(c) \in Nat /\ (DebitOf(c) > 0 => Debits(c))
  <2>1. CASE ~Debits(c)
    BY <2>1 DEF DebitOf
  <2>2. CASE Debits(c)
    <3>1. \A u \in Users : Seen(c).wallet[u].balance \in Int /\ Seen(c).wallet[u].balance >= 0
      <4>1. CASE Engine = "postgres"
        BY <4>1 DEF Seen, Latest, TypeOK, Row, NeverOverdrawn
      <4>2. CASE Engine # "postgres"
        BY <4>2 DEF Seen, TypeOK, Snapshot, Row, ViewsNonNegative
      <4> QED BY <4>1, <4>2
    <3>2. Seen(c).wallet[CallerOf(c)].balance \in Int /\ Seen(c).wallet[CallerOf(c)].balance >= 0
      BY <2>2, <1>2, <3>1
    <3>3. DebitOf(c) = IF Seen(c).wallet[CallerOf(c)].balance < Used(c)
                       THEN Seen(c).wallet[CallerOf(c)].balance ELSE Used(c)
      BY <2>2 DEF DebitOf
    <3> QED BY <3>2, <3>3, <2>2, <1>1, SMT
  <2> QED BY <2>1, <2>2
<1> QED BY <1>1, <1>2, <1>3, <1>4, <1>5

\* Every step that leaves the database alone is one call's, and touches only
\* that call's own control state.
Alone(c) ==
    /\ UNCHANGED <<wallet, logs, ledger>>
    /\ \E p \in Places : pc' = [pc EXCEPT ![c] = p]
    /\ \E n \in 0 .. MaxAttempts : attempt' = [attempt EXCEPT ![c] = n]
    /\ \E q \in [debit : Nat, credit : Nat] : plan' = [plan EXCEPT ![c] = q]
    /\ \E v \in {view[c], Latest} : view' = [view EXCEPT ![c] = v]
    /\ \E H \in SUBSET (Users \cup {Database}) :
          /\ held' = [held EXCEPT ![c] = H]
          /\ \A l \in H \ held[c] : HolderOf(l) = {}

\* Such a step keeps what concerns every other call, and the database.
LEMMA AloneKeeps ==
    ASSUME IInv, NEW c \in Calls, Alone(c)
    PROVE  /\ TypeOK'
           /\ NeverOverdrawn'
           /\ ViewsNonNegative'
           /\ LocksExclude'
           /\ LedgerParties'
           /\ SettledOnce'
           /\ \A d \in Calls \ {c} : Own(d)'
<1>0. TypeOK /\ UNCHANGED <<wallet, logs, ledger>>
  BY DEF IInv, Alone
<1>1. TypeOK'
  <2>1. pc' \in [Calls -> InTransaction \cup Ended \cup {"idle", "cutover", "check", "waiting", "lookup"}]
    BY <1>0 DEF Alone, TypeOK, Places
  <2>2. attempt' \in [Calls -> 0 .. MaxAttempts]
    BY <1>0 DEF Alone, TypeOK
  <2>3. plan' \in [Calls -> [debit : Nat, credit : Nat]]
    BY <1>0 DEF Alone, TypeOK
  <2>4. view' \in [Calls -> Snapshot]
    <3>1. Latest \in Snapshot
      BY <1>0 DEF TypeOK, Latest, Snapshot
    <3>2. view[c] \in Snapshot
      BY <1>0 DEF TypeOK
    <3> QED BY <1>0, <3>1, <3>2 DEF Alone, TypeOK
  <2>5. held' \in [Calls -> SUBSET (Users \cup {Database})]
    BY <1>0 DEF Alone, TypeOK
  <2> QED BY <1>0, <2>1, <2>2, <2>3, <2>4, <2>5 DEF TypeOK
<1>2. NeverOverdrawn' /\ LedgerParties' /\ SettledOnce'
  BY <1>0 DEF IInv, NeverOverdrawn, LedgerParties, SettledOnce, CallerOf, DonorOf
<1>3. ViewsNonNegative'
  <2> SUFFICES ASSUME NEW d \in Calls, NEW u \in Users
               PROVE  view'[d].wallet[u].balance >= 0
    BY DEF ViewsNonNegative
  <2>1. view'[d] \in {view[d], Latest}
    BY <1>0 DEF Alone, TypeOK
  <2>2. Latest.wallet[u].balance >= 0
    BY DEF IInv, NeverOverdrawn, Latest
  <2>3. view[d].wallet[u].balance >= 0
    BY DEF IInv, ViewsNonNegative
  <2> QED BY <2>1, <2>2, <2>3
<1>4. LocksExclude'
  <2> SUFFICES ASSUME NEW d \in Calls, NEW e \in Calls, NEW l \in held'[d], l \in held'[e], d # e
               PROVE  FALSE
    BY DEF LocksExclude
  <2>0. held \in [Calls -> SUBSET (Users \cup {Database})]
    BY <1>0 DEF TypeOK
  <2>1. PICK H \in SUBSET (Users \cup {Database}) :
            held' = [held EXCEPT ![c] = H] /\ \A k \in H \ held[c] : HolderOf(k) = {}
    BY DEF Alone
  <2>2. \A k : \A f \in Calls : HolderOf(k) = {} => k \notin held[f]
    BY DEF HolderOf
  <2>3. ~(l \in held[d] /\ l \in held[e])
    BY DEF IInv, LocksExclude
  <2> QED BY <2>0, <2>1, <2>2, <2>3
<1>5. \A d \in Calls \ {c} : Own(d)'
  <2> TAKE d \in Calls \ {c}
  <2>1. pc'[d] = pc[d] /\ plan'[d] = plan[d] /\ held'[d] = held[d] /\ attempt'[d] = attempt[d]
    BY <1>0 DEF Alone, TypeOK
  <2>2. PlanLocked(d) /\ PlanCovered(d) /\ AttemptLeft(d)
    BY DEF IInv, Own
  <2>3. PlanLocked(d)'
    BY <2>1, <2>2 DEF PlanLocked, CallerOf, DonorOf, Lock
  <2>4. PlanCovered(d)'
    BY <1>0, <2>1, <2>2 DEF PlanCovered, CallerOf, DonorOf, Recorded
  <2>5. AttemptLeft(d)'
    BY <2>1, <2>2 DEF AttemptLeft
  <2> QED BY <2>3, <2>4, <2>5 DEF Own
<1> QED BY <1>1, <1>2, <1>3, <1>4, <1>5

\* A rollback is such a step, and leaves nothing planned and nothing locked.
LEMMA RollBackAlone ==
    ASSUME IInv, NEW c \in Calls,
           NEW next \in Places \ InTransaction, RollBack(c, next),
           NEW n \in 0 .. MaxAttempts, attempt' = [attempt EXCEPT ![c] = n],
           next \in {"idle", "cutover", "check", "waiting"} => n < MaxAttempts
    PROVE  Alone(c) /\ Own(c)'
<1>0. TypeOK
  BY DEF IInv
<1>1. \E q \in [debit : Nat, credit : Nat] : plan' = [plan EXCEPT ![c] = q]
  BY DEF RollBack, Nothing
<1>2. \E v \in {view[c], Latest} : view' = [view EXCEPT ![c] = v]
  BY <1>0 DEF RollBack, TypeOK
<1>3. \E p \in Places : pc' = [pc EXCEPT ![c] = p]
  BY DEF RollBack
<1>4. \E H \in SUBSET (Users \cup {Database}) :
          held' = [held EXCEPT ![c] = H] /\ \A l \in H \ held[c] : HolderOf(l) = {}
  <2>1. held' = [held EXCEPT ![c] = {}]
    BY DEF RollBack
  <2>2. {} \in SUBSET (Users \cup {Database}) /\ \A l \in {} \ held[c] : HolderOf(l) = {}
    OBVIOUS
  <2> QED BY <2>1, <2>2, Zenon
<1>5. Alone(c)
  BY <1>1, <1>2, <1>3, <1>4 DEF RollBack, Alone
<1>6. pc'[c] = next /\ attempt'[c] = n
  BY <1>0 DEF RollBack, TypeOK
<1>7. next \notin InTransaction /\ next \notin {"debit", "credit", "commit"}
  BY DEF InTransaction
<1>8. Own(c)'
  BY <1>6, <1>7 DEF Own, PlanLocked, PlanCovered, AttemptLeft
<1> QED BY <1>5, <1>8

LEMMA RetryAlone ==
    ASSUME IInv, NEW c \in Calls, Retry(c),
           pc[c] \in InTransaction \cup {"check"}
    PROVE  Alone(c) /\ Own(c)'
<1>0. TypeOK /\ attempt[c] < MaxAttempts
  BY DEF IInv, Own, AttemptLeft
<1>1. attempt[c] + 1 \in 0 .. MaxAttempts
  BY <1>0, SettlementAssumption DEF TypeOK
<1>2. attempt' = [attempt EXCEPT ![c] = attempt[c] + 1]
  BY <1>0 DEF Retry
<1> DEFINE next == IF attempt[c] + 1 < MaxAttempts THEN "waiting" ELSE "lookup"
<1>3. next \in Places \ InTransaction
  BY DEF Places, InTransaction
<1>4. next \in {"idle", "cutover", "check", "waiting"} => attempt[c] + 1 < MaxAttempts
  OBVIOUS
<1>5. RollBack(c, next)
  BY DEF Retry
<1> HIDE DEF next
<1> QED BY <1>1, <1>2, <1>3, <1>4, <1>5, RollBackAlone

\* What the statements of one attempt do to the call that issues them.
LEMMA StatementAlone ==
    ASSUME IInv, NEW c \in Calls,
           \/ Start(c) \/ CheckExisting(c) \/ PrepareSettlement(c)
           \/ WriteDebit(c) \/ WriteCredit(c)
    PROVE  Alone(c) /\ Own(c)'
<1>0. TypeOK /\ Own(c)
  BY DEF IInv
<1>a. /\ view' = view => \E v \in {view[c], Latest} : view' = [view EXCEPT ![c] = v]
      /\ attempt' = attempt => \E n \in 0 .. MaxAttempts : attempt' = [attempt EXCEPT ![c] = n]
      /\ plan' = plan =>
            \E q \in [debit : Nat, credit : Nat] : plan' = [plan EXCEPT ![c] = q]
      /\ held' = held =>
            \E H \in SUBSET (Users \cup {Database}) :
                held' = [held EXCEPT ![c] = H] /\ \A l \in H \ held[c] : HolderOf(l) = {}
  <2>1. view = [view EXCEPT ![c] = view[c]] /\ attempt = [attempt EXCEPT ![c] = attempt[c]]
    BY <1>0 DEF TypeOK
  <2>2. plan = [plan EXCEPT ![c] = plan[c]] /\ plan[c] \in [debit : Nat, credit : Nat]
    BY <1>0 DEF TypeOK
  <2>3. held = [held EXCEPT ![c] = held[c]] /\ held[c] \in SUBSET (Users \cup {Database})
    BY <1>0 DEF TypeOK
  <2>4. attempt[c] \in 0 .. MaxAttempts
    BY <1>0 DEF TypeOK
  <2> QED BY <2>1, <2>2, <2>3, <2>4
<1>b. ASSUME NEW l \in Users \cup {Database}, CanTake(c, l), Take(c, l)
      PROVE  /\ \E H \in SUBSET (Users \cup {Database}) :
                    held' = [held EXCEPT ![c] = H] /\ \A k \in H \ held[c] : HolderOf(k) = {}
             /\ held'[c] = held[c] \cup {l}
  <2>1. held' = [held EXCEPT ![c] = held[c] \cup {l}]
    BY <1>0, <1>b DEF Take
  <2>2. held[c] \cup {l} \in SUBSET (Users \cup {Database})
    BY <1>0 DEF TypeOK
  <2>3. \A k \in (held[c] \cup {l}) \ held[c] : HolderOf(k) = {}
    BY <1>b DEF CanTake
  <2>4. held'[c] = held[c] \cup {l}
    BY <2>1, <1>0 DEF TypeOK
  <2> QED BY <2>1, <2>2, <2>3, <2>4
<1>1. CASE Start(c)
  <2>1. pc'[c] = "cutover" /\ pc' = [pc EXCEPT ![c] = "cutover"]
    BY <1>0, <1>1 DEF Start, TypeOK
  <2>2. Alone(c)
    BY <1>1, <1>a, <2>1 DEF Start, Alone, Places
  <2>3. Own(c)'
    BY <1>0, <1>1, <2>1 DEF Start, Own, PlanLocked, PlanCovered, AttemptLeft
  <2> QED BY <2>2, <2>3
<1>2. CASE CheckExisting(c)
  <2>1. PICK p \in {"existing", "prepare"} : pc' = [pc EXCEPT ![c] = p]
    BY <1>2 DEF CheckExisting
  <2>2. p \in Places
    BY DEF Places, Ended, InTransaction
  <2>3. Alone(c)
    BY <1>2, <1>a, <2>1, <2>2 DEF CheckExisting, Alone
  <2>4. pc'[c] = p
    BY <1>0, <2>1 DEF TypeOK
  <2>5. Own(c)'
    BY <1>0, <1>2, <2>4 DEF CheckExisting, Own, PlanLocked, PlanCovered, AttemptLeft
  <2> QED BY <2>3, <2>5
<1>3. CASE PrepareSettlement(c)
  <2> DEFINE q == [debit |-> DebitOf(c), credit |-> CreditOf(c)]
  <2>0. /\ q \in [debit : Nat, credit : Nat]
        /\ q.debit > 0 => Debits(c) /\ CallerOf(c) \in Users
        /\ q.credit > 0 => DonorOf(c) \in Users /\ DonorOf(c) # CallerOf(c)
    BY Amounts DEF IInv
  <2>1. plan' = [plan EXCEPT ![c] = q] /\ pc' = [pc EXCEPT ![c] = "debit"]
    BY <1>3 DEF PrepareSettlement
  <2> HIDE DEF q
  <2>2. plan'[c] = q /\ pc'[c] = "debit"
    BY <1>0, <2>1 DEF TypeOK
  <2>3. Debits(c) => Lock(CallerOf(c)) \in Users \cup {Database}
    BY Amounts DEF IInv, Lock
  <2>4. /\ \E H \in SUBSET (Users \cup {Database}) :
               held' = [held EXCEPT ![c] = H] /\ \A l \in H \ held[c] : HolderOf(l) = {}
        /\ Debits(c) => Lock(CallerOf(c)) \in held'[c]
    <3>1. CASE Debits(c)
      <4>1. CanTake(c, Lock(CallerOf(c))) /\ Take(c, Lock(CallerOf(c)))
        BY <1>3, <3>1 DEF PrepareSettlement
      <4>2. Lock(CallerOf(c)) \in Users \cup {Database}
        BY <2>3, <3>1
      <4> QED BY <4>1, <4>2, <1>b
    <3>2. CASE ~Debits(c)
      BY <1>3, <1>a, <3>2 DEF PrepareSettlement
    <3> QED BY <3>1, <3>2
  <2>5. Alone(c)
    BY <1>3, <1>a, <2>0, <2>1, <2>4 DEF PrepareSettlement, Alone, Places, InTransaction
  <2>6. PlanLocked(c)'
    BY <2>0, <2>2, <2>4 DEF PlanLocked, CallerOf, DonorOf, Lock
  <2>7. PlanCovered(c)' /\ AttemptLeft(c)'
    BY <1>0, <1>3, <2>2 DEF PrepareSettlement, PlanCovered, AttemptLeft, Own, InTransaction
  <2> QED BY <2>5, <2>6, <2>7 DEF Own
<1>4. CASE WriteDebit(c)
  <2>1. CASE plan[c].debit > 0 /\ DebitConflict(c) /\ Retry(c)
    BY <1>4, <2>1, RetryAlone DEF WriteDebit, InTransaction
  <2>2. CASE /\ plan[c].debit = 0 \/ ~DebitConflict(c)
             /\ pc' = [pc EXCEPT ![c] = "credit"]
             /\ IF Engine = "sqlite" THEN Take(c, Database) ELSE UNCHANGED held
             /\ UNCHANGED <<wallet, logs, ledger, attempt, plan, view>>
    <3>1. pc'[c] = "credit"
      BY <1>0, <2>2 DEF TypeOK
    <3>2. /\ \E H \in SUBSET (Users \cup {Database}) :
                 held' = [held EXCEPT ![c] = H] /\ \A l \in H \ held[c] : HolderOf(l) = {}
          /\ held[c] \subseteq held'[c]
      BY <1>4, <2>2, <1>a, <1>b DEF WriteDebit
    <3>3. Alone(c)
      BY <2>2, <1>a, <3>2 DEF Alone, Places, InTransaction
    <3>4. PlanLocked(c)'
      BY <1>0, <1>4, <2>2, <3>1, <3>2 DEF WriteDebit, Own, PlanLocked, CallerOf, DonorOf, Lock
    <3>5. PlanCovered(c)'
      <4>1. plan[c].debit > 0 => CallerOf(c) \in Users
        BY <1>0, <1>4 DEF WriteDebit, Own, PlanLocked
      <4>2. plan[c].debit > 0 => ~DebitConflict(c)
        BY <2>2
      <4>3. plan[c].debit > 0 => wallet[CallerOf(c)].balance \in Int
        BY <1>0, <4>1 DEF TypeOK, Row
      <4>4. plan[c].debit \in Nat
        BY <1>0 DEF TypeOK
      <4>5. plan[c].debit > 0 => wallet[CallerOf(c)].balance >= plan[c].debit
                                 /\ ~Recorded(c, CallerOf(c), "debit")
        BY <4>2, <4>3, <4>4 DEF DebitConflict
      <4> QED BY <2>2, <3>1, <4>5 DEF PlanCovered, CallerOf, DonorOf, Recorded
    <3>6. AttemptLeft(c)'
      BY <1>0, <1>4, <2>2 DEF WriteDebit, AttemptLeft, Own, InTransaction
    <3> QED BY <3>3, <3>4, <3>5, <3>6 DEF Own
  <2> QED BY <1>4, <2>1, <2>2 DEF WriteDebit
<1>5. CASE WriteCredit(c)
  <2>1. CASE Retry(c)
    BY <1>5, <2>1, RetryAlone DEF WriteCredit, InTransaction
  <2>2. CASE /\ plan[c].credit = 0
             /\ pc' = [pc EXCEPT ![c] = "commit"]
             /\ UNCHANGED <<wallet, logs, ledger, attempt, plan, view, held>>
    <3>1. pc'[c] = "commit"
      BY <1>0, <2>2 DEF TypeOK
    <3>2. Alone(c)
      BY <2>2, <1>a DEF Alone, Places, InTransaction
    <3>3. PlanLocked(c)'
      BY <1>0, <1>5, <2>2, <3>1 DEF WriteCredit, Own, PlanLocked, CallerOf, DonorOf, Lock
    <3>4. PlanCovered(c)'
      BY <1>0, <1>5, <2>2, <3>1 DEF WriteCredit, Own, PlanCovered, CallerOf, DonorOf, Recorded
    <3>5. AttemptLeft(c)'
      BY <1>0, <1>5, <2>2 DEF WriteCredit, AttemptLeft, Own, InTransaction
    <3> QED BY <3>2, <3>3, <3>4, <3>5 DEF Own
  <2>3. CASE /\ plan[c].credit > 0
             /\ CanTake(c, Lock(DonorOf(c)))
             /\ ~Recorded(c, DonorOf(c), "credit")
             /\ Take(c, Lock(DonorOf(c)))
             /\ pc' = [pc EXCEPT ![c] = "commit"]
             /\ UNCHANGED <<wallet, logs, ledger, attempt, plan, view>>
    <3>1. pc'[c] = "commit"
      BY <1>0, <2>3 DEF TypeOK
    <3>2. Lock(DonorOf(c)) \in Users \cup {Database}
      BY <1>0, <1>5, <2>3 DEF WriteCredit, Own, PlanLocked, Lock
    <3>3. /\ \E H \in SUBSET (Users \cup {Database}) :
                 held' = [held EXCEPT ![c] = H] /\ \A l \in H \ held[c] : HolderOf(l) = {}
          /\ held'[c] = held[c] \cup {Lock(DonorOf(c))}
      BY <2>3, <3>2, <1>b
    <3>4. Alone(c)
      BY <2>3, <1>a, <3>3 DEF Alone, Places, InTransaction
    <3>5. PlanLocked(c)'
      BY <1>0, <1>5, <2>3, <3>1, <3>3 DEF WriteCredit, Own, PlanLocked, CallerOf, DonorOf, Lock
    <3>6. PlanCovered(c)'
      BY <1>0, <1>5, <2>3, <3>1 DEF WriteCredit, Own, PlanCovered, CallerOf, DonorOf, Recorded
    <3>7. AttemptLeft(c)'
      BY <1>0, <1>5, <2>3 DEF WriteCredit, AttemptLeft, Own, InTransaction
    <3> QED BY <3>4, <3>5, <3>6, <3>7 DEF Own
  <2> QED BY <1>5, <2>1, <2>2, <2>3 DEF WriteCredit
<1> QED BY <1>1, <1>2, <1>3, <1>4, <1>5

LEMMA RowAfterMove ==
    ASSUME NEW row \in Row, NEW n \in Nat
    PROVE  /\ Debited(row, n) \in Row /\ Debited(row, n).balance = row.balance - n
           /\ Credited(row, n) \in Row /\ Credited(row, n).balance = row.balance + n
BY DEF Row, Debited, Credited

\* What commits changes the rows of a user only under that user's lock, and
\* every other transaction's plan stays covered.
LEMMA CommitKeeps ==
    ASSUME IInv, NEW c \in Calls, Commit(c)
    PROVE  IInv'
<1>0. TypeOK /\ Own(c) /\ pc[c] = "commit"
  BY DEF IInv, Commit
<1>1. /\ plan[c] \in [debit : Nat, credit : Nat]
      /\ plan[c].debit > 0 => /\ CallerOf(c) \in Users
                              /\ Lock(CallerOf(c)) \in held[c]
                              /\ wallet[CallerOf(c)].balance >= plan[c].debit
                              /\ ~Recorded(c, CallerOf(c), "debit")
      /\ plan[c].credit > 0 => /\ DonorOf(c) \in Users
                               /\ Lock(DonorOf(c)) \in held[c]
                               /\ ~Recorded(c, DonorOf(c), "credit")
  BY <1>0 DEF TypeOK, Own, PlanLocked, PlanCovered
<1>2. \A u \in Users :
        /\ wallet'[u] = IF plan[c].debit > 0 /\ u = CallerOf(c) THEN Debited(wallet[u], plan[c].debit)
                        ELSE IF plan[c].credit > 0 /\ u = DonorOf(c) THEN Credited(wallet[u], plan[c].credit)
                        ELSE wallet[u]
        /\ wallet[u] \in Row
  BY <1>0 DEF Commit, NewWallet, TypeOK
<1>3. \A u \in Users : wallet'[u] \in Row /\ wallet'[u].balance >= 0
  <2> TAKE u \in Users
  <2>1. wallet[u] \in Row /\ wallet[u].balance >= 0
    BY <1>2 DEF IInv, NeverOverdrawn
  <2>2. CASE plan[c].debit > 0 /\ u = CallerOf(c)
    <3>1. wallet'[u] = Debited(wallet[u], plan[c].debit) /\ wallet[u].balance >= plan[c].debit
      BY <1>1, <1>2, <2>2
    <3>2. plan[c].debit \in Nat /\ wallet[u].balance \in Int
      BY <1>1, <2>1 DEF Row
    <3>3. /\ Debited(wallet[u], plan[c].debit) \in Row
          /\ Debited(wallet[u], plan[c].debit).balance = wallet[u].balance - plan[c].debit
      BY <2>1, <3>2, RowAfterMove, Zenon
    <3>4. wallet[u].balance >= plan[c].debit
      BY <3>1
    <3> QED BY ONLY <3>1, <3>2, <3>3, <3>4
  <2>3. CASE ~(plan[c].debit > 0 /\ u = CallerOf(c)) /\ plan[c].credit > 0 /\ u = DonorOf(c)
    <3>1. wallet'[u] = Credited(wallet[u], plan[c].credit)
      BY <1>2, <2>3
    <3>2. plan[c].credit \in Nat /\ wallet[u].balance \in Int
      BY <1>1, <2>1 DEF Row
    <3>3. /\ Credited(wallet[u], plan[c].credit) \in Row
          /\ Credited(wallet[u], plan[c].credit).balance = wallet[u].balance + plan[c].credit
      BY <2>1, <3>2, RowAfterMove, Zenon
    <3> QED BY ONLY <2>1, <3>1, <3>2, <3>3
  <2>4. CASE ~(plan[c].debit > 0 /\ u = CallerOf(c)) /\ ~(plan[c].credit > 0 /\ u = DonorOf(c))
    BY <1>2, <2>1, <2>4
  <2> QED BY <2>2, <2>3, <2>4
<1> DEFINE debitRow == [call |-> c, user |-> CallerOf(c), kind |-> "debit", amount |-> plan[c].debit]
           creditRow == [call |-> c, user |-> DonorOf(c), kind |-> "credit", amount |-> plan[c].credit]
<1>4. \A row \in ledger' : \/ row \in ledger
                           \/ row = debitRow /\ plan[c].debit > 0
                           \/ row = creditRow /\ plan[c].credit > 0
  BY DEF Commit, NewRows
<1>5. /\ debitRow.call = c /\ debitRow.user = CallerOf(c) /\ debitRow.kind = "debit"
      /\ creditRow.call = c /\ creditRow.user = DonorOf(c) /\ creditRow.kind = "credit"
  OBVIOUS
<1>6. /\ plan[c].debit > 0 => debitRow \in [call : Calls, user : Users, kind : {"debit", "credit"}, amount : Nat \ {0}]
      /\ plan[c].credit > 0 => creditRow \in [call : Calls, user : Users, kind : {"debit", "credit"}, amount : Nat \ {0}]
  BY <1>1
<1> HIDE DEF debitRow, creditRow
<1>7. TypeOK'
  <2>1. wallet' \in [Users -> Row]
    BY <1>3 DEF Commit, NewWallet
  <2>2. logs' \subseteq [call : Calls, debit : Nat, credit : Nat]
    BY <1>0, <1>1 DEF Commit, TypeOK
  <2>3. ledger' \subseteq [call : Calls, user : Users, kind : {"debit", "credit"}, amount : Nat \ {0}]
    BY <1>0, <1>4, <1>6 DEF TypeOK
  <2>4. pc' \in [Calls -> InTransaction \cup Ended \cup {"idle", "cutover", "check", "waiting", "lookup"}]
    <3>1. PICK next \in {"settled", "lookup"} : pc' = [pc EXCEPT ![c] = next]
      BY DEF Commit
    <3>2. next \in Ended \cup {"lookup"}
      BY DEF Ended
    <3> QED BY <1>0, <3>1, <3>2 DEF TypeOK
  <2>5. plan' \in [Calls -> [debit : Nat, credit : Nat]]
    BY <1>0 DEF Commit, TypeOK, Nothing
  <2>6. held' \in [Calls -> SUBSET (Users \cup {Database})]
    BY <1>0 DEF Commit, TypeOK
  <2>7. attempt' \in [Calls -> 0 .. MaxAttempts] /\ view' \in [Calls -> Snapshot]
    BY <1>0 DEF Commit, TypeOK
  <2> QED BY <2>1, <2>2, <2>3, <2>4, <2>5, <2>6, <2>7 DEF TypeOK
<1>8. NeverOverdrawn'
  BY <1>3 DEF NeverOverdrawn
<1>9. ViewsNonNegative'
  BY DEF IInv, ViewsNonNegative, Commit
<1>10. held' = [held EXCEPT ![c] = {}]
  BY DEF Commit
<1>11. \A d \in Calls : held'[d] \subseteq held[d]
  BY <1>0, <1>10 DEF TypeOK
<1>12. LocksExclude'
  BY <1>11 DEF IInv, LocksExclude
<1>13. ASSUME NEW d \in Calls PROVE Own(d)'
  <2>1. CASE d = c
    <3>1. pc'[c] \in {"settled", "lookup"}
      BY <1>0 DEF Commit, TypeOK
    <3> QED BY <2>1, <3>1 DEF Own, PlanLocked, PlanCovered, AttemptLeft, InTransaction
  <2>2. CASE d # c
    <3>1. pc'[d] = pc[d] /\ plan'[d] = plan[d] /\ held'[d] = held[d] /\ attempt'[d] = attempt[d]
      BY <1>0, <2>2 DEF Commit, TypeOK
    <3>2. Own(d)
      BY DEF IInv
    <3>3. PlanLocked(d)' /\ AttemptLeft(d)'
      BY <3>1, <3>2 DEF Own, PlanLocked, AttemptLeft, CallerOf, DonorOf, Lock
    <3>4. \A l : ~(l \in held[c] /\ l \in held[d])
      BY <2>2 DEF IInv, LocksExclude
    <3>5. \A u \in Users : Lock(u) \in held[d] =>
              /\ ~(plan[c].debit > 0 /\ u = CallerOf(c))
              /\ ~(plan[c].credit > 0 /\ u = DonorOf(c))
      BY <3>4, <1>1
    <3>6. \A u \in Users : Lock(u) \in held[d] =>
              /\ wallet'[u] = wallet[u]
              /\ \A row \in ledger' : row.user = u => row \in ledger
      BY <1>2, <1>4, <1>5, <3>5
    <3>7. ASSUME pc[d] \in {"credit", "commit"}, plan[d].debit > 0
          PROVE  /\ wallet'[CallerOf(d)].balance >= plan[d].debit
                 /\ \A row \in ledger' :
                        ~(RequestOf[row.call] = RequestOf[d] /\ row.user = CallerOf(d) /\ row.kind = "debit")
      <4>1. CallerOf(d) \in Users /\ Lock(CallerOf(d)) \in held[d] /\ ~Recorded(d, CallerOf(d), "debit")
            /\ wallet[CallerOf(d)].balance >= plan[d].debit
        BY <3>2, <3>7 DEF Own, PlanLocked, PlanCovered
      <4> QED BY <3>6, <4>1 DEF Recorded
    <3>8. ASSUME pc[d] = "commit", plan[d].credit > 0
          PROVE  \A row \in ledger' :
                    ~(RequestOf[row.call] = RequestOf[d] /\ row.user = DonorOf(d) /\ row.kind = "credit")
      <4>1. DonorOf(d) \in Users /\ Lock(DonorOf(d)) \in held[d] /\ ~Recorded(d, DonorOf(d), "credit")
        BY <3>2, <3>8 DEF Own, PlanLocked, PlanCovered
      <4> QED BY <3>6, <4>1 DEF Recorded
    <3>9. PlanCovered(d)'
      BY <3>1, <3>7, <3>8 DEF PlanCovered, Recorded, CallerOf, DonorOf
    <3> QED BY <3>3, <3>9 DEF Own
  <2> QED BY <2>1, <2>2
<1>14. LedgerParties'
  <2> SUFFICES ASSUME NEW row \in ledger'
               PROVE  row.user = IF row.kind = "debit" THEN CallerOf(row.call) ELSE DonorOf(row.call)
    BY DEF LedgerParties, CallerOf, DonorOf
  <2> QED BY <1>4, <1>5 DEF IInv, LedgerParties
<1>15. SettledOnce'
  <2>1. \A row \in ledger : row.kind = "debit" /\ plan[c].debit > 0 => RequestOf[row.call] # RequestOf[c]
    <3> TAKE row \in ledger
    <3> HAVE row.kind = "debit" /\ plan[c].debit > 0
    <3>1. row.user = Caller[RequestOf[row.call]]
      BY DEF IInv, LedgerParties, CallerOf
    <3> QED BY <1>1, <3>1 DEF Recorded, CallerOf
  <2>2. \A row \in ledger : row.kind = "credit" /\ plan[c].credit > 0 => RequestOf[row.call] # RequestOf[c]
    <3> TAKE row \in ledger
    <3> HAVE row.kind = "credit" /\ plan[c].credit > 0
    <3>1. row.user = ChannelOwner[RequestOf[row.call]]
      BY DEF IInv, LedgerParties, DonorOf
    <3> QED BY <1>1, <3>1 DEF Recorded, DonorOf
  <2> SUFFICES ASSUME NEW a \in ledger', NEW b \in ledger',
                      RequestOf[a.call] = RequestOf[b.call], a.kind = b.kind
               PROVE  a = b
    BY DEF SettledOnce
  <2>3. CASE a \in ledger /\ b \in ledger
    BY <2>3 DEF IInv, SettledOnce
  <2>4. CASE a \in ledger /\ b \notin ledger
    BY <2>4, <2>1, <2>2, <1>4, <1>5
  <2>5. CASE a \notin ledger /\ b \in ledger
    BY <2>5, <2>1, <2>2, <1>4, <1>5
  <2>6. CASE a \notin ledger /\ b \notin ledger
    BY <2>6, <1>4, <1>5
  <2> QED BY <2>3, <2>4, <2>5, <2>6
<1> QED BY <1>7, <1>8, <1>9, <1>12, <1>13, <1>14, <1>15 DEF IInv

LEMMA CrashKeeps ==
    ASSUME IInv, Crash
    PROVE  IInv'
<1>0. TypeOK /\ UNCHANGED <<wallet, logs, ledger, attempt, view>>
  BY DEF IInv, Crash
<1>1. \A c \in Calls : pc'[c] \in Ended \cup {"idle"} /\ (pc'[c] = "idle" => pc[c] = "idle")
  BY DEF Crash, Ended
<1>2. TypeOK'
  <2>1. pc' \in [Calls -> InTransaction \cup Ended \cup {"idle", "cutover", "check", "waiting", "lookup"}]
    BY <1>1 DEF Crash
  <2>2. plan' \in [Calls -> [debit : Nat, credit : Nat]]
    BY DEF Crash, Nothing
  <2>3. held' \in [Calls -> SUBSET (Users \cup {Database})]
    BY DEF Crash
  <2> QED BY <1>0, <2>1, <2>2, <2>3 DEF TypeOK
<1>3. NeverOverdrawn' /\ ViewsNonNegative' /\ LedgerParties' /\ SettledOnce'
  BY <1>0 DEF IInv, NeverOverdrawn, ViewsNonNegative, LedgerParties, SettledOnce, CallerOf, DonorOf
<1>4. LocksExclude'
  BY DEF Crash, LocksExclude
<1>5. \A c \in Calls : Own(c)'
  <2> TAKE c \in Calls
  <2>1. pc'[c] \notin {"debit", "credit", "commit"}
    BY <1>1 DEF Ended
  <2>2. AttemptLeft(c)'
    BY <1>0, <1>1 DEF IInv, Own, AttemptLeft, Ended, InTransaction
  <2> QED BY <2>1, <2>2 DEF Own, PlanLocked, PlanCovered
<1> QED BY <1>2, <1>3, <1>4, <1>5 DEF IInv

LEMMA IInvHolds == Spec => []IInv
<1>1. Init => IInv
  <2> SUFFICES ASSUME Init PROVE IInv
    OBVIOUS
  <2>1. \A u \in Users : wallet[u] \in Row /\ wallet[u].balance >= 0
    BY SettlementAssumption DEF Init, Row
  <2>2. Latest \in Snapshot
    BY <2>1 DEF Init, Latest, Snapshot
  <2>3. TypeOK
    BY <2>1, <2>2, SettlementAssumption DEF Init, TypeOK, Nothing
  <2>4. \A c \in Calls : Own(c)
    BY SettlementAssumption DEF Init, Own, PlanLocked, PlanCovered, AttemptLeft, InTransaction
  <2>5. ViewsNonNegative
    BY <2>1 DEF Init, ViewsNonNegative, Latest
  <2>6. NeverOverdrawn /\ LocksExclude /\ LedgerParties /\ SettledOnce
    BY <2>1 DEF Init, NeverOverdrawn, LocksExclude, LedgerParties, SettledOnce
  <2> QED BY <2>3, <2>4, <2>5, <2>6 DEF IInv
<1>2. IInv /\ [Next]_vars => IInv'
  <2> SUFFICES ASSUME IInv, [Next]_vars PROVE IInv'
    OBVIOUS
  <2>0. TypeOK
    BY DEF IInv
  <2>1. ASSUME NEW c \in Calls, Alone(c), Own(c)' PROVE IInv'
    BY <2>1, AloneKeeps DEF IInv
  <2>2. ASSUME NEW c \in Calls,
               \/ Start(c) \/ CheckExisting(c) \/ PrepareSettlement(c)
               \/ WriteDebit(c) \/ WriteCredit(c)
        PROVE  IInv'
    BY <2>1, <2>2, StatementAlone
  <2>3. ASSUME NEW c \in Calls, Busy(c) PROVE IInv'
    BY <2>1, <2>3, RetryAlone DEF Busy
  <2>4. ASSUME NEW c \in Calls, NEW next \in {"lookup", "expired"}, RollBack(c, next), UNCHANGED attempt
        PROVE  IInv'
    <3>1. next \in Places \ InTransaction /\ next \notin {"idle", "cutover", "check", "waiting"}
      BY DEF Places, InTransaction, Ended
    <3>2. attempt' = [attempt EXCEPT ![c] = attempt[c]] /\ attempt[c] \in 0 .. MaxAttempts
      BY <2>0, <2>4 DEF TypeOK
    <3> QED BY <2>1, <2>4, <3>1, <3>2, RollBackAlone
  <2>5. ASSUME NEW c \in Calls, NEW p \in {"check", "existing", "failed", "noCutover"},
               pc' = [pc EXCEPT ![c] = p], p = "check" => pc[c] \in {"cutover", "waiting"},
               UNCHANGED <<wallet, logs, ledger, attempt, plan, view, held>>
        PROVE  IInv'
    <3>1. p \in Places
      BY DEF Places, Ended
    <3>2. attempt = [attempt EXCEPT ![c] = attempt[c]] /\ attempt[c] \in 0 .. MaxAttempts
      BY <2>0 DEF TypeOK
    <3>3. view = [view EXCEPT ![c] = view[c]]
      BY <2>0 DEF TypeOK
    <3>4. plan = [plan EXCEPT ![c] = plan[c]] /\ plan[c] \in [debit : Nat, credit : Nat]
      BY <2>0 DEF TypeOK
    <3>5. held = [held EXCEPT ![c] = held[c]] /\ held[c] \in SUBSET (Users \cup {Database})
      BY <2>0 DEF TypeOK
    <3>6. \E H \in SUBSET (Users \cup {Database}) :
              held' = [held EXCEPT ![c] = H] /\ \A l \in H \ held[c] : HolderOf(l) = {}
      BY <2>5, <3>5
    <3>7. Alone(c)
      BY <2>5, <3>1, <3>2, <3>3, <3>4, <3>6 DEF Alone
    <3>8. pc'[c] = p
      BY <2>0, <2>5 DEF TypeOK
    <3>9. Own(c)'
      BY <2>5, <3>8 DEF IInv, Own, PlanLocked, PlanCovered, AttemptLeft, InTransaction
    <3> QED BY <2>1, <3>7, <3>9
  <2>6. ASSUME NEW c \in Calls, EnsureStartedAt(c) \/ Wake(c) \/ Lookup(c) PROVE IInv'
    BY <2>5, <2>6 DEF EnsureStartedAt, Wake, Lookup
  <2>7. ASSUME NEW c \in Calls, DeadlockVictim(c) \/ ContextEnds(c) PROVE IInv'
    BY <2>4, <2>7 DEF DeadlockVictim, ContextEnds
  <2>8. CASE UNCHANGED vars
    BY <2>8 DEF vars, IInv, TypeOK, NeverOverdrawn, ViewsNonNegative, LocksExclude, Own, PlanLocked,
        PlanCovered, AttemptLeft, LedgerParties, SettledOnce, CallerOf, DonorOf, Recorded, Lock
  <2> QED BY <2>2, <2>3, <2>6, <2>7, <2>8, CommitKeeps, CrashKeeps DEF Next, Step
<1> QED BY <1>1, <1>2, PTL DEF Spec

-----------------------------------------------------------------------------

\* Every state of every behaviour has the declared types: in particular no call
\* counts more than MaxAttempts attempts (CreateUsageLog's loop).
THEOREM TypeCorrect == Spec => []TypeOK
<1>1. IInv => TypeOK
  BY DEF IInv
<1> QED BY <1>1, IInvHolds, PTL

\* No wallet is ever overdrawn (applySettlement), whichever of the three
\* isolation levels the settlements run under.
THEOREM WalletsNeverOverdrawn == Spec => []NeverOverdrawn
<1>1. IInv => NeverOverdrawn
  BY DEF IInv
<1> QED BY <1>1, IInvHolds, PTL

\* A request debits its caller at most once and credits its donor at most once,
\* whatever the number of calls, retries, crashes and lost commit replies.
THEOREM MoneyMovesOnce == Spec => []SettledOnce
<1>1. IInv => SettledOnce
  BY DEF IInv
<1> QED BY <1>1, IInvHolds, PTL

-----------------------------------------------------------------------------
(* The ledger adds up.                                                     *)

\* What a sum over ledger rows is, without and with one row more.
LEMMA SumOfFacts ==
    ASSUME NEW rows, IsFiniteSet(rows), \A r \in rows : r.amount \in Nat
    PROVE  /\ SumOf(rows) \in Nat
           /\ rows = {} => SumOf(rows) = 0
           /\ \A row : row \notin rows /\ row.amount \in Nat
                          => SumOf(rows \cup {row}) = SumOf(rows) + row.amount
<1> DEFINE h == [r \in rows |-> r.amount]
<1>1. DOMAIN h = rows /\ \A r \in rows : h[r] \in Nat
  OBVIOUS
<1>2. SumOf(rows) = SumFunction(h)
  BY DEF SumOf
<1> HIDE DEF h
<1>3. SumOf(rows) \in Nat /\ (rows = {} => SumOf(rows) = 0)
  BY <1>1, <1>2, SumFunctionFacts
<1>4. ASSUME NEW row, row \notin rows, row.amount \in Nat
      PROVE  SumOf(rows \cup {row}) = SumOf(rows) + row.amount
  <2> DEFINE f == [r \in rows \cup {row} |-> r.amount]
  <2>1. /\ DOMAIN f = rows \cup {row} /\ f[row] = row.amount
        /\ \A r \in DOMAIN f : f[r] \in Int
        /\ \A r \in rows : f[r] = h[r]
    BY <1>4 DEF h
  <2>2. SumOf(rows \cup {row}) = SumFunction(f)
    BY DEF SumOf
  <2> HIDE DEF f
  <2> QED BY <1>1, <1>2, <1>4, <2>1, <2>2, SumFunctionAdd
<1> QED BY <1>3, <1>4

\* The rows of one wallet and kind.
RowsOf(u, kind) == {row \in ledger : row.user = u /\ row.kind = kind}

Balanced == IsFiniteSet(ledger) /\ WalletsMatchLedger

LEMMA CommitBalances ==
    ASSUME IInv, Balanced, NEW c \in Calls, Commit(c)
    PROVE  Balanced'
<1> DEFINE debitRow == [call |-> c, user |-> CallerOf(c), kind |-> "debit", amount |-> plan[c].debit]
           creditRow == [call |-> c, user |-> DonorOf(c), kind |-> "credit", amount |-> plan[c].credit]
<1>0. TypeOK /\ Own(c) /\ pc[c] = "commit" /\ plan[c].debit \in Nat /\ plan[c].credit \in Nat
  BY DEF IInv, Commit, TypeOK
<1>1. /\ plan[c].debit > 0 => CallerOf(c) \in Users /\ ~Recorded(c, CallerOf(c), "debit")
      /\ plan[c].credit > 0 => /\ DonorOf(c) \in Users /\ DonorOf(c) # CallerOf(c)
                               /\ ~Recorded(c, DonorOf(c), "credit")
  BY <1>0 DEF Own, PlanLocked, PlanCovered
<1>2. /\ plan[c].debit > 0 => debitRow \notin ledger
      /\ plan[c].credit > 0 => creditRow \notin ledger
  BY <1>1 DEF Recorded
<1>3. ledger' = ledger \cup {row \in {debitRow, creditRow} : row.amount > 0}
  BY DEF Commit, NewRows
<1>4. /\ debitRow.user = CallerOf(c) /\ debitRow.kind = "debit" /\ debitRow.amount = plan[c].debit
      /\ creditRow.user = DonorOf(c) /\ creditRow.kind = "credit" /\ creditRow.amount = plan[c].credit
  OBVIOUS
<1> HIDE DEF debitRow, creditRow
<1>5. IsFiniteSet(ledger')
  <2>1. IsFiniteSet({debitRow, creditRow})
    <3>1. IsFiniteSet({debitRow})
      BY FS_Singleton
    <3>2. IsFiniteSet({debitRow} \cup {creditRow})
      BY <3>1, FS_AddElement
    <3>3. {debitRow, creditRow} = {debitRow} \cup {creditRow}
      OBVIOUS
    <3> QED BY <3>2, <3>3
  <2>2. IsFiniteSet({row \in {debitRow, creditRow} : row.amount > 0})
    BY <2>1, FS_Subset
  <2> QED BY <1>3, <2>2, FS_Union DEF Balanced
<1>6. ASSUME NEW u \in Users
      PROVE  LET in  == SumOf(RowsOf(u, "credit"))'
                 out == SumOf(RowsOf(u, "debit"))'
             IN  /\ wallet'[u].balance = Initial[u] + in - out
                 /\ wallet'[u].credited = in
                 /\ wallet'[u].debited = out
  <2>1. wallet'[u] = IF plan[c].debit > 0 /\ u = CallerOf(c) THEN Debited(wallet[u], plan[c].debit)
                     ELSE IF plan[c].credit > 0 /\ u = DonorOf(c) THEN Credited(wallet[u], plan[c].credit)
                     ELSE wallet[u]
    BY DEF Commit, NewWallet
  <2>2. PICK in, out : in = RowsOf(u, "credit") /\ out = RowsOf(u, "debit")
    OBVIOUS
  <2>3. /\ IsFiniteSet(in) /\ IsFiniteSet(out)
        /\ \A r \in in \cup out : r.amount \in Nat
    BY <1>0, <2>2, FS_Subset DEF Balanced, RowsOf, TypeOK
  <2>4. /\ SumOf(in) \in Nat /\ SumOf(out) \in Nat
        /\ \A row : row \notin in /\ row.amount \in Nat
                       => SumOf(in \cup {row}) = SumOf(in) + row.amount
        /\ \A row : row \notin out /\ row.amount \in Nat
                       => SumOf(out \cup {row}) = SumOf(out) + row.amount
    BY <2>3, SumOfFacts
  <2>5. /\ wallet[u].balance = Initial[u] + SumOf(in) - SumOf(out)
        /\ wallet[u].credited = SumOf(in)
        /\ wallet[u].debited = SumOf(out)
    BY <2>2 DEF Balanced, WalletsMatchLedger, RowsOf
  <2>6. RowsOf(u, "credit")' = IF plan[c].credit > 0 /\ u = DonorOf(c)
                               THEN in \cup {creditRow} ELSE in
    BY <1>3, <1>4, <2>2 DEF RowsOf
  <2>7. RowsOf(u, "debit")' = IF plan[c].debit > 0 /\ u = CallerOf(c)
                              THEN out \cup {debitRow} ELSE out
    BY <1>3, <1>4, <2>2 DEF RowsOf
  <2>8. /\ plan[c].credit > 0 => SumOf(in \cup {creditRow}) = SumOf(in) + plan[c].credit
        /\ plan[c].debit > 0 => SumOf(out \cup {debitRow}) = SumOf(out) + plan[c].debit
    <3>1. plan[c].credit > 0 => creditRow \notin in
      BY <1>2, <2>2 DEF RowsOf
    <3>2. plan[c].debit > 0 => debitRow \notin out
      BY <1>2, <2>2 DEF RowsOf
    <3> QED BY <1>0, <1>4, <2>4, <3>1, <3>2
  <2>9. wallet[u] \in Row /\ Initial[u] \in Nat
    BY <1>0, SettlementAssumption DEF TypeOK
  <2>10. CASE plan[c].debit > 0 /\ u = CallerOf(c)
    <3>1. RowsOf(u, "credit")' = in /\ RowsOf(u, "debit")' = out \cup {debitRow}
      BY <1>1, <2>6, <2>7, <2>10
    <3>2. SumOf(RowsOf(u, "credit"))' = SumOf(in)
          /\ SumOf(RowsOf(u, "debit"))' = SumOf(out) + plan[c].debit
      BY <2>8, <2>10, <3>1 DEF SumOf
    <3>3. wallet'[u] = [balance |-> wallet[u].balance - plan[c].debit,
                        credited |-> wallet[u].credited,
                        debited |-> wallet[u].debited + plan[c].debit,
                        version |-> wallet[u].version + 1]
      BY <2>1, <2>10 DEF Debited
    <3> QED BY <1>0, <2>4, <2>5, <2>9, <3>2, <3>3
  <2>11. CASE ~(plan[c].debit > 0 /\ u = CallerOf(c)) /\ plan[c].credit > 0 /\ u = DonorOf(c)
    <3>1. RowsOf(u, "credit")' = in \cup {creditRow} /\ RowsOf(u, "debit")' = out
      BY <2>6, <2>7, <2>11
    <3>2. SumOf(RowsOf(u, "credit"))' = SumOf(in) + plan[c].credit
          /\ SumOf(RowsOf(u, "debit"))' = SumOf(out)
      BY <2>8, <2>11, <3>1 DEF SumOf
    <3>3. wallet'[u] = [balance |-> wallet[u].balance + plan[c].credit,
                        credited |-> wallet[u].credited + plan[c].credit,
                        debited |-> wallet[u].debited,
                        version |-> wallet[u].version + 1]
      BY <2>1, <2>11 DEF Credited
    <3> QED BY <1>0, <2>4, <2>5, <2>9, <3>2, <3>3
  <2>12. CASE ~(plan[c].debit > 0 /\ u = CallerOf(c)) /\ ~(plan[c].credit > 0 /\ u = DonorOf(c))
    <3>1. RowsOf(u, "credit")' = in /\ RowsOf(u, "debit")' = out /\ wallet'[u] = wallet[u]
      BY <2>1, <2>6, <2>7, <2>12
    <3> QED BY <2>5, <3>1 DEF SumOf
  <2> QED BY <2>10, <2>11, <2>12
<1>7. WalletsMatchLedger'
  BY <1>6 DEF WalletsMatchLedger, RowsOf
<1> QED BY <1>5, <1>7 DEF Balanced

\* Only a commit writes wallets and ledger.
LEMMA BalancedHolds == Spec => []Balanced
<1>1. Init => Balanced
  <2> SUFFICES ASSUME Init PROVE Balanced
    OBVIOUS
  <2>1. IsFiniteSet({}) /\ SumOf({}) = 0
    <3>1. IsFiniteSet({}) /\ \A r \in {} : r.amount \in Nat
      BY FS_EmptySet
    <3> QED BY <3>1, SumOfFacts
  <2>2. \A u, kind : RowsOf(u, kind) = {}
    BY DEF Init, RowsOf
  <2>3. \A u \in Users : Initial[u] \in Nat
    BY SettlementAssumption
  <2>4. \A u \in Users : wallet[u].balance = Initial[u] /\ wallet[u].credited = 0
                         /\ wallet[u].debited = 0
    BY DEF Init
  <2>5. ASSUME NEW u \in Users
        PROVE  LET in  == SumOf(RowsOf(u, "credit"))
                   out == SumOf(RowsOf(u, "debit"))
               IN  /\ wallet[u].balance = Initial[u] + in - out
                   /\ wallet[u].credited = in
                   /\ wallet[u].debited = out
    <3>1. RowsOf(u, "credit") = {} /\ RowsOf(u, "debit") = {}
      BY <2>2
    <3>2. Initial[u] = Initial[u] + 0 - 0
      BY <2>3
    <3> QED BY <2>1, <2>4, <3>1, <3>2
  <2>6. WalletsMatchLedger
    BY <2>5 DEF WalletsMatchLedger, RowsOf
  <2> QED BY <2>1, <2>6 DEF Init, Balanced
<1>2. IInv /\ Balanced /\ [Next]_vars => Balanced'
  <2> SUFFICES ASSUME IInv, Balanced, [Next]_vars PROVE Balanced'
    OBVIOUS
  <2>1. CASE UNCHANGED <<wallet, ledger>>
    BY <2>1 DEF Balanced, WalletsMatchLedger, SumOf
  <2>2. ASSUME NEW c \in Calls, ~Commit(c), Start(c) \/ Step(c) \/ ContextEnds(c)
        PROVE  UNCHANGED <<wallet, ledger>>
    BY <2>2 DEF Step, Start, EnsureStartedAt, CheckExisting, PrepareSettlement, WriteDebit, WriteCredit,
        Busy, Retry, RollBack, DeadlockVictim, Wake, Lookup, ContextEnds
  <2>3. CASE Crash \/ UNCHANGED vars
    BY <2>1, <2>3 DEF Crash, vars
  <2> QED BY <2>1, <2>2, <2>3, CommitBalances DEF Next
<1> QED BY <1>1, <1>2, IInvHolds, PTL DEF Spec

\* The balance and the lifetime counters of every wallet (applySettlement) are
\* what its ledger rows add up to, whatever commits, retries and crashes
\* interleave, in each of the three engines.
THEOREM LedgerExplainsWallets == Spec => []WalletsMatchLedger
<1>1. Balanced => WalletsMatchLedger
  BY DEF Balanced
<1> QED BY <1>1, BalancedHolds, PTL

-----------------------------------------------------------------------------
(* Under SQLite.                                                           *)

\* A transaction that has the file's lock sees the latest commit, it has the lock
\* once it has written, and it started when no log of its request was there.
\* A call that looks its request up once more has used its attempts or has committed.
WritesAlone(c) ==
    /\ Database \in held[c] => view[c] = Latest
    /\ pc[c] \in {"credit", "commit"} => Database \in held[c]
    /\ pc[c] \in InTransaction => \A l \in view[c].logs : RequestOf[l.call] # RequestOf[c]
    /\ pc[c] \in {"lookup", "failed"} => attempt[c] = MaxAttempts \/ Logged(c)

SqliteInv == OneLogPerRequest /\ \A c \in Calls : WritesAlone(c)

\* While the database stays as it is, only the acting call needs a look.
LEMMA OneCallActs ==
    ASSUME IInv, SqliteInv, NEW c \in Calls, UNCHANGED <<wallet, logs>>,
           \E p : pc' = [pc EXCEPT ![c] = p],
           \E n : attempt' = [attempt EXCEPT ![c] = n],
           \E v : view' = [view EXCEPT ![c] = v],
           \E H : held' = [held EXCEPT ![c] = H],
           WritesAlone(c)'
    PROVE  SqliteInv'
<1>1. TypeOK
  BY DEF IInv
<1>2. ASSUME NEW d \in Calls, d # c
      PROVE  WritesAlone(d)'
  <2>1. pc'[d] = pc[d] /\ attempt'[d] = attempt[d] /\ view'[d] = view[d] /\ held'[d] = held[d]
    BY <1>1, <1>2 DEF TypeOK
  <2>2. Latest' = Latest /\ (Logged(d)' <=> Logged(d))
    BY DEF Latest, Logged
  <2> QED BY <2>1, <2>2 DEF SqliteInv, WritesAlone
<1>3. OneLogPerRequest'
  BY DEF SqliteInv, OneLogPerRequest
<1> QED BY <1>2, <1>3 DEF SqliteInv

\* A rollback gives the lock back, and no transaction is left.
LEMMA RollBackWritesAlone ==
    ASSUME IInv, SqliteInv, NEW c \in Calls, NEW next, RollBack(c, next),
           next \notin InTransaction, \E n : attempt' = [attempt EXCEPT ![c] = n],
           next \in {"lookup", "failed"} => attempt'[c] = MaxAttempts \/ Logged(c)
    PROVE  SqliteInv'
<1>1. pc'[c] = next /\ held'[c] = {} /\ UNCHANGED <<wallet, logs, view>>
  BY DEF RollBack, IInv, TypeOK
<1>2. next \notin {"credit", "commit"}
  BY DEF InTransaction
<1>3. WritesAlone(c)'
  BY <1>1, <1>2 DEF WritesAlone, Logged
<1>4. \E v : view' = [view EXCEPT ![c] = v]
  BY <1>1 DEF IInv, TypeOK
<1> QED BY <1>1, <1>3, <1>4, OneCallActs DEF RollBack

LEMMA RetryWritesAlone ==
    ASSUME IInv, SqliteInv, NEW c \in Calls, Retry(c),
           pc[c] \in InTransaction \cup {"check"}
    PROVE  SqliteInv'
<1>1. attempt[c] \in Nat /\ attempt[c] < MaxAttempts /\ MaxAttempts \in Nat
  BY SettlementAssumption DEF IInv, TypeOK, Own, AttemptLeft
<1>2. attempt'[c] = attempt[c] + 1
  BY DEF Retry, IInv, TypeOK
<1>3. PICK next : /\ next = IF attempt[c] + 1 < MaxAttempts THEN "waiting" ELSE "lookup"
                  /\ RollBack(c, next)
  BY DEF Retry
<1>4. next \notin InTransaction /\ (next \in {"lookup", "failed"} => attempt'[c] = MaxAttempts)
  BY <1>1, <1>2, <1>3 DEF InTransaction
<1>5. \E n : attempt' = [attempt EXCEPT ![c] = n]
  BY DEF Retry
<1> QED BY <1>3, <1>4, <1>5, RollBackWritesAlone

\* The lock is taken on the latest snapshot only.
LEMMA StatementWritesAlone ==
    ASSUME Engine = "sqlite", IInv, SqliteInv, NEW c \in Calls,
           \/ Start(c) \/ EnsureStartedAt(c) \/ CheckExisting(c) \/ PrepareSettlement(c)
           \/ WriteDebit(c) \/ WriteCredit(c) \/ Wake(c) \/ Lookup(c)
    PROVE  SqliteInv'
<1>0. TypeOK /\ WritesAlone(c)
  BY DEF IInv, SqliteInv
<1>1. /\ attempt' = attempt => \E n : attempt' = [attempt EXCEPT ![c] = n]
      /\ view' = view => \E v : view' = [view EXCEPT ![c] = v]
      /\ held' = held => \E H : held' = [held EXCEPT ![c] = H]
  BY <1>0 DEF TypeOK
<1>2. ASSUME CanTake(c, Database)
      PROVE  view[c] = Latest
  BY <1>0, <1>2 DEF CanTake, Stale, WritesAlone
<1>3. ASSUME UNCHANGED <<wallet, logs, attempt, view>>,
             \E p \in InTransaction : pc' = [pc EXCEPT ![c] = p],
             pc[c] \in InTransaction,
             \E H : held' = [held EXCEPT ![c] = H],
             held'[c] = held[c] \/ (held'[c] = held[c] \cup {Database} /\ view[c] = Latest),
             pc'[c] \in {"credit", "commit"} => Database \in held'[c]
      PROVE  SqliteInv'
  <2>1. pc'[c] \in InTransaction
    BY <1>0, <1>3 DEF TypeOK
  <2>2. Latest' = Latest /\ view'[c] = view[c] /\ pc'[c] \notin {"lookup", "failed"}
    BY <1>3, <2>1 DEF Latest, InTransaction
  <2>3. Database \in held'[c] => view[c] = Latest
    BY <1>0, <1>3 DEF WritesAlone
  <2>4. WritesAlone(c)'
    BY <1>0, <1>3, <2>1, <2>2, <2>3 DEF WritesAlone
  <2> QED BY <1>1, <1>3, <2>4, OneCallActs
<1>4. CASE Start(c) \/ EnsureStartedAt(c) \/ Wake(c)
  <2>1. /\ pc'[c] \in {"cutover", "check", "noCutover"}
        /\ UNCHANGED <<wallet, logs, attempt, view, held>>
    BY <1>0, <1>4 DEF Start, EnsureStartedAt, Wake, TypeOK
  <2>2. WritesAlone(c)'
    BY <1>0, <2>1 DEF WritesAlone, Latest, InTransaction
  <2>3. \E p : pc' = [pc EXCEPT ![c] = p]
    BY <1>4 DEF Start, EnsureStartedAt, Wake
  <2> QED BY <1>1, <2>1, <2>2, <2>3, OneCallActs
<1>5. CASE Lookup(c)
  <2>1. pc[c] = "lookup" /\ UNCHANGED <<wallet, logs, attempt, view, held>>
    BY <1>5 DEF Lookup
  <2>2. PICK p \in {"existing", "failed"} : pc' = [pc EXCEPT ![c] = p]
    BY <1>5 DEF Lookup
  <2>3. pc'[c] = p /\ p \notin InTransaction /\ p \notin {"credit", "commit"}
    BY <1>0, <2>2 DEF TypeOK, InTransaction
  <2>4. WritesAlone(c)'
    BY <1>0, <2>1, <2>2, <2>3 DEF WritesAlone, Latest, Logged
  <2> QED BY <1>1, <2>1, <2>2, <2>4, OneCallActs
<1>6. CASE CheckExisting(c)
  <2>1. /\ view' = [view EXCEPT ![c] = Latest] /\ UNCHANGED <<wallet, logs, attempt, held>>
        /\ pc' = [pc EXCEPT ![c] = IF Logged(c) THEN "existing" ELSE "prepare"]
    BY <1>6 DEF CheckExisting
  <2>2. view'[c] = Latest /\ Latest' = Latest
    BY <1>0, <2>1 DEF TypeOK, Latest
  <2>3. pc'[c] = IF Logged(c) THEN "existing" ELSE "prepare"
    BY <1>0, <2>1 DEF TypeOK
  <2>4. ~Logged(c) => \A l \in Latest.logs : RequestOf[l.call] # RequestOf[c]
    BY DEF Logged, Latest
  <2>5. WritesAlone(c)'
    BY <2>2, <2>3, <2>4 DEF WritesAlone, InTransaction
  <2> QED BY <1>1, <2>1, <2>5, OneCallActs
<1>7. CASE PrepareSettlement(c)
  <2>1. /\ UNCHANGED <<wallet, logs, attempt, view>>
        /\ pc[c] = "prepare" /\ pc' = [pc EXCEPT ![c] = "debit"]
    BY <1>7 DEF PrepareSettlement
  <2>2. /\ \E H : held' = [held EXCEPT ![c] = H]
        /\ held'[c] = held[c] \/ (held'[c] = held[c] \cup {Database} /\ view[c] = Latest)
    <3>1. CASE Debits(c)
      <4>1. CanTake(c, Database) /\ Take(c, Database)
        BY <1>7, <3>1 DEF PrepareSettlement, Lock
      <4> QED BY <1>0, <1>2, <4>1 DEF Take, TypeOK
    <3>2. CASE ~Debits(c)
      BY <1>1, <1>7, <3>2 DEF PrepareSettlement
    <3> QED BY <3>1, <3>2
  <2>3. pc'[c] = "debit"
    BY <1>0, <2>1 DEF TypeOK
  <2> QED BY <1>3, <2>1, <2>2, <2>3 DEF InTransaction
<1>8. CASE WriteDebit(c)
  <2>1. CASE Retry(c)
    BY <1>8, <2>1, RetryWritesAlone DEF WriteDebit, InTransaction
  <2>2. CASE ~Retry(c)
    <3>1. /\ UNCHANGED <<wallet, logs, attempt, view>>
          /\ pc[c] = "debit" /\ pc' = [pc EXCEPT ![c] = "credit"]
          /\ CanTake(c, Database) /\ Take(c, Database)
      BY <1>8, <2>2 DEF WriteDebit
    <3>2. /\ \E H : held' = [held EXCEPT ![c] = H]
          /\ held'[c] = held[c] \cup {Database} /\ view[c] = Latest
      BY <1>0, <1>2, <3>1 DEF Take, TypeOK
    <3> QED BY <1>3, <3>1, <3>2 DEF InTransaction
  <2> QED BY <2>1, <2>2
<1>9. CASE WriteCredit(c)
  <2>1. CASE Retry(c)
    BY <1>9, <2>1, RetryWritesAlone DEF WriteCredit, InTransaction
  <2>2. CASE ~Retry(c)
    <3>1. /\ UNCHANGED <<wallet, logs, attempt, view>>
          /\ pc[c] = "credit" /\ pc' = [pc EXCEPT ![c] = "commit"]
          /\ held' = held \/ (CanTake(c, Database) /\ Take(c, Database))
      BY <1>9, <2>2 DEF WriteCredit, Lock
    <3>2. Database \in held[c]
      BY <1>0, <3>1 DEF WritesAlone
    <3>3. /\ \E H : held' = [held EXCEPT ![c] = H]
          /\ held'[c] = held[c] \/ (held'[c] = held[c] \cup {Database} /\ view[c] = Latest)
      BY <1>0, <1>1, <1>2, <3>1 DEF Take, TypeOK
    <3> QED BY <1>3, <3>1, <3>2, <3>3 DEF InTransaction
  <2> QED BY <2>1, <2>2
<1> QED BY <1>4, <1>5, <1>6, <1>7, <1>8, <1>9

\* What commits had seen that no log of its request is there; the snapshots of
\* others become stale, but none of them has the lock.
LEMMA CommitWritesAlone ==
    ASSUME IInv, SqliteInv, NEW c \in Calls, Commit(c)
    PROVE  SqliteInv'
<1>0. TypeOK /\ pc[c] = "commit" /\ WritesAlone(c)
  BY DEF IInv, SqliteInv, Commit
<1>1. Database \in held[c] /\ view[c] = Latest
  BY <1>0 DEF WritesAlone
<1>2. \A l \in logs : RequestOf[l.call] # RequestOf[c]
  BY <1>0, <1>1 DEF WritesAlone, Latest, InTransaction
<1>3. PICK new : /\ new = [call |-> c, debit |-> plan[c].debit, credit |-> plan[c].credit]
                 /\ logs' = logs \cup {new}
  BY DEF Commit
<1>4. new.call = c
  BY <1>3
<1>5. OneLogPerRequest'
  BY <1>2, <1>3, <1>4 DEF SqliteInv, OneLogPerRequest
<1>6. ASSUME NEW d \in Calls PROVE WritesAlone(d)'
  <2>1. CASE d = c
    <3>1. pc'[c] \in {"settled", "lookup"} /\ held'[c] = {}
      BY <1>0 DEF Commit, TypeOK
    <3>2. Logged(c)'
      BY <1>3, <1>4 DEF Logged
    <3> QED BY <2>1, <3>1, <3>2 DEF WritesAlone, InTransaction
  <2>2. CASE d # c
    <3>1. pc'[d] = pc[d] /\ attempt'[d] = attempt[d] /\ view'[d] = view[d] /\ held'[d] = held[d]
      BY <1>0, <2>2 DEF Commit, TypeOK
    <3>2. Database \notin held[d]
      BY <1>1, <2>2 DEF IInv, LocksExclude
    <3>3. Logged(d) => Logged(d)'
      BY <1>3 DEF Logged
    <3> QED BY <3>1, <3>2, <3>3 DEF SqliteInv, WritesAlone
  <2> QED BY <2>1, <2>2
<1> QED BY <1>5, <1>6 DEF SqliteInv

LEMMA SqliteInvHolds ==
    ASSUME Engine = "sqlite"
    PROVE  Spec => []SqliteInv
<1>1. Init => SqliteInv
  BY SettlementAssumption DEF Init, SqliteInv, OneLogPerRequest, WritesAlone, InTransaction
<1>2. IInv /\ SqliteInv /\ [Next]_vars => SqliteInv'
  <2> SUFFICES ASSUME IInv, SqliteInv, [Next]_vars PROVE SqliteInv'
    OBVIOUS
  <2>0. TypeOK
    BY DEF IInv
  <2>1. ASSUME NEW c \in Calls, Busy(c) PROVE SqliteInv'
    BY <2>1, RetryWritesAlone DEF Busy
  <2>2. ASSUME NEW c \in Calls, ContextEnds(c) PROVE SqliteInv'
    <3>1. RollBack(c, "expired") /\ attempt' = attempt
      BY <2>2 DEF ContextEnds
    <3>2. \E n : attempt' = [attempt EXCEPT ![c] = n]
      BY <2>0, <3>1 DEF TypeOK
    <3> QED BY <3>1, <3>2, RollBackWritesAlone DEF InTransaction
  <2>3. ASSUME NEW c \in Calls PROVE ~DeadlockVictim(c)
    BY DEF DeadlockVictim
  <2>4. CASE Crash
    <3>1. UNCHANGED <<wallet, logs, attempt, view>>
      BY <2>4 DEF Crash
    <3>2. OneLogPerRequest'
      BY <3>1 DEF SqliteInv, OneLogPerRequest
    <3>3. ASSUME NEW c \in Calls PROVE WritesAlone(c)'
      <4>1. held'[c] = {} /\ pc'[c] = IF pc[c] \in Ended \cup {"idle"} THEN pc[c] ELSE "lost"
        BY <2>4 DEF Crash
      <4>2. pc'[c] \notin InTransaction /\ pc'[c] \notin {"credit", "commit", "lookup"}
        BY <4>1 DEF Ended, InTransaction
      <4>3. pc'[c] = "failed" => pc[c] = "failed"
        BY <4>1 DEF Ended
      <4> QED BY <3>1, <4>1, <4>2, <4>3 DEF SqliteInv, WritesAlone, Logged
    <3> QED BY <3>2, <3>3 DEF SqliteInv
  <2>5. CASE UNCHANGED vars
    BY <2>5 DEF vars, SqliteInv, OneLogPerRequest, WritesAlone, Latest, Logged
  <2> QED BY <2>1, <2>2, <2>3, <2>4, <2>5, StatementWritesAlone, CommitWritesAlone DEF Next, Step
<1> QED BY <1>1, <1>2, IInvHolds, PTL DEF Spec

\* With one writer at a time and the first check repeated by every retry, a request
\* has a single usage log (CreateUsageLog).  The schema does not promise that: the
\* other engines let two calls for a request that moves no money both write one.
THEOREM OneLogUnderSqlite ==
    ASSUME Engine = "sqlite"
    PROVE  Spec => []OneLogPerRequest
<1>1. SqliteInv => OneLogPerRequest
  BY DEF SqliteInv
<1> QED BY <1>1, SqliteInvHolds, PTL

\* Once a call under SQLite has come to its transaction, it fails only after its
\* last attempt or when its request is logged: BUSY and LOCKED are retried there
\* (isRetryableTokenWalletSettlementError).  The other engines fail a deadlock's
\* victim at once, and EnsureStartedAt, before the transaction, is not retried.
THEOREM ContentionIsRetriedUnderSqlite ==
    ASSUME Engine = "sqlite"
    PROVE  Spec => []ContentionIsRetried
<1>1. SqliteInv => ContentionIsRetried
  BY DEF SqliteInv, WritesAlone, ContentionIsRetried
<1> QED BY <1>1, SqliteInvHolds, PTL

-----------------------------------------------------------------------------
(* A settlement is one step.                                               *)

\* A row that has the version a snapshot shows is the row the snapshot shows.
VersionsTell ==
    \A c \in Calls : \A u \in Users :
        /\ view[c].wallet[u].version <= wallet[u].version
        /\ view[c].wallet[u].version = wallet[u].version => view[c].wallet[u] = wallet[u]

\* All that row has, up to n.
UpTo(row, n) == IF row.balance < n THEN row.balance ELSE n

\* The plan of a transaction stays what a settlement of the present wallets would
\* do, since it has the lock on the caller's row: under MySQL from the moment the
\* debit found the version unchanged, and unless it found the wallet empty.
Exact(c) ==
    /\ pc[c] \notin {"debit", "credit", "commit"} => held[c] = {}
    /\ pc[c] \in {"debit", "credit", "commit"} =>
          /\ plan[c].credit = CreditOf(c)
          /\ IF Debits(c) THEN Lock(CallerOf(c)) \in held[c] ELSE plan[c].debit = 0
          /\ Debits(c) /\ Engine # "mysql"
                => plan[c].debit = UpTo(wallet[CallerOf(c)], Used(c))
          /\ Debits(c) /\ Engine = "mysql" /\ pc[c] = "debit"
                => plan[c].debit = UpTo(view[c].wallet[CallerOf(c)], Used(c))
          /\ Debits(c) /\ pc[c] # "debit" /\ plan[c].debit > 0
                => plan[c].debit = UpTo(wallet[CallerOf(c)], Used(c))

AtomicInv == VersionsTell /\ \A c \in Calls : Exact(c)

\* While the database stays as it is, only the acting call needs a look.
LEMMA AloneStaysExact ==
    ASSUME IInv, AtomicInv, NEW c \in Calls, UNCHANGED <<wallet, logs>>,
           \E p : pc' = [pc EXCEPT ![c] = p],
           \E q : plan' = [plan EXCEPT ![c] = q],
           \E v \in {view[c], Latest} : view' = [view EXCEPT ![c] = v],
           \E H : held' = [held EXCEPT ![c] = H],
           Exact(c)'
    PROVE  AtomicInv'
<1>0. TypeOK
  BY DEF IInv
<1>1. VersionsTell'
  <2> SUFFICES ASSUME NEW d \in Calls, NEW u \in Users
               PROVE  /\ view'[d].wallet[u].version <= wallet[u].version
                      /\ view'[d].wallet[u].version = wallet[u].version
                            => view'[d].wallet[u] = wallet[u]
    BY DEF VersionsTell
  <2>1. view'[d] \in {view[d], Latest}
    BY <1>0 DEF TypeOK
  <2>2. CASE view'[d] = view[d]
    BY <2>2 DEF AtomicInv, VersionsTell
  <2>3. CASE view'[d] = Latest
    <3>1. Latest.wallet[u] = wallet[u] /\ wallet[u].version \in Nat
      BY <1>0 DEF Latest, TypeOK, Row
    <3> QED BY <2>3, <3>1
  <2> QED BY <2>1, <2>2, <2>3
<1>2. ASSUME NEW d \in Calls, d # c
      PROVE  Exact(d)'
  <2>1. pc'[d] = pc[d] /\ plan'[d] = plan[d] /\ view'[d] = view[d] /\ held'[d] = held[d]
    BY <1>0, <1>2 DEF TypeOK
  <2>2. Exact(d)
    BY DEF AtomicInv
  <2> QED BY <2>1, <2>2
      DEF Exact, UpTo, CreditOf, Credits, Debits, Counts, CallerOf, DonorOf, Used, Lock
<1> QED BY <1>1, <1>2 DEF AtomicInv

\* A transaction that is rolled back has no plan to be exact about.
LEMMA RollBackStaysExact ==
    ASSUME IInv, AtomicInv, NEW c \in Calls, NEW next, RollBack(c, next),
           next \notin InTransaction
    PROVE  AtomicInv'
<1>1. pc'[c] = next /\ held'[c] = {}
  BY DEF RollBack, IInv, TypeOK
<1>2. Exact(c)'
  BY <1>1 DEF Exact, InTransaction
<1>3. \E v \in {view[c], Latest} : view' = [view EXCEPT ![c] = v]
  BY DEF RollBack, IInv, TypeOK
<1> QED BY <1>2, <1>3, AloneStaysExact DEF RollBack

LEMMA RetryStaysExact ==
    ASSUME IInv, AtomicInv, NEW c \in Calls, Retry(c)
    PROVE  AtomicInv'
<1>1. PICK next \in {"waiting", "lookup"} : RollBack(c, next)
  BY DEF Retry
<1>2. next \notin InTransaction
  BY DEF InTransaction
<1> QED BY <1>1, <1>2, RollBackStaysExact

\* The plan is made from the present wallets under SQLite, which refuses the lock
\* to a stale snapshot, and under read committed; from the snapshot under MySQL.
LEMMA StatementStaysExact ==
    ASSUME IInv, AtomicInv, NEW c \in Calls,
           \/ Start(c) \/ EnsureStartedAt(c) \/ CheckExisting(c) \/ PrepareSettlement(c)
           \/ WriteDebit(c) \/ WriteCredit(c) \/ Wake(c) \/ Lookup(c)
    PROVE  AtomicInv'
<1>0. TypeOK /\ Exact(c)
  BY DEF IInv, AtomicInv
<1>1. /\ plan' = plan => \E q : plan' = [plan EXCEPT ![c] = q]
      /\ view' = view => \E v \in {view[c], Latest} : view' = [view EXCEPT ![c] = v]
      /\ held' = held => \E H : held' = [held EXCEPT ![c] = H]
  BY <1>0 DEF TypeOK
<1>2. CASE Start(c) \/ EnsureStartedAt(c) \/ CheckExisting(c) \/ Wake(c) \/ Lookup(c)
  <2>1. /\ UNCHANGED <<wallet, logs, plan, held>>
        /\ pc[c] \notin {"debit", "credit", "commit"}
        /\ \E v \in {view[c], Latest} : view' = [view EXCEPT ![c] = v]
    BY <1>1, <1>2 DEF Start, EnsureStartedAt, CheckExisting, Wake, Lookup
  <2>2. PICK p \in {"cutover", "check", "noCutover", "existing", "prepare", "failed"} :
            pc' = [pc EXCEPT ![c] = p]
    BY <1>2 DEF Start, EnsureStartedAt, CheckExisting, Wake, Lookup
  <2>3. pc'[c] \notin {"debit", "credit", "commit"}
    BY <1>0, <2>2 DEF TypeOK
  <2>4. Exact(c)'
    BY <1>0, <2>1, <2>3 DEF Exact
  <2> QED BY <1>1, <2>1, <2>2, <2>4, AloneStaysExact
<1>3. CASE PrepareSettlement(c)
  <2>1. /\ UNCHANGED <<wallet, logs, view>> /\ pc[c] = "prepare" /\ held[c] = {}
        /\ pc' = [pc EXCEPT ![c] = "debit"]
        /\ plan' = [plan EXCEPT ![c] = [debit |-> DebitOf(c), credit |-> CreditOf(c)]]
    BY <1>0, <1>3 DEF PrepareSettlement, Exact
  <2>2. pc'[c] = "debit" /\ plan'[c].debit = DebitOf(c) /\ plan'[c].credit = CreditOf(c)
    BY <1>0, <2>1 DEF TypeOK
  <2>3. /\ \E H : held' = [held EXCEPT ![c] = H]
        /\ Debits(c) => Lock(CallerOf(c)) \in held'[c] /\ (Engine = "sqlite" => view[c] = Latest)
    <3>1. CASE Debits(c)
      <4>1. CanTake(c, Lock(CallerOf(c))) /\ Take(c, Lock(CallerOf(c)))
        BY <1>3, <3>1 DEF PrepareSettlement
      <4>2. Lock(CallerOf(c)) \in held'[c] /\ \E H : held' = [held EXCEPT ![c] = H]
        BY <1>0, <4>1 DEF Take, TypeOK
      <4> QED BY <2>1, <4>1, <4>2 DEF CanTake, Stale
    <3>2. CASE ~Debits(c)
      BY <1>1, <1>3, <3>2 DEF PrepareSettlement
    <3> QED BY <3>1, <3>2
  <2>4. /\ ~Debits(c) => DebitOf(c) = 0
        /\ Debits(c) => DebitOf(c) = UpTo(Seen(c).wallet[CallerOf(c)], Used(c))
    BY DEF DebitOf, UpTo
  <2>5. Debits(c) /\ Engine # "mysql" => Seen(c).wallet[CallerOf(c)] = wallet[CallerOf(c)]
    BY <2>3, SettlementAssumption DEF Seen, Latest
  <2>6. Engine = "mysql" => Seen(c) = view[c]
    BY DEF Seen
  <2>7. Exact(c)'
    BY <2>1, <2>2, <2>3, <2>4, <2>5, <2>6
    DEF Exact, UpTo, CreditOf, Credits, Debits, Counts, CallerOf, DonorOf, Used, Lock
  <2> QED BY <1>1, <2>1, <2>3, <2>7, AloneStaysExact
<1>4. CASE WriteDebit(c)
  <2>1. CASE Retry(c)
    BY <2>1, RetryStaysExact
  <2>2. CASE ~Retry(c)
    <3>1. /\ UNCHANGED <<wallet, logs, plan, view>> /\ pc[c] = "debit"
          /\ pc' = [pc EXCEPT ![c] = "credit"]
          /\ plan[c].debit = 0 \/ ~DebitConflict(c)
          /\ held' = held \/ Take(c, Database)
      BY <1>4, <2>2 DEF WriteDebit
    <3>2. pc'[c] = "credit"
      BY <1>0, <3>1 DEF TypeOK
    <3>3. (\E H : held' = [held EXCEPT ![c] = H]) /\ held[c] \subseteq held'[c]
      BY <1>0, <1>1, <3>1 DEF Take, TypeOK
    <3>4. ASSUME Debits(c), Engine = "mysql", plan[c].debit > 0
          PROVE  plan[c].debit = UpTo(wallet[CallerOf(c)], Used(c))
      <4>1. CallerOf(c) \in Users
        BY <3>4, Amounts DEF IInv
      <4>2. wallet[CallerOf(c)].version = view[c].wallet[CallerOf(c)].version
        BY <3>1, <3>4 DEF DebitConflict, Seen
      <4>3. view[c].wallet[CallerOf(c)] = wallet[CallerOf(c)]
        BY <4>1, <4>2 DEF AtomicInv, VersionsTell
      <4> QED BY <1>0, <3>1, <3>4, <4>3 DEF Exact
    <3>5. Exact(c)'
      BY <1>0, <3>1, <3>2, <3>3, <3>4
      DEF Exact, UpTo, CreditOf, Credits, Debits, Counts, CallerOf, DonorOf, Used, Lock
    <3> QED BY <1>1, <3>1, <3>3, <3>5, AloneStaysExact
  <2> QED BY <2>1, <2>2
<1>5. CASE WriteCredit(c)
  <2>1. CASE Retry(c)
    BY <2>1, RetryStaysExact
  <2>2. CASE ~Retry(c)
    <3>1. /\ UNCHANGED <<wallet, logs, plan, view>> /\ pc[c] = "credit"
          /\ pc' = [pc EXCEPT ![c] = "commit"]
          /\ held' = held \/ Take(c, Lock(DonorOf(c)))
      BY <1>5, <2>2 DEF WriteCredit
    <3>2. pc'[c] = "commit"
      BY <1>0, <3>1 DEF TypeOK
    <3>3. (\E H : held' = [held EXCEPT ![c] = H]) /\ held[c] \subseteq held'[c]
      BY <1>0, <1>1, <3>1 DEF Take, TypeOK
    <3>4. Exact(c)'
      BY <1>0, <3>1, <3>2, <3>3
      DEF Exact, UpTo, CreditOf, Credits, Debits, Counts, CallerOf, DonorOf, Used, Lock
    <3> QED BY <1>1, <3>1, <3>3, <3>4, AloneStaysExact
  <2> QED BY <2>1, <2>2
<1> QED BY <1>2, <1>3, <1>4, <1>5

\* What a commit writes to the row of a user.
LEMMA CommitWrites ==
    ASSUME IInv, NEW c \in Calls, Commit(c)
    PROVE  /\ \A u \in Users :
                wallet'[u] = IF plan[c].debit > 0 /\ u = CallerOf(c)
                             THEN Debited(wallet[u], plan[c].debit)
                             ELSE IF plan[c].credit > 0 /\ u = DonorOf(c)
                             THEN Credited(wallet[u], plan[c].credit)
                             ELSE wallet[u]
           /\ plan[c].debit > 0 => CallerOf(c) \in Users /\ Lock(CallerOf(c)) \in held[c]
           /\ plan[c].credit > 0 => DonorOf(c) \in Users /\ Lock(DonorOf(c)) \in held[c]
<1>1. Own(c) /\ pc[c] = "commit"
  BY DEF IInv, Commit
<1> QED BY <1>1 DEF Commit, NewWallet, Own, PlanLocked

\* A commit gives each row it writes a new version, and writes no row that
\* another transaction has locked.
LEMMA CommitStaysExact ==
    ASSUME IInv, AtomicInv, NEW c \in Calls, Commit(c)
    PROVE  AtomicInv'
<1>0. TypeOK /\ view' = view
  BY DEF IInv, Commit
<1>1. ASSUME NEW u \in Users
      PROVE  wallet'[u] = wallet[u] \/ wallet'[u].version = wallet[u].version + 1
  <2>1. \A n : /\ Debited(wallet[u], n).version = wallet[u].version + 1
               /\ Credited(wallet[u], n).version = wallet[u].version + 1
    BY DEF Debited, Credited
  <2>2. \/ wallet'[u] = wallet[u]
        \/ wallet'[u] = Debited(wallet[u], plan[c].debit)
        \/ wallet'[u] = Credited(wallet[u], plan[c].credit)
    BY CommitWrites, Zenon
  <2> QED BY <2>1, <2>2, Zenon
<1>2. VersionsTell'
  <2> SUFFICES ASSUME NEW d \in Calls, NEW u \in Users
               PROVE  /\ view[d].wallet[u].version <= wallet'[u].version
                      /\ view[d].wallet[u].version = wallet'[u].version
                            => view[d].wallet[u] = wallet'[u]
    BY <1>0 DEF VersionsTell
  <2>1. wallet[u].version \in Nat /\ view[d].wallet[u].version \in Nat
    BY <1>0 DEF TypeOK, Snapshot, Row
  <2>2. /\ view[d].wallet[u].version <= wallet[u].version
        /\ view[d].wallet[u].version = wallet[u].version => view[d].wallet[u] = wallet[u]
    BY DEF AtomicInv, VersionsTell
  <2>3. CASE wallet'[u] = wallet[u]
    BY <2>2, <2>3
  <2>4. CASE wallet'[u].version = wallet[u].version + 1
    BY <2>1, <2>2, <2>4
  <2> QED BY <1>1, <2>3, <2>4
<1>3. ASSUME NEW d \in Calls
      PROVE  Exact(d)'
  <2>1. CASE d = c
    <3>1. pc'[c] \in {"settled", "lookup"} /\ held'[c] = {}
      BY <1>0 DEF Commit, TypeOK
    <3> QED BY <2>1, <3>1 DEF Exact
  <2>2. CASE d # c
    <3>1. pc'[d] = pc[d] /\ plan'[d] = plan[d] /\ held'[d] = held[d]
      BY <1>0, <2>2 DEF Commit, TypeOK
    <3>2. Debits(d) /\ Lock(CallerOf(d)) \in held[d] => wallet'[CallerOf(d)] = wallet[CallerOf(d)]
      <4> SUFFICES ASSUME Debits(d), Lock(CallerOf(d)) \in held[d]
                   PROVE  wallet'[CallerOf(d)] = wallet[CallerOf(d)]
        OBVIOUS
      <4>1. CallerOf(d) \in Users
        BY Amounts DEF IInv
      <4>2. Lock(CallerOf(d)) \notin held[c]
        BY <2>2 DEF IInv, LocksExclude
      <4> QED BY <4>1, <4>2, CommitWrites
    <3>3. Exact(d)
      BY DEF AtomicInv
    <3> QED BY <1>0, <3>1, <3>2, <3>3
        DEF Exact, UpTo, CreditOf, Credits, Debits, Counts, CallerOf, DonorOf, Used, Lock
  <2> QED BY <2>1, <2>2
<1> QED BY <1>2, <1>3 DEF AtomicInv

LEMMA AtomicInvHolds == Spec => []AtomicInv
<1>1. Init => AtomicInv
  <2> SUFFICES ASSUME Init PROVE AtomicInv
    OBVIOUS
  <2>1. \A c \in Calls : \A u \in Users :
            view[c].wallet[u] = wallet[u] /\ wallet[u].version = 0
    BY DEF Init, Latest
  <2>2. VersionsTell
    BY <2>1 DEF VersionsTell
  <2> QED BY <2>2 DEF Init, AtomicInv, Exact
<1>2. IInv /\ AtomicInv /\ [Next]_vars => AtomicInv'
  <2> SUFFICES ASSUME IInv, AtomicInv, [Next]_vars PROVE AtomicInv'
    OBVIOUS
  <2>1. ASSUME NEW c \in Calls, Busy(c) PROVE AtomicInv'
    BY <2>1, RetryStaysExact DEF Busy
  <2>2. ASSUME NEW c \in Calls, DeadlockVictim(c) \/ ContextEnds(c) PROVE AtomicInv'
    <3>1. PICK next \in {"lookup", "expired"} : RollBack(c, next)
      BY <2>2 DEF DeadlockVictim, ContextEnds
    <3>2. next \notin InTransaction
      BY DEF InTransaction
    <3> QED BY <3>1, <3>2, RollBackStaysExact
  <2>3. CASE Crash
    <3>1. \A c \in Calls : pc'[c] \notin {"debit", "credit", "commit"} /\ held'[c] = {}
      BY <2>3 DEF Crash, Ended
    <3>2. \A c \in Calls : Exact(c)'
      BY <3>1 DEF Exact
    <3>3. VersionsTell'
      BY <2>3 DEF Crash, AtomicInv, VersionsTell
    <3> QED BY <3>2, <3>3 DEF AtomicInv
  <2>4. CASE UNCHANGED vars
    BY <2>4 DEF vars, AtomicInv, VersionsTell, Exact, UpTo, CreditOf, Credits, Debits, Counts,
        CallerOf, DonorOf, Used, Lock
  <2> QED BY <2>1, <2>2, <2>3, <2>4, StatementStaysExact, CommitStaysExact DEF Next, Step
<1> QED BY <1>1, <1>2, IInvHolds, PTL DEF Spec

\* The parameters of the abstract settlement are what the concrete one moves.
LEMMA PriceAndReward ==
    ASSUME IInv, NEW c \in Calls
    PROVE  /\ RequestOf[c] \in Requests
           /\ Price[RequestOf[c]] = IF Debits(c) THEN Used(c) ELSE 0
           /\ Reward[RequestOf[c]] = CreditOf(c)
           /\ Used(c) \in Nat
<1>1. RequestOf[c] \in Requests /\ Used(c) \in Nat
  BY SettlementAssumption DEF Used
<1>2. Price[RequestOf[c]] = IF RequestOf[c] \in Exempt \/ CallerOf(c) = NoUser THEN 0 ELSE Used(c)
  BY <1>1 DEF Price, CallerOf, Used
<1>3. Reward[RequestOf[c]] =
          IF RequestOf[c] \in Exempt \/ DonorOf(c) \in Owners \cup {NoUser, CallerOf(c)} THEN 0
          ELSE Used(c) \div 2
  BY <1>1 DEF Reward, CallerOf, DonorOf, Used
<1>4. Used(c) = 0 => (Used(c) \div 2) = 0
  OBVIOUS
<1>5. Used(c) > 0 \/ Used(c) = 0
  BY <1>1
<1> QED BY <1>1, <1>2, <1>3, <1>4, <1>5 DEF Debits, Credits, Counts, CreditOf

\* A commit is the abstract settlement of its request, at the balances of that moment.
LEMMA CommitIsSettlement ==
    ASSUME IInv, AtomicInv, NEW c \in Calls, Commit(c)
    PROVE  Atomic!Settle(RequestOf[c])
<1>0. TypeOK /\ Own(c) /\ Exact(c) /\ pc[c] = "commit"
  BY DEF IInv, AtomicInv, Commit
<1>1. PICK r \in Requests : r = RequestOf[c]
  BY PriceAndReward
<1>2. PICK n, k : n = plan[c].debit /\ k = plan[c].credit
  OBVIOUS
<1>3. n \in Nat /\ k \in Nat
  BY <1>0, <1>2 DEF TypeOK
<1>4. CallerOf(c) = Caller[r] /\ DonorOf(c) = ChannelOwner[r]
  BY <1>1 DEF CallerOf, DonorOf
<1>5. Reward[r] = k /\ Price[r] = IF Debits(c) THEN Used(c) ELSE 0
  BY <1>0, <1>1, <1>2, PriceAndReward DEF Exact
<1>6. /\ n > 0 => Caller[r] \in Users /\ ~Recorded(c, Caller[r], "debit")
      /\ k > 0 => ChannelOwner[r] \in Users /\ ~Recorded(c, ChannelOwner[r], "credit")
  BY <1>0, <1>2, <1>4 DEF Own, PlanLocked, PlanCovered
<1>7. \A m \in Moves : \E row \in ledger :
          m.request = RequestOf[row.call] /\ m.user = row.user /\ m.kind = row.kind
  BY DEF Moves
<1>8. \A u, kind : Atomic!Moved(r, u, kind) => Recorded(c, u, kind)
  BY <1>1, <1>7 DEF Atomic!Moved, Recorded
<1>9. Balances' = [u \in Users |-> IF n > 0 /\ u = Caller[r] THEN Balances[u] - n
                                   ELSE IF Reward[r] > 0 /\ u = ChannelOwner[r]
                                        THEN Balances[u] + Reward[r]
                                   ELSE Balances[u]]
  <2>1. ASSUME NEW u \in Users
        PROVE  wallet'[u].balance = IF n > 0 /\ u = Caller[r] THEN wallet[u].balance - n
                                    ELSE IF k > 0 /\ u = ChannelOwner[r]
                                         THEN wallet[u].balance + k
                                    ELSE wallet[u].balance
    <3>1. wallet'[u] = IF n > 0 /\ u = Caller[r] THEN Debited(wallet[u], n)
                       ELSE IF k > 0 /\ u = ChannelOwner[r] THEN Credited(wallet[u], k)
                       ELSE wallet[u]
      BY <1>2, <1>4, CommitWrites
    <3>2. /\ Debited(wallet[u], n).balance = wallet[u].balance - n
          /\ Credited(wallet[u], k).balance = wallet[u].balance + k
      BY DEF Debited, Credited
    <3> QED BY <3>1, <3>2
  <2> QED BY <2>1, <1>5 DEF Balances
<1>10. Moves' = Moves \cup
          {m \in {[request |-> r, user |-> Caller[r], kind |-> "debit", amount |-> n],
                  [request |-> r, user |-> ChannelOwner[r], kind |-> "credit",
                   amount |-> Reward[r]]} : m.amount > 0}
  <2> DEFINE Move(row) == [request |-> RequestOf[row.call], user |-> row.user,
                           kind |-> row.kind, amount |-> row.amount]
             debitRow == [call |-> c, user |-> Caller[r], kind |-> "debit", amount |-> n]
             creditRow == [call |-> c, user |-> ChannelOwner[r], kind |-> "credit", amount |-> k]
             debitMove == [request |-> r, user |-> Caller[r], kind |-> "debit", amount |-> n]
             creditMove == [request |-> r, user |-> ChannelOwner[r], kind |-> "credit",
                            amount |-> k]
  <2>1. ledger' = ledger \cup {row \in {debitRow, creditRow} : row.amount > 0}
    BY <1>2, <1>4 DEF Commit, NewRows
  <2>2. debitRow.amount = n /\ creditRow.amount = k
    OBVIOUS
  <2>3. Move(debitRow) = debitMove /\ Move(creditRow) = creditMove
    BY <1>1
  <2>4. debitMove.amount = n /\ creditMove.amount = k
    OBVIOUS
  <2>5. Moves = {Move(row) : row \in ledger} /\ Moves' = {Move(row) : row \in ledger'}
    BY DEF Moves
  <2> HIDE DEF Move, debitRow, creditRow, debitMove, creditMove
  <2>6. \A m : m \in Moves' <=> \/ m \in Moves
                                \/ n > 0 /\ m = debitMove
                                \/ k > 0 /\ m = creditMove
    BY <2>1, <2>2, <2>3, <2>5
  <2>7. Moves' = Moves \cup {m \in {debitMove, creditMove} : m.amount > 0}
    BY <2>4, <2>6
  <2> QED BY <1>5, <2>7 DEF debitMove, creditMove
<1>11. Atomic!SettleFor(r, n)
  <2>1. n > 0 => ~Atomic!Moved(r, Caller[r], "debit")
    BY <1>6, <1>8
  <2>2. Reward[r] > 0 => ~Atomic!Moved(r, ChannelOwner[r], "credit")
    BY <1>5, <1>6, <1>8
  <2> QED BY <2>1, <2>2, <1>9, <1>10 DEF Atomic!SettleFor
<1>12. n = Atomic!Payable(r) \/ (Engine = "mysql" /\ n = 0)
  <2>1. CASE ~Debits(c)
    BY <2>1, <1>0, <1>2, <1>5 DEF Exact, Atomic!Payable
  <2>2. CASE Debits(c) /\ ~(Engine = "mysql" /\ n = 0)
    <3>1. Caller[r] \in Users /\ Used(c) > 0
      BY <2>2, <1>4, Amounts DEF IInv, Debits, Counts
    <3>2. n = UpTo(wallet[Caller[r]], Used(c))
      BY <2>2, <1>0, <1>2, <1>3, <1>4 DEF Exact
    <3>3. Balances[Caller[r]] = wallet[Caller[r]].balance
      BY <3>1 DEF Balances
    <3>4. Price[r] = Used(c) /\ Price[r] # 0
      BY <2>2, <3>1, <1>5
    <3> QED BY <3>2, <3>3, <3>4 DEF UpTo, Atomic!Payable
  <2> QED BY <2>1, <2>2
<1> QED BY <1>1, <1>11, <1>12 DEF Atomic!Settle

\* However settlements interleave, conflict, retry, crash and lose replies, the
\* wallets and the ledger go through the states of the abstract settlement
\* (CreateUsageLog, prepareSettlement, applySettlement), in each of the engines.
THEOREM SettlementIsAtomic == Spec => SettlesAtomically
<1>1. Init => Atomic!Init
  BY SettlementAssumption DEF Init, Balances, Moves, Atomic!Init
<1>2. IInv /\ AtomicInv /\ [Next]_vars => [Atomic!Next]_(Atomic!vars)
  <2> SUFFICES ASSUME IInv, AtomicInv, [Next]_vars
               PROVE  Atomic!Next \/ UNCHANGED <<Balances, Moves>>
    BY DEF Atomic!vars
  <2>1. CASE UNCHANGED <<wallet, ledger>>
    BY <2>1 DEF Balances, Moves
  <2>2. ASSUME NEW c \in Calls, Commit(c)
        PROVE  Atomic!Next
    BY <2>2, CommitIsSettlement, PriceAndReward DEF Atomic!Next
  <2>3. ASSUME NEW c \in Calls, ~Commit(c), Start(c) \/ Step(c) \/ ContextEnds(c)
        PROVE  UNCHANGED <<wallet, ledger>>
    BY <2>3 DEF Step, Start, EnsureStartedAt, CheckExisting, PrepareSettlement, WriteDebit, WriteCredit,
        Busy, Retry, RollBack, DeadlockVictim, Wake, Lookup, ContextEnds
  <2>4. CASE Crash \/ UNCHANGED vars
    BY <2>1, <2>4 DEF Crash, vars
  <2> QED BY <2>1, <2>2, <2>3, <2>4 DEF Next
<1> QED BY <1>1, <1>2, IInvHolds, AtomicInvHolds, PTL
    DEF Spec, SettlesAtomically, Atomic!Spec
=============================================================================
