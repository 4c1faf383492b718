-------------------------- MODULE AtomicSettlement ---------------------------
(***************************************************************************)
(* What a settlement promises, with no word about transactions, locks,     *)
(* snapshots, retries or crashes: the usage of a request is settled at one *)
(* moment, at which its payer's wallet pays all it can of the price and    *)
(* the donor gets the reward, each at most once.  UsageSettlement          *)
(* implements it.                                                          *)
(***************************************************************************)
EXTENDS Integers

CONSTANTS
    Request,
    User,
    Payer,           \* request -> whose wallet is debited, where Price is positive
    Price,           \* request -> effective tokens to pay; 0 if no wallet is asked
    Donor,           \* request -> whose wallet is credited, where Reward is positive
    Reward,          \* request -> tokens credited; 0 if nobody is rewarded
    Initial,         \* user -> balance at the start
    MissesCredits    \* a wallet may be taken for empty though it was just credited

VARIABLES
    balance,   \* user -> tokens in the wallet
    moves      \* what was debited and credited, for which request

vars == <<balance, moves>>

Init ==
    /\ balance = Initial
    /\ moves = {}

\* All the wallet has, up to the price.
Payable(r) ==
    IF Price[r] = 0 THEN 0
    ELSE IF balance[Payer[r]] < Price[r] THEN balance[Payer[r]] ELSE Price[r]

Moved(r, u, kind) == \E m \in moves : m.request = r /\ m.user = u /\ m.kind = kind

\* The settlement of r takes n tokens from the payer's wallet.
SettleFor(r, n) ==
    /\ n > 0 => ~Moved(r, Payer[r], "debit")
    /\ Reward[r] > 0 => ~Moved(r, Donor[r], "credit")
    /\ balance' = [u \in User |-> IF n > 0 /\ u = Payer[r] THEN balance[u] - n
                                  ELSE IF Reward[r] > 0 /\ u = Donor[r]
                                       THEN balance[u] + Reward[r]
                                  ELSE balance[u]]
    /\ moves' = moves \cup
          {m \in {[request |-> r, user |-> Payer[r], kind |-> "debit", amount |-> n],
                  [request |-> r, user |-> Donor[r], kind |-> "credit", amount |-> Reward[r]]} :
              m.amount > 0}

Settle(r) ==
    \/ SettleFor(r, Payable(r))
    \/ MissesCredits /\ SettleFor(r, 0)

Next == \E r \in Request : Settle(r)

Spec == Init /\ [][Next]_vars
==============================================================================
