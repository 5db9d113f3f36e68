------------------------- MODULE BadDebtWaterfall -------------------------
(***************************************************************************)
(* What becomes of debt without collateral, seen from far: the backstop    *)
(* owes it, auctions pay others with the depositors' tokens to take it     *)
(* over, and once the tokens are used up the suppliers bear the rest.      *)
(*                                                                         *)
(* This is the promise the pool and the backstop make together; InsuredPool*)
(* is shown to keep it.  Prices and the block modifiers of auctions are    *)
(* abstracted to what the promise needs of them: a lot is worth something, *)
(* and at any block at least one side of an auction is at 100%, the bid    *)
(* before the lot.                                                         *)
(***************************************************************************)
EXTENDS Integers

CONSTANTS
  Assets,            \* the assets that can be owed
  LOW,               \* the tokens below which the backstop's threshold is
                     \* less than 0_0000003 and debt may be defaulted
  RAMP,              \* the age at which bid and lot are both at 100%
  STALE,             \* the age at which an auction may be deleted
  Owable,            \* the debts of one asset there can be
  MaxTokens          \* bound: the tokens deposited for the pool

ASSUME WaterfallAssumption ==
  /\ LOW \in Nat \ {0} /\ RAMP \in Nat /\ STALE \in Nat
  /\ Owable \subseteq Nat /\ MaxTokens \in Nat

VARIABLES
  debt,     \* what the backstop owes of each asset
  tokens,   \* the tokens the pool's depositors have in the backstop
  auction   \* the bad debt auction: what is bid, the lot, and its age, which
            \* is -1 in the block that creates it

vars == <<debt, tokens, auction>>

Debts     == [Assets -> Owable]
NoDebt    == [a \in Assets |-> 0]
NoAuction == [bid |-> NoDebt, lot |-> 0, age |-> 0]

InDebt      == debt # NoDebt
Open        == auction # NoAuction
MinusDebt(f, g) == [a \in Assets |-> f[a] - g[a]]
Below(f)    == {g \in [Assets -> UNION {0..f[a] : a \in Assets}] :
                  \A a \in Assets : g[a] <= f[a]}

(* Ages are told apart as far as the actions do.                           *)
Oldest == IF STALE > RAMP THEN STALE ELSE RAMP + 1

Init ==
  /\ debt \in Debts
  /\ tokens \in 0..MaxTokens
  /\ auction = NoAuction

---------------------------------------------------------------------------
(* A user's last collateral is sold and leaves debt.                       *)
DebtArrives ==
  /\ debt' \in Debts
  /\ debt' # debt
  /\ debt \in Below(debt')
  /\ UNCHANGED <<tokens, auction>>

(* create_bad_debt_auction_data, of the whole debt of some assets.  Of a   *)
(* debt worth next to nothing the lot is rounded to 0.                     *)
NewAuction(S, lot) ==
  /\ ~Open
  /\ S # {} /\ \A a \in S : debt[a] > 0
  /\ tokens > 0
  /\ lot \in 0..tokens
  /\ auction' = [bid |-> [a \in Assets |-> IF a \in S THEN debt[a] ELSE 0],
                 lot |-> lot, age |-> -1]
  /\ UNCHANGED <<debt, tokens>>

\* Mutant: a threshold of 0 is asked for to be below 0.
NeverUsedUp(left) == left < 0

UsedUp(left) == left < LOW

(* fill_bad_debt_auction of the parts `bid` and `lot`, of which `taken` and*)
(* `paid` move.  A fill that ends the auction also defaults what is owed   *)
(* still, auctioned or not, if the tokens are used up.                     *)
Fill(bid, lot, taken, paid) ==
  LET rest == [auction EXCEPT !.bid = MinusDebt(@, bid), !.lot = @ - lot]
      ends == rest.bid = NoDebt /\ rest.lot = 0
      owed == MinusDebt(debt, taken)
  IN  /\ Open /\ auction.age >= 0
      /\ auction.age <= RAMP => taken = bid
      /\ auction.age >= RAMP => paid = lot
      /\ paid <= tokens
      /\ tokens' = tokens - paid
      /\ debt' = IF ends /\ UsedUp(tokens - paid) THEN NoDebt ELSE owed
      /\ auction' = IF ends THEN NoAuction ELSE rest

FillInFull == \E taken \in Below(auction.bid), paid \in 0..auction.lot :
                Fill(auction.bid, auction.lot, taken, paid)

(* The part of the bid is rounded up and that of the lot down.             *)
FillInPart ==
  \E bid \in Below(auction.bid), lot \in 0..auction.lot :
    /\ \A a \in Assets : auction.bid[a] > 0 => bid[a] > 0
    /\ auction.lot > 0 => lot < auction.lot
    /\ \E taken \in Below(bid), paid \in 0..lot : Fill(bid, lot, taken, paid)

DeleteStale ==
  /\ Open
  /\ auction.age >= STALE
  /\ auction' = NoAuction
  /\ UNCHANGED <<debt, tokens>>

(* bad_debt of the backstop: not while its auction is open.                *)
Default ==
  /\ InDebt /\ ~Open
  /\ UsedUp(tokens)
  /\ debt' = NoDebt
  /\ UNCHANGED <<tokens, auction>>

Deposit ==
  /\ \E t \in (tokens + 1)..MaxTokens : tokens' = t
  /\ UNCHANGED <<debt, auction>>

\* Mutant: nobody asks for the debt.
FreeToLeave == TRUE

MayLeave == ~InDebt

(* Depositors leave only while nothing is owed.  The rounding of a fill in *)
(* part can empty the bid before the lot; what is left of that auction is  *)
(* not kept back for.                                                      *)
Leave ==
  /\ MayLeave
  /\ \E t \in 0..tokens : tokens' = t
  /\ UNCHANGED <<debt, auction>>

Tick ==
  /\ Open /\ auction.age < Oldest
  /\ auction' = [auction EXCEPT !.age = @ + 1]
  /\ UNCHANGED <<debt, tokens>>

SomeNewAuction == \E S \in SUBSET Assets, lot \in 0..tokens : NewAuction(S, lot)

Next ==
  \/ DebtArrives
  \/ SomeNewAuction
  \/ FillInFull
  \/ FillInPart
  \/ DeleteStale
  \/ Default
  \/ Deposit
  \/ Leave
  \/ Tick

Spec == Init /\ [][Next]_vars

AuctionFor(lots) == \E S \in SUBSET Assets, lot \in lots : NewAuction(S, lot)

(* Ledgers close, and of those who may act somebody does: an auction's lot *)
(* is a profit once it is large enough, so that auctions are created while *)
(* there is something to auction and are not left to go stale every time;  *)
(* suppliers may call bad_debt to be able to withdraw again.               *)
Fairness ==
  /\ WF_vars(Tick)
  /\ WF_vars(AuctionFor(1..tokens))
  /\ SF_vars(FillInFull)
  /\ WF_vars(Default)
  /\ WF_vars(DeleteStale)

FairSpec == Spec /\ Fairness

---------------------------------------------------------------------------
(* A lot is there when it is filled as long as its auction has a bid, and  *)
(* so is the debt: neither new debt nor depositors come in between.        *)
AuctionIsCovered ==
  /\ \A a \in Assets : auction.bid[a] <= debt[a]
  /\ auction.bid # NoDebt => auction.lot <= tokens

(* Unless debt and deposits never stop to arrive, or auctions for nothing  *)
(* never stop to be created, all debt of the backstop is gone in the end:  *)
(* taken over, or borne by the suppliers.  Depositors are not locked in    *)
(* for ever.  It supposes debt that is worth auctioning: an auction of debt*)
(* whose value rounds to 0 is refused (bad_debt_auction.rs), and such dust *)
(* stays until more is owed.                                               *)
Arrivals == Deposit \/ DebtArrives \/ AuctionFor({0})

BadDebtIsResolved == <>[][~Arrivals]_vars => (InDebt ~> ~InDebt)
===========================================================================
