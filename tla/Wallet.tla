------------------------------- MODULE Wallet -------------------------------
(***************************************************************************)
(* Wallet.cpp: the map from currency to balance, and its operations as     *)
(* functions from wallet to wallet.  The map's domain is the currencies    *)
(* ever inserted: an absent currency is not a zero balance, it fails every *)
(* containsCurrency, also for amount 0.                                    *)
(***************************************************************************)
EXTENDS Integers

CONSTANT Currency

\* Every map the program can hold.
IsWallet(w) == DOMAIN w \subseteq Currency /\ w \in [DOMAIN w -> Int]

BalanceOf(w, c) == IF c \in DOMAIN w THEN w[c] ELSE 0

\* insertCurrency throws on a negative amount and leaves the map alone.
InsertThrows(amount) == amount < 0
\* A slip: a currency the map does not have yet is not credited.
insertIfPresent(w, c, amount) ==
    IF InsertThrows(amount) \/ c \notin DOMAIN w THEN w ELSE [w EXCEPT ![c] = @ + amount]

insertCurrency(w, c, amount) ==
    IF InsertThrows(amount) THEN w
    ELSE [d \in DOMAIN w \cup {c} |-> IF d = c THEN BalanceOf(w, c) + amount ELSE w[d]]

containsCurrency(w, c, amount) == c \in DOMAIN w /\ w[c] >= amount

\* A slip: the balance is not tested.
RemoveUnchecked(w, c, amount) == amount >= 0 /\ c \in DOMAIN w

\* removeCurrency returns false, and does nothing, on a negative amount, an
\* absent currency or a balance that is too small.
RemoveSucceeds(w, c, amount) == amount >= 0 /\ containsCurrency(w, c, amount)
removeCurrency(w, c, amount) ==
    IF RemoveSucceeds(w, c, amount) THEN [w EXCEPT ![c] = @ - amount] ELSE w

-----------------------------------------------------------------------------
(* Only the console program calls the next two. *)

\* A slip: a bid is checked for its amount, not its value.
canFulfillAmount(w, e, base, quote) ==
    containsCurrency(w, IF e.orderType = "ask" THEN base ELSE quote, e.amount)

\* e is an ask or a bid of product base/quote.
canFulfillOrder(w, e, base, quote) ==
    IF e.orderType = "ask"
    THEN containsCurrency(w, base, e.amount)
    ELSE containsCurrency(w, quote, e.amount * e.price)

\* currencies[c] += amount: an absent currency is created, nothing is tested.
AddedTo(w, c, amount) ==
    [d \in DOMAIN w \cup {c} |-> BalanceOf(w, d) + (IF d = c THEN amount ELSE 0)]

processSale(w, s, base, quote) ==
    IF s.orderType = "asksale"
    THEN AddedTo(AddedTo(w, quote, s.amount * s.price), base, -s.amount)
    ELSE AddedTo(AddedTo(w, base, s.amount), quote, -(s.amount * s.price))
=============================================================================
