----------------------------- MODULE MCOrderBook -----------------------------
(* The order book on every small file of dataset orders and every choice of
   the user's orders, matched at any time, one product after the other. *)
EXTENDS OrderBook

CONSTANTS MCPrices, MCAmounts, MCTimes,
          DatasetSize,  \* orders in the file
          MaxInserts    \* orders the client inserts

Product == {1, 2}

Make(side, p, a, prod, t, u, n) ==
    [price |-> p, amount |-> a, product |-> prod, timestamp |-> t,
     orderType |-> side, username |-> u, id |-> n]

\* The file: DatasetSize orders of product 1, and an ask of product 2 with a
\* key that orders of product 1 also have.
Files ==
    {[n \in 1..DatasetSize + 1 |->
        IF n = 1 THEN Make("ask", 1, 1, 2, 1, "dataset", n)
        ELSE Make(f[n - 1][1], f[n - 1][2], f[n - 1][3], 1, f[n - 1][4], "dataset", n)] :
     f \in [1..DatasetSize -> {"ask", "bid"} \X MCPrices \X MCAmounts \X MCTimes]}

VARIABLE inserted   \* how many orders the client has inserted

MCInit ==
    /\ inserted = 0
    /\ orders \in {f \in Files : IsSortedBy(f, comapreByTimestamp)}
    /\ call = [product |-> 1, timestamp |-> 1]
    /\ LocalsDead

MCInsert ==
    /\ inserted < MaxInserts
    /\ \E side \in {"ask", "bid"}, p \in MCPrices, a \in MCAmounts, t \in MCTimes :
         insertOrder(Make(side, p, a, 1, t, "simuser", DatasetSize + 2 + inserted))
    /\ inserted' = inserted + 1

MCMatch == \E p \in Product, t \in MCTimes :
              matchAsksToBids(p, t) /\ UNCHANGED inserted

MCNext == \/ MCInsert
          \/ MCMatch
          \/ MatchLoop /\ UNCHANGED inserted
          \/ WriteBack /\ UNCHANGED inserted

MCSpec == MCInit /\ [][MCNext]_<<bookVars, inserted>>
=============================================================================
