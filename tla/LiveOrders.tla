------------------------------ MODULE LiveOrders ------------------------------
(***************************************************************************)
(* The paths to a live account, as one process: the confirmed orders of    *)
(* the Moomoo and IBKR brokers, the portfolio over a user's brokers, the   *)
(* owner's Moomoo account with the momentum strategy, the strategy's clock, *)
(* and the account's recorded values.  They share the request threads, and *)
(* the way of saving a file.                                               *)
(***************************************************************************)
EXTENDS ConfirmedOrders, UnifiedPortfolio, MomentumSleeve, ValueHistories, RebalanceSchedule

VARIABLE focus  \* the part that this behaviour's requests are for

brokerVars == <<linkVars, portfolioVars>>
liveVars == <<pool, orderVars, brokerVars, sleeveVars, valueVars, scheduleVars, focus>>
ownValues == <<equity, halves, observed, late>>
ownSleeve == <<market, proposal, sleeveHistory>>

Services == {"orders", "brokers", "sleeve", "values", "schedule"}

LiveInit ==
    /\ focus \in Services
    /\ PoolInit /\ OrdersInit /\ LinkInit /\ PortfolioInit /\ SleeveInit /\ ValuesInit /\ ScheduleInit
    \* What a part does not use is the same in all behaviours of the others.
    /\ focus # "orders" => venue = "MOOMOO"
    /\ focus # "brokers" => links = {}
    /\ focus # "sleeve" => account = Nothing
    /\ focus # "schedule" => holidays = {}

OrdersStep == focus = "orders" /\ OrdersNext /\ UNCHANGED <<brokerVars, sleeveVars, ownValues, scheduleVars>>
BrokersStep == focus = "brokers" /\ BrokersNext /\ UNCHANGED <<orderVars, sleeveVars, ownValues, scheduleVars>>
SleeveStep == focus = "sleeve" /\ SleeveNext /\ UNCHANGED <<orderVars, brokerVars, ownValues, scheduleVars>>
ValuesStep == focus = "values" /\ ValuesNext /\ UNCHANGED <<orderVars, brokerVars, ownSleeve, scheduleVars>>
ScheduleStep == focus = "schedule" /\ ScheduleNext /\ UNCHANGED <<pool, orderVars, brokerVars, sleeveVars, ownValues>>

LiveNext ==
    /\ OrdersStep \/ BrokersStep \/ SleeveStep \/ ValuesStep \/ ScheduleStep
    /\ UNCHANGED focus

LiveSpec == LiveInit /\ [][LiveNext]_liveVars

===============================================================================
