SPECIFICATION Spec
CONSTANTS
    u1 = u1
    plain = plain
    gold = gold
    Users = {u1}
    Procs = {p1}
    Packs = {plain, gold}
    PackPrice <- Prices
    Premium = {gold}
    Tiers = {"free", "premium", "business"}
    TierPrice <- PlanPrices
    Amounts = {1, 2}
    MaxCalls = 2
    MaxSubs = 2
    MaxFaults = 0
    Ids <- CallIds
    Opening <- Purse
INVARIANTS SubscriberPaid
