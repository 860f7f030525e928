----------------------------- MODULE MCPlanning -----------------------------
(* Small instances of Planning: catalogs of two tests, a knowledge base of up *)
(* to eight documents, one context budget.                                   *)
EXTENDS Planning

Case(module, scope, browsers, regions, criticality) ==
    [module |-> module, scope |-> scope, browsers |-> browsers,
     regions |-> regions, criticality |-> criticality]

PayHigh == Case("payment", "smoke", {"chrome"}, {"US"}, "high")
PayLow == Case("payment", "smoke", {"chrome", "safari"}, {"US", "EU"}, "low")
PayMedium == Case("payment", "smoke", {"chrome"}, {"US"}, "medium")
SafariOnly == Case("payment", "smoke", {"safari"}, {"US"}, "high")
EuropeOnly == Case("payment", "smoke", {"chrome"}, {"EU"}, "high")
Regression == Case("payment", "regression", {"chrome"}, {"US"}, "high")
Wallet == Case("wallet", "smoke", {"chrome"}, {"US"}, "high")

\* Ties, near misses of every kind, another module, nothing that matches
SmallCatalogs ==
    {<<PayLow, PayLow>>, <<PayMedium, PayHigh>>, <<PayLow, SafariOnly>>,
     <<PayHigh, EuropeOnly>>, <<Regression, PayLow>>, <<Wallet, Regression>>}

PaymentInUS ==
    [module |-> "payment", scope |-> "smoke", browser |-> "chrome", region |-> "US"]

OneIntent == {PaymentInUS}

Document(id, type, score, cost, test, age, region, modules) ==
    [id |-> id, type |-> type, score |-> score, cost |-> cost, test |-> test,
     age |-> age, browser |-> "chrome", region |-> region,
     modules |-> modules, unsupported |-> {"chrome"}]

Doc1 == Document("D1", "test_documentation", 90, 5, 1, NoDate, "US", {})
Recent1 == Document("H1", "historical_failure", 90, 2, 1, 10, "US", {})
Old1 == Document("H2", "historical_failure", 80, 1, 1, 91, "EU", {})
Future2 == Document("H4", "historical_failure", 50, 1, 2, -1, "EU", {})
PaymentRule == Document("R1", "jurisdiction_rule", 70, 3, 0, NoDate, "US", {"payment"})
WalletRule == Document("R2", "jurisdiction_rule", 80, 1, 0, NoDate, "US", {"wallet"})
LoginRule == Document("R4", "jurisdiction_rule", 85, 1, 0, NoDate, "US", {"login"})
EuropeRule == Document("R3", "jurisdiction_rule", 95, 1, 0, NoDate, "EU", {"payment"})

\* A document larger than the budget, failures that are recent, old and in the
\* future, rules of other modules that are closer, a rule of another region
SmallBase == {Doc1, Recent1, Old1, Future2, PaymentRule, WalletRule, LoginRule,
              EuropeRule}
RuleBase == {Doc1, Recent1, Old1, Future2, PaymentRule, WalletRule}

=============================================================================
