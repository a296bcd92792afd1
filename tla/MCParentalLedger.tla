-------------------------- MODULE MCParentalLedger --------------------------
(* Weeks of three seconds with a day of two and a day of one, a lax policy  *)
(* and a strict one with a closed second, for TLC.                         *)
EXTENDS ParentalLedger, TLC

Week == [t \in Time |-> {u \in Time : u \div 3 = t \div 3}]
Day == [t \in Time |-> {u \in Week[t] : (u % 3 = 2) = (t % 3 = 2)}]
Unlimited == [t \in Time |-> Last + 1]

MCRules ==
    [lax |-> [enabled |-> FALSE, media |-> Media, open |-> Time,
              day |-> Day, week |-> Week,
              dayLimit |-> Unlimited, weekLimit |-> Last + 1],
     strict |-> [enabled |-> TRUE, media |-> Media, open |-> Time \ {3},
                 day |-> Day, week |-> Week,
                 dayLimit |-> [t \in Time |-> IF t < 2 THEN 1 ELSE 2],
                 weekLimit |-> 2]]
MCPolicies == DOMAIN MCRules
LeaseSymmetry == Permutations(Leases)
=============================================================================
