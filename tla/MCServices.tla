----------------------------- MODULE MCServices ------------------------------
(***************************************************************************)
(* Sizes of the services at which the interesting cases happen.            *)
(***************************************************************************)
EXTENDS Services

\* Two questions; three requests, or each pair of the hazards of a match.
MCRules == [vs |-> 1, question |-> 2, reveal |-> 1, grace |-> 1, resumeMin |-> 1]
MCBudgets ==
  {[requests |-> 3, flaps |-> 0, mishaps |-> 0], [requests |-> 1, flaps |-> 2, mishaps |-> 0],
   [requests |-> 1, flaps |-> 0, mishaps |-> 1], [requests |-> 0, flaps |-> 1, mishaps |-> 1]}

\* One friend, with everything; two friends of one student under a cap of one.
MCOne ==
  [refs |-> {"r1"}, referrerOf |-> [r \in {"r1"} |-> "s"],
   replicas |-> {"p1", "p2"}, admins |-> {"a"}, cap |-> 1, changes |-> 1, rollbacks |-> 1,
   programs |-> {[enabled |-> TRUE, referrer |-> 1, friend |-> 1],
                 [enabled |-> FALSE, referrer |-> 2, friend |-> 0]}]
MCTwo ==
  [refs |-> {"r1", "r2"}, referrerOf |-> [r \in {"r1", "r2"} |-> "s"],
   replicas |-> {"p1", "p2"}, admins |-> {"p2"}, cap |-> 1, changes |-> 0, rollbacks |-> 0,
   programs |-> {[enabled |-> TRUE, referrer |-> 1, friend |-> 1]}]

\* A parcel and its courier; the desk's operations; two receipts of one transfer.
MCPlans ==
  {[orders |-> {"o1"}, from |-> {"printing"}, payments |-> 0, requests |-> 5,
    ops |-> {"push", "return", "returned by agent"}],
   [orders |-> {"o1"}, from |-> {"address_only", "paid", "shipped"},
    payments |-> 1, requests |-> 2,
    ops |-> {"settle", "print", "ship", "deliver", "return", "confirm", "reject",
             "print many", "ship many", "delete", "restore",
             "with agent", "delivered by agent"}],
   [orders |-> {"o1", "o2"}, from |-> {"address_only"}, payments |-> 2, requests |-> 1,
    ops |-> {"clear", "reject"}]}

\* Two captures of money that may pay a claim or an order of one student.
MCOwnerOf == [x \in {"c", "o"} |-> "s"]

\* Two requests of one number and one of another, for one message.
MCPhoneOf == [r \in {"r1", "r2", "r3"} |-> IF r = "r3" THEN "q" ELSE "p"]
MCLimits == [perPhone |-> 1, requests |-> 3, sends |-> 1, attempts |-> 2]
=============================================================================
