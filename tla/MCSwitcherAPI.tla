--------------------------- MODULE MCSwitcherAPI ---------------------------
(***************************************************************************)
(* Three small worlds: one user who switches while the import and faults   *)
(* go on; two users who switch, also together; and two users who are       *)
(* listed for two coins while the lists are asked for.                     *)
(***************************************************************************)
EXTENDS SwitcherAPI

\* The first ID of each coin is in the merged list once.
MCPUID == [c \in Coins |-> [u \in Users |->
              IF c = "btc" THEN (IF u = "u1" THEN 1 ELSE 2) ELSE IF u = "u1" THEN 0 ELSE 1]]

World(users, nodes, registrations, switches, faults, queries) ==
    [users |-> users, nodes |-> nodes, registrations |-> registrations, switches |-> switches,
     faults |-> faults, queries |-> queries]

MCBudgets ==
    {World({"u1"}, Coins, 1, 2, 1, 0), World({"u1"}, {NoCoin}, 1, 1, 1, 0),
     World({"u1", "u2"}, {"btc"}, 0, 2, 0, 0), World({"u1", "u2"}, {NoCoin}, 2, 0, 0, 2)}
=============================================================================
