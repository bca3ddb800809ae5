--------------------------- MODULE MCSignerSchema ---------------------------
(* TLC instance of SignerSchema.                                           *)
EXTENDS SignerSchema

Fresh == [version |-> 0, meta |-> 0, rooms |-> "none", sha |-> "none",
          outcome |-> "none", agedOut |-> FALSE, triggers |-> "none",
          totals |-> "none", search |-> "none", parties |-> "none"]

\* Rooms by name, without the later columns (test_collect.py:4451) and with
\* them; rooms by creation before the finalization of checks
\* (test_collect.py:2958); releases 2.13.0 and 2.14.0, and a case-insensitive
\* search (test_collect.py:4584).
Named == [Fresh EXCEPT !.rooms = "byName"]
Created == [Fresh EXCEPT !.version = 6, !.meta = 6, !.rooms = "byCreation",
                         !.sha = "filled", !.outcome = "filled", !.search = "full",
                         !.parties = "alternation"]

MCStores ==
  {Fresh} \cup
  UNION {{[s EXCEPT !.version = v, !.meta = m,
                    !.parties = IF v = 3 THEN "cooccurrence" ELSE "alternation"] :
            m \in {0, v}, s \in {Named, [Named EXCEPT !.sha = "filled", !.outcome = "filled"]}} :
         v \in {3, 4, 5}} \cup
  {[Created EXCEPT !.agedOut = a, !.triggers = t, !.totals = o, !.search = s] :
     <<a, t, o>> \in {<<FALSE, "none", "none">>, <<TRUE, "old", "old">>,
                      <<TRUE, "current", "exact">>},
     s \in {"full", "old"}}
=============================================================================
