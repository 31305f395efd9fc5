---------------------------- MODULE MCJobBackend ----------------------------
(***************************************************************************)
(* A small instance of JobBackend: two workers and two jobs, of which the   *)
(* filter refuses one.  The calm one has a weak board that would be blown   *)
(* away, one that stands the wind, and its wind under an old key; the other *)
(* has no board whose limit is known to be high enough.                     *)
(***************************************************************************)
EXTENDS JobBackend, WindFilter

MCScenarios ==
  [calm1 |-> [wind |-> <<Blank, 5>>, models |-> {"weak", "strong", "unmarked"}],
   gale  |-> [wind |-> <<9, 5>>, models |-> {"weak", "strong", "unmarked", "zero", "other"}]]

MCWindLimits == [weak |-> 4, strong |-> 8, unmarked |-> Blank, zero |-> 0]

MCJobs == DOMAIN MCScenarios
MCWindy == { j \in MCJobs : WindRefused(MCScenarios[j]) }

=============================================================================
