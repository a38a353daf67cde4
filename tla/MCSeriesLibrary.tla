-------------------------- MODULE MCSeriesLibrary --------------------------
(***************************************************************************)
(* The series library under TLC.  Every state lives on its own series, so  *)
(* a behaviour follows one of them: an indicator or window pattern, the    *)
(* rolling primitives, or the two hikkakes.                                *)
(***************************************************************************)
EXTENDS SeriesStates, RunningValues

VARIABLE followed
libraryVars == <<vars, rollingVars, hikkakeVars, followed>>

Registry == AllSpecs @@ AllPatterns

\* One inside the other, and a break to either side that can also confirm the other break.
Wide == [high |-> 12, low |-> -3, close |-> 5]
Inner == [high |-> 6, low |-> 2, close |-> 3]
Core == [high |-> 5, low |-> 3, close |-> 5]
Up == [high |-> 9, low |-> 4, close |-> 9]
Down == [high |-> 4, low |-> -1, close |-> -1]
Shapes == {Wide, Inner, Core, Up, Down}

\* The indicator that is followed when one of the others is.
LibraryInit ==
  /\ followed \in {"spec", "rolling", "hikkake"}
  /\ Init /\ (followed = "spec" \/ subject = "ema9")
  /\ RunningInit

LibraryNext ==
  /\ UNCHANGED followed
  /\ \/ followed = "spec" /\ Next /\ UNCHANGED <<rollingVars, hikkakeVars>>
     \/ followed = "rolling" /\ RollingNext /\ UNCHANGED <<vars, hikkakeVars>>
     \/ followed = "hikkake" /\ HikkakeNext /\ UNCHANGED <<vars, rollingVars>>

LibrarySpec == LibraryInit /\ [][LibraryNext]_libraryVars
=============================================================================
