------------------------- MODULE MCScanDataParsing -------------------------
(***************************************************************************)
(* Telegrams for TLC: any set of blocks, in two orders; every number of    *)
(* beams about the limits 0 and 9; a telegram cut after its header and one *)
(* that misses just more than a header.                                    *)
(***************************************************************************)
EXTENDS ScanDataParsing

OrderOfTheCode ==
  <<"general_system_state", "derived_values", "measurement_data", "intrusion_data",
    "application_data">>

OtherOrder ==
  <<"application_data", "measurement_data", "derived_values", "intrusion_data",
    "general_system_state">>

A(published, order, beams, missing) ==
  [published |-> published, order |-> order, beams |-> beams, missing |-> missing]

MCTelegram ==
  {A(p, OrderOfTheCode, 9, 0) : p \in SUBSET Blocks}
  \cup {A(Blocks, OtherOrder, n, 0) : n \in {0, 1, 8, 9, 10}}
  \cup {A(Blocks, OtherOrder, 1, n) : n \in {53, 372}}

MCProbed == {A(Blocks, OtherOrder, 9, 0)}

\* -47.5 and 0.1 degrees
MCStartAngle == 0 - 199229440
MCResolution == 419430

ASSUME MCAnglesAssumption == AnglesOfAScan

\* All zero, and something else.
MCUninitialised == {<<0, 0, 0>>, <<0 - 7, 13, 3>>}
=============================================================================
