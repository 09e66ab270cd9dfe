-------------------------- MODULE MCWitnessEvidence -------------------------
(* WitnessEvidence for TLC: a log of one or three entries, and a history     *)
(* that forks from it in its first entry; witness logs of up to three, and   *)
(* one of five, whose size is beyond the page's numbers.                     *)
EXTENDS WitnessEvidence

HistoriesTried == {<<1>>, <<1, 2, 3>>, <<-1, 2>>}

PlacementsTried == {<<TRUE>>, <<FALSE>>, <<FALSE, TRUE>>, <<TRUE, FALSE, FALSE>>,
                    <<FALSE, FALSE, TRUE, FALSE, FALSE>>}
=============================================================================
