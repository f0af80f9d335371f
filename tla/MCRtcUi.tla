------------------------------ MODULE MCRtcUi ------------------------------
(* RtcUi for TLC: nothing goes wrong, each of the troubles alone, and an    *)
(* alarm in a race.                                                         *)
EXTENDS RtcUi

MCEnvs == {{}} \union {{trouble} : trouble \in Troubles \ {"race"}}
            \union {{"alarm", "race"}}
MCToggle == {{"toggle"}}
=============================================================================
