---------------------------- MODULE MCIceSession ----------------------------
(***************************************************************************)
(* An offerer behind a NAT that two STUN servers see at two addresses, a   *)
(* public answerer, and two networks: the NAT lets the first mapping       *)
(* through, or only the second one.                                        *)
(***************************************************************************)
EXTENDS IceSession

MCHosts == [s \in Sides |-> IF s = "offerer" THEN <<"a1">> ELSE <<"b1">>]
MCMapped == [s \in Sides |-> IF s = "offerer" THEN <<<<"as", "a1">>, <<"at", "a1">>>> ELSE <<>>]

OneNat == {<<"a1", "b1">>, <<"b1", "as">>}
Second == {<<"b1", "at">>}
MCTopologies == {OneNat, Second}

\* One of the two sides may try again.
MCRunsAnswerer == [s \in Sides |-> IF s = "answerer" THEN 2 ELSE 1]
MCRuns == [s \in Sides |-> IF s = "offerer" THEN 2 ELSE 1]
=============================================================================
