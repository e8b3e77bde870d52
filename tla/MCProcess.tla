----------------------------- MODULE MCProcess -----------------------------
(***************************************************************************)
(* Instances of Process for TLC: a provider whose versions index, archives *)
(* index and one zip together are over the budget, and another zip of      *)
(* which has a name the handler refuses; the same one misspelt; and one    *)
(* of a host that is not served.                                           *)
(***************************************************************************)
EXTENDS Process, TLC

CONSTANTS v, a, z

MCKeys == {v, a, z}

MCSizes == (v :> {1}) @@ (a :> {5}) @@ (z :> {5})

MCEntries == <<[versions |-> v, archives |-> a, zips |-> <<Refused, z>>],
               None,
               [versions |-> Refused, archives |-> None, zips |-> <<>>]>>
=============================================================================
