----------------------------- MODULE MCServices -----------------------------
(***************************************************************************)
(* The services of Submissions, with the reports over them.  A behaviour   *)
(* either has all slots of two groups and one content, or two slots of one *)
(* group and two contents.                                                 *)
(***************************************************************************)
EXTENDS MCSubmissions, Reports

VARIABLE scope  \* "groups" or "contents", fixed for a behaviour

mcVars == <<vars, scope>>

MCInit == Init /\ scope \in {"groups", "contents"}

MCNext ==
    /\ Next
    /\ scope = "groups" => \A s \in Slots : sub'[s].data = EmptyData
    /\ scope = "contents" => \A s \in Slots \ {a1, b1} : sub'[s] = sub[s]
    /\ UNCHANGED scope

MCSpec == MCInit /\ [][MCNext]_mcVars
=============================================================================
