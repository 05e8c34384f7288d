------------------------------ MODULE OwnerTab ------------------------------
(***************************************************************************)
(* A tab of the owner: the poll form and the dashboard, of which the       *)
(* router mounts one at a time, over the same polls.  What one page leaves *)
(* on its way is served while the other is there.                          *)
(***************************************************************************)
EXTENDS PollForm, Dashboard

vars == <<server, formVars, dashVars>>

Init == StoredInit /\ FormInit /\ DashInit

(* The form without the dashboard.  A poll that a form made that is no     *)
(* longer there is a change from elsewhere.                                *)
FormStep ==
    /\ FormNext /\ (form' # "off" => ~dash)
    /\ IF stored' = stored THEN UNCHANGED disturbed ELSE Disturbs
    /\ UNCHANGED <<dash, list, loading, failed, answer, calls, bounds>>

DashStep == DashNext /\ (dash' => form = "off") /\ UNCHANGED formVars

Next == FormStep \/ DashStep

Spec == Init /\ [][Next]_vars
=============================================================================
