--------------------------- MODULE MCLiveResults ---------------------------
EXTENDS LiveResults

(* A visit by share code makes one socket more, when the results come, and *)
(* gets one event of each kind; a visit by id gets any four.               *)
FewEvents ==
    IF effect # <<>> /\ Head(effect) = "code"
    THEN {begun, clicks, breaks} \subseteq 0..1
    ELSE begun + clicks + breaks <= 4
=============================================================================
