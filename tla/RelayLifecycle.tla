--------------------------- MODULE RelayLifecycle ---------------------------
(***************************************************************************)
(* What the relayer promises of one CCTP message (RELAYER_V2.md 8.4): the  *)
(* state graph of its job, and how the outcome it records relates to what  *)
(* happened at the destination.  A message lands at most once, by a        *)
(* transaction of the relayer or by anybody else's; it is recorded as      *)
(* delivered only when the relayer's own transaction landed it, and as     *)
(* already delivered only when it has landed.                              *)
(***************************************************************************)
CONSTANT Messages

VARIABLES
  status,  \* Messages -> recorded state of the job, "none" before the claim
  landed   \* Messages -> "no", or who made the destination accept it

vars == <<status, landed>>

Edges ==
  {<<"none", "detected">>, <<"none", "skipped">>, <<"none", "already_delivered">>,
   <<"detected", "awaiting_attestation">>, <<"detected", "attested">>,
   <<"awaiting_attestation", "attested">>, <<"awaiting_attestation", "dead_letter">>,
   <<"attested", "awaiting_attestation">>, <<"attested", "submitted">>,
   <<"attested", "already_delivered">>, <<"attested", "dead_letter">>,
   <<"submitted", "delivered">>, <<"submitted", "attested">>}

\* A table may start with rows imported from the previous relayer.
Init ==
  /\ status \in [Messages -> {"none", "attested", "submitted"}]
  /\ landed = [m \in Messages |-> "no"]

Land(m) ==
  /\ landed[m] = "no"
  /\ \E who \in {"relayer", "other"} : landed' = [landed EXCEPT ![m] = who]
  /\ UNCHANGED status

Record(m) ==
  /\ \E s \in {e[2] : e \in Edges} :
       /\ <<status[m], s>> \in Edges
       /\ s = "delivered" => landed[m] = "relayer"
       /\ s = "already_delivered" => landed[m] # "no"
       /\ status' = [status EXCEPT ![m] = s]
  /\ UNCHANGED landed

Next == \E m \in Messages : Land(m) \/ Record(m)

Spec == Init /\ [][Next]_vars
=============================================================================
