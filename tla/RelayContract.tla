---------------------------- MODULE RelayContract ----------------------------
(***************************************************************************)
(* What POST /relay promises its client (RELAYER_V2.md 6.2).  A request is *)
(* broadcast at most once, before its answer, and answered at most once.   *)
(* OK hands over the request's own transaction; REPLAY and DUPLICATE_TX    *)
(* hand over one that another request of the same key or calldata sent; a  *)
(* refusal means that nothing was sent, so that a retry is safe.  Only     *)
(* SUBMISSION_FAILED and UNKNOWN_ERROR leave that open.                    *)
(***************************************************************************)
CONSTANTS Requests, TxIds, NULL, PayloadOf, KeyOf

VARIABLES
  sent,    \* Requests -> the transaction broadcast for it, or NULL
  answer,  \* Requests -> what the client was told
  chain    \* TxIds -> what became of the transaction

vars == <<sent, answer, chain>>

Refusals == {"INVALID_CHAIN", "INVALID_TARGET", "FEE_EXPIRED", "INVALID_DATA",
             "FEE_INSUFFICIENT", "RELAYER_BUSY", "GAS_ESTIMATION_FAILED"}
Open(r) == answer[r].code = "none"

Tell(r, code, t) ==
  /\ answer' = [answer EXCEPT ![r] = [code |-> code, tx |-> t]]
  /\ UNCHANGED <<sent, chain>>

Init ==
  /\ sent = [r \in Requests |-> NULL]
  /\ answer = [r \in Requests |-> [code |-> "none", tx |-> NULL]]
  /\ chain = [t \in TxIds |-> "unsent"]

Send(r) ==
  /\ Open(r) /\ sent[r] = NULL
  /\ \E t \in TxIds :
       /\ chain[t] = "unsent"
       /\ sent' = [sent EXCEPT ![r] = t]
       /\ chain' = [chain EXCEPT ![t] = "pending"]
  /\ UNCHANGED answer

Accept(r) == Open(r) /\ sent[r] # NULL /\ Tell(r, "OK", sent[r])

Refer(r) ==
  /\ Open(r) /\ sent[r] = NULL
  /\ \E q \in Requests :
       /\ sent[q] # NULL
       /\ \/ KeyOf[r] # NULL /\ KeyOf[q] = KeyOf[r] /\ Tell(r, "REPLAY", sent[q])
          \/ PayloadOf[q] = PayloadOf[r] /\ Tell(r, "DUPLICATE_TX", sent[q])

Refuse(r) == Open(r) /\ sent[r] = NULL /\ \E c \in Refusals : Tell(r, c, NULL)

Fail(r) == Open(r) /\ \E c \in {"SUBMISSION_FAILED", "UNKNOWN_ERROR"} : Tell(r, c, NULL)

Mine(t) ==
  /\ chain[t] = "pending"
  /\ \E s \in {"confirmed", "failed"} : chain' = [chain EXCEPT ![t] = s]
  /\ UNCHANGED <<sent, answer>>

Next ==
  \/ \E r \in Requests : Send(r) \/ Accept(r) \/ Refer(r) \/ Refuse(r) \/ Fail(r)
  \/ \E t \in TxIds : Mine(t)

Spec == Init /\ [][Next]_vars
=============================================================================
