----------------------------- MODULE Deployment -----------------------------
(***************************************************************************)
(* The relayer as it is operated: the operator edits the settings, the     *)
(* actor is stopped and booted again, and what it wired at its last boot   *)
(* classifies, attests and routes the CCTP messages it meets. The rows of  *)
(* the job table outlive a boot. Time is left out: a row may expire, and a *)
(* retry may come, at any time. The races of a broadcast whose answer is   *)
(* lost, or whose transaction is replaced, are in CctpJobs, discovery in   *)
(* MessageDiscovery.                                                       *)
(***************************************************************************)
EXTENDS RelayChecks

CONSTANTS
  Deployments,  \* directory -> its files
  Bases,        \* the settings a behaviour starts from
  Edits(_, _),  \* the settings one edit away, without and with traffic
  MaxEdits,     \* bound: edits in a behaviour
  Requests,     \* relay requests
  Messages,     \* CCTP messages, 1 .. n
  Burns,        \* what a message can be
  MaxRetries    \* MAX_RELAY_RETRIES

VARIABLES
  traffic,  \* whether this behaviour has messages
  ops,      \* the operator's settings
  edits,
  actor,    \* what the running actor wired, or NULL: it is down
  msg,      \* message -> its bytes and its source transaction, or NULL
  iris,     \* the messages Iris lists as complete
  row,      \* message -> its row of cctp_jobs, or NULL
  landed    \* the messages the destinations have received

ASSUME DeploymentAssumption ==
  /\ MaxEdits \in Nat /\ MaxRetries \in Nat
  /\ IsFiniteSet(Messages) /\ Messages = 1 .. Cardinality(Messages)
  /\ NULL \notin [burn : Burns, tx : Messages]

\* Calldata that decodes has the notes its selector is declared with, whose values
\* are unsigned.
ASSUME RequestsAssumption ==
  \A r \in Requests :
    /\ r.notes \in Seq({r.notes[i] : i \in DOMAIN r.notes})
    /\ \A i \in DOMAIN r.notes : r.notes[i].value \in Nat
    /\ r.decodes /\ r.selector \in WRAPPER_SELECTORS => Len(r.notes) >= 1
    /\ r.decodes /\ r.selector \in {"redeemAndShield", "gaslessCrossChainShield"} =>
         Len(r.notes) = 2

config == <<traffic, ops, edits, actor>>
vars == <<config, msg, iris, row, landed>>

W == INSTANCE WatcherConfig

Up == actor # NULL

States == {"detected", "awaiting_attestation", "attested", "submitted",
           "delivered", "already_delivered", "dead_letter", "skipped"}

Final == {"delivered", "already_delivered", "dead_letter", "skipped"}

Ended(m) == row[m] # NULL /\ row[m].state \in Final

InState(m, state) == Up /\ row[m] # NULL /\ row[m].state = state
-----------------------------------------------------------------------------
(* The operator.                                                           *)

\* The settings are read at the boot alone, so an edit under a running actor is one
\* made after it is stopped.
edit ==
  /\ ~Up /\ edits < MaxEdits
  /\ ops' \in Edits(ops, traffic)
  /\ edits' = edits + 1
  /\ UNCHANGED <<traffic, actor, msg, iris, row, landed>>

\* The settings with the files their directory holds.
settings == [ops EXCEPT !.dir = Deployments[@]]

\* A boot that fails leaves the actor down.
main ==
  /\ ~Up
  /\ \E o \in {settings} : boots(o) /\ actor' = wiring(o)
  /\ UNCHANGED <<traffic, ops, edits, msg, iris, row, landed>>

shutdown ==
  /\ Up
  /\ actor' = NULL
  /\ UNCHANGED <<traffic, ops, edits, msg, iris, row, landed>>
-----------------------------------------------------------------------------
(* The chains, other relayers and Iris, outside this repository.           *)

\* One source transaction emits one or more messages, identical ones too.
send ==
  /\ traffic
  /\ \E first \in Messages, last \in Messages :
       /\ msg[first] = NULL /\ \A m \in 1 .. first - 1 : msg[m] # NULL
       /\ \E b \in [first .. last -> Burns] :
            /\ \A m \in first .. last : b[m].src = b[first].src
            /\ msg' = [m \in Messages |->
                 IF m \in first .. last THEN [burn |-> b[m], tx |-> first] ELSE msg[m]]
  /\ UNCHANGED <<config, iris, row, landed>>

irisIndexes(m) ==
  /\ msg[m] # NULL /\ m \notin iris
  /\ iris' = iris \union {m}
  /\ UNCHANGED <<config, msg, row, landed>>

\* Anyone may deliver a message that names no caller.
foreignDelivery(m) ==
  /\ msg[m] # NULL /\ m \notin landed /\ msg[m].burn.caller = NULL
  /\ landed' = landed \union {m}
  /\ UNCHANGED <<config, msg, iris, row>>

\* A destination takes a message once, from its caller, with the attestation of the
\* network: a local transmitter verifies none.
accepts(x, attestation, sender) ==
  /\ x \notin landed
  /\ ops.network = "local" \/ attestation = "iris"
  /\ msg[x].burn.caller \in {NULL, sender}

\* The delivery a row has sent is executed, whoever else has delivered in between.
mine(m) ==
  /\ row[m] # NULL /\ row[m].state = "submitted" /\ row[m].receipt = NULL
  /\ LET x == row[m].message
     IN /\ row' = [row EXCEPT ![m].receipt = IF x \in landed THEN 0 ELSE 1]
        /\ landed' = landed \union {x}
  /\ UNCHANGED <<config, msg, iris>>

\* The execution fails by itself: out of gas, a pool that is paused.
reverts(m) ==
  /\ row[m] # NULL /\ row[m].state = "submitted" /\ row[m].receipt = NULL
  /\ row' = [row EXCEPT ![m].receipt = 0, ![m].fault = TRUE]
  /\ UNCHANGED <<config, msg, iris, landed>>
-----------------------------------------------------------------------------
(* The pipeline.                                                           *)

classifyMessageForRelay(w, b) ==
  /\ b.shape = "burn"
  /\ b.recipient \in knownRecipients(w)
  /\ \/ b.caller = NULL
     \/ hookRouterByDomain(w, b.dst) \in {NULL, b.caller}

\* The row is numbered in the order of the claims.
claimMessage(m) ==
  /\ Up /\ msg[m] # NULL /\ row[m] = NULL
  /\ chainOf(actor, msg[m].burn.src) # NULL
  /\ row' = [row EXCEPT ![m] =
       [state |-> IF classifyMessageForRelay(actor, msg[m].burn) THEN "detected" ELSE "skipped",
        order |-> Cardinality({n \in Messages : row[n] # NULL}),
        message |-> NULL, attestation |-> NULL, attempts |-> 0, receipt |-> NULL,
        fault |-> FALSE]]
  /\ UNCHANGED <<config, msg, iris, landed>>

\* The nonce, which tells two messages of equal bytes apart, is masked.
irisMessageMatches(m, x) == msg[m].burn = msg[x].burn

\* Mutant: the first of several entries is taken.
selectEntry_First(m, entries_) == Min(entries_)

\* The only entry, or the first of several that matches; NULL: none does.
selectEntry(m, entries_) ==
  LET matching == {x \in entries_ : irisMessageMatches(m, x)}
  IN IF Cardinality(entries_) = 1 THEN Min(entries_)
     ELSE IF matching = {} THEN NULL ELSE Min(matching)

\* Mutant: the entry is trusted as it is.
irisFetch_Unmatched(m) ==
  LET entries_ == {x \in iris : msg[x].tx = msg[m].tx}
  IN IF entries_ = {} THEN NULL ELSE selectEntry(m, entries_)

\* NULL where the answer is pending or an error: the row stays.
irisFetch(m) ==
  LET entries_ == {x \in iris : msg[x].tx = msg[m].tx}
      x == selectEntry(m, entries_)
  IN IF entries_ = {} \/ x = NULL \/ ~irisMessageMatches(m, x) THEN NULL ELSE x

attested(m, x, attestation) ==
  row' = [row EXCEPT ![m].state = "attested", ![m].message = x, ![m].attestation = attestation]

tickDetected(m) ==
  /\ InState(m, "detected")
  /\ IF actor.mode = "mock" THEN attested(m, m, "mock")
     ELSE row' = [row EXCEPT ![m].state = "awaiting_attestation"]
  /\ UNCHANGED <<config, msg, iris, landed>>

pollOne(m) ==
  /\ InState(m, "awaiting_attestation")
  /\ IF actor.mode = "mock" THEN attested(m, m, "mock")
     ELSE irisFetch(m) # NULL /\ attested(m, irisFetch(m), "iris")
  /\ UNCHANGED <<config, msg, iris, landed>>

\* A row older than the limit when its tick lists it is given up before the poll.
expire(m) ==
  /\ InState(m, "awaiting_attestation")
  /\ row' = [row EXCEPT ![m].state = "dead_letter"]
  /\ UNCHANGED <<config, msg, iris, landed>>

\* fault, for the properties: the failure is not the destination's answer to the message
\* but the broadcast's or the execution's own.
recordSubmissionFailure(m, fault) ==
  row' = [row EXCEPT ![m] =
            IF row[m].attempts = MaxRetries
            THEN [row[m] EXCEPT !.state = "dead_letter", !.fault = fault]
            ELSE [row[m] EXCEPT !.state = "attested", !.attempts = row[m].attempts + 1,
                                !.receipt = NULL, !.fault = FALSE]]

\* relayWithHook through the router, or receiveMessage where there is none.
submitRelayWithHook(m) ==
  LET c == chainOf(actor, msg[m].burn.dst)
  IN c # NULL /\ accepts(row[m].message, row[m].attestation, actor.hookRouter[c])

\* The estimation of the broadcast tells a used nonce from any other refusal. Where the
\* destination would have answered, the broadcast may fail by itself.
tickAttested(m) ==
  /\ InState(m, "attested")
  /\ \/ chainOf(actor, msg[m].burn.dst) # NULL /\ recordSubmissionFailure(m, TRUE)
     \/ IF submitRelayWithHook(m) THEN row' = [row EXCEPT ![m].state = "submitted"]
        ELSE IF chainOf(actor, msg[m].burn.dst) # NULL /\ row[m].message \in landed
        THEN row' = [row EXCEPT ![m].state = "already_delivered"]
        ELSE recordSubmissionFailure(m, FALSE)
  /\ UNCHANGED <<config, msg, iris, landed>>

\* A row whose destination is not served makes its receipt call throw.
throws(m) == InState(m, "submitted") /\ chainOf(actor, msg[m].burn.dst) = NULL

\* The throw ends the tick for the rows claimed later.
tickSubmitted(m) ==
  /\ InState(m, "submitted") /\ row[m].receipt # NULL
  /\ \A n \in Messages : throws(n) => row[n].order > row[m].order
  /\ IF row[m].receipt = 1 THEN row' = [row EXCEPT ![m].state = "delivered"]
     ELSE recordSubmissionFailure(m, row[m].fault)
  /\ UNCHANGED <<config, msg, iris, landed>>

\* A delivery dropped from the mempool is sent again; no attempt is booked.
recoverStuck(m) ==
  /\ InState(m, "submitted") /\ row[m].receipt = NULL
  /\ \A n \in Messages : throws(n) => row[n].order > row[m].order
  /\ row' = [row EXCEPT ![m].state = "attested"]
  /\ UNCHANGED <<config, msg, iris, landed>>
-----------------------------------------------------------------------------
Init ==
  /\ traffic \in BOOLEAN
  /\ ops \in Bases
  /\ edits = 0
  /\ actor = NULL
  /\ msg = [m \in Messages |-> NULL]
  /\ iris = {}
  /\ row = [m \in Messages |-> NULL]
  /\ landed = {}

Pipeline(m) ==
  \/ claimMessage(m) \/ tickDetected(m) \/ pollOne(m) \/ tickAttested(m) \/ tickSubmitted(m)

Next ==
  \/ edit \/ main \/ shutdown \/ send
  \/ \E m \in Messages :
       \/ Pipeline(m) \/ expire(m) \/ recoverStuck(m)
       \/ irisIndexes(m) \/ foreignDelivery(m) \/ mine(m) \/ reverts(m)

\* While the actor is up every tick reaches every row of its batch, Iris completes
\* every message, and the chains execute what they took, a message that is sent over
\* and over at last too. No row need expire.
Fairness ==
  \A m \in Messages : WF_vars(Pipeline(m)) /\ WF_vars(irisIndexes(m)) /\ SF_vars(mine(m))

Spec == Init /\ [][Next]_vars /\ Fairness
-----------------------------------------------------------------------------
(* Properties.                                                             *)

\* The two loaders read the same settings independently (buildConfig, resolveChains).
\* Whatever the actor boots with, the watcher comes up with too, unless a setting of
\* its own is wrong, and resolves to the same chains and domains, the same pools and
\* transmitters; a caller it filters the deliveries by is the router the actor
\* delivers through; and /v1/logs serves the pools. Judged without traffic, where
\* every setting is edited.
LoadersAgree ==
  ~traffic =>
    \A o \in {settings} :
      boots(o) /\ W!settings(o) =>
        /\ W!createConfig(o)
        /\ \A w \in {wiring(o)} :
             /\ W!chains(o) = DOMAIN w.pool
             /\ W!hubDomain(o) = w.domain[Hub]
             /\ \A c \in DOMAIN w.pool :
                  \A m \in {W!manifest(o, c)} :
                    LET t == W!messageTransmitterChain(m)
                    IN /\ t.address = w.transmitter[c]
                       /\ t.caller \in {NULL, w.hookRouter[c]}
                       /\ m.pool = w.pool[c]
                       /\ w.pool[c] \in W!protocolAddressAllowlist(m)

\* What the relayer is due for a call: what the gas of its cheapest tier was computed
\* to cost. The tier of a redeem is not grossed up, although a fee note pays it: there
\* the pool may keep its fee.
due(selector) ==
  LET net == Min({NetFees[k] : k \in advertisedFeeKeys(selector)})
  IN IF selector = "redeemAndShield" THEN Shielded(net) ELSE net

\* A request the pipeline lets through to the wallet, and that its target executes,
\* leaves the relayer, after the pool's shield fee, at least what the gas was computed
\* to cost, in hub USDC: the three verifiers look at the note the contract really
\* pays, and the gross-up of the gasless tiers makes up for the fee on it (pipeline,
\* verifyGaslessFee, verifyRedeemFee, verifyBroadcasterFee, grossUpForShieldFee).
\* Judged there too: it depends on the wiring alone.
AcceptedIsPaid ==
  Up /\ ~traffic =>
    \A r \in Requests :
      executes(r, actor.usdc) /\ pipeline(actor, r) = "ok" =>
        received(r, actor.usdc) >= due(r.selector)

\* Addressed to a pool of ours on the chain it goes to, and we may deliver it.
Ours(m) ==
  \E c \in DOMAIN actor.pool :
    /\ actor.domain[c] = msg[m].burn.dst
    /\ msg[m].burn.shape = "burn" /\ msg[m].burn.recipient = actor.pool[c]
    /\ msg[m].burn.caller \in {NULL, actor.hookRouter[c]}

\* What a row says when it ends is true of the chains, over every edit and boot in
\* between: a delivery was really received, of this message or of one of the same
\* transaction with the same bytes (pollOne cannot tell those apart); a row given up
\* is not ours by the present settings, or was delivered by another, or holds an
\* attestation made for another network, unless it expired before it had one or its
\* last attempt failed for a reason of its own, such as an unreachable node; and a
\* message skipped for ever was none of ours (claimMessage, tickAwaitingAttestation,
\* tickAttested, tickSubmitted).
OutcomeTrue ==
  [][\A m \in Messages :
       Ended(m)' /\ ~Ended(m) =>
         LET received_ == \E x \in landed : msg[x] = msg[m]
             state == row'[m].state
         IN /\ state \in {"delivered", "already_delivered"} => received_
            /\ state = "dead_letter" =>
                 \/ received_ \/ ~Ours(m)
                 \/ row[m].attestation = "mock" /\ ops.network # "local"
                 \/ row[m].state = "awaiting_attestation" \/ row'[m].fault
            /\ state = "skipped" => ~Ours(m)]_vars

\* As long as no delivery in flight goes to a chain the actor no longer serves, which
\* would throw in every tick (tickSubmitted), an actor that is kept running ends every
\* row it has claimed without waiting for it to expire, also those of one transaction
\* with several messages.
EveryClaimedEnds ==
  <>[](Up /\ \A n \in Messages : ~throws(n)) =>
    \A m \in Messages : (row[m] # NULL) ~> Ended(m)
=============================================================================
