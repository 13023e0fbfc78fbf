--------------------------- MODULE DeploymentProofs ---------------------------
(* Proofs about Deployment, for any settings, files, edits, messages and retries. *)
EXTENDS Deployment, FiniteSetTheorems, WellFoundedInduction, TLAPS

-----------------------------------------------------------------------------
(* Least elements.                                                         *)

\* A set of naturals has a least element, which Min picks.
LEMMA LeastNat ==
  ASSUME NEW S \in SUBSET Nat, S # {}
  PROVE  \E n \in S : \A k \in S : n =< k
  <1> DEFINE Less == {ss \in Nat \X Nat : ss[1] < ss[2]}
  <1>1. IsWellFoundedOn(Less, Nat)
    BY NatLessThanWellFounded DEF OpToRel
  <1>2. PICK n \in S : \A k \in S : <<k, n>> \notin Less
    <2> HIDE DEF Less
    <2> QED BY <1>1, WFMin
  <1>3. ASSUME NEW k \in S PROVE n =< k
    <2>1. n \in Nat /\ k \in Nat
      OBVIOUS
    <2>2. ~(k < n)
      BY <1>2, <2>1
    <2> QED BY <2>1, <2>2
  <1> QED BY <1>3

LEMMA LeastIn ==
  ASSUME NEW S \in SUBSET Nat, S # {}
  PROVE  Min(S) \in S
  BY LeastNat DEF Min

-----------------------------------------------------------------------------
(* The two loaders.                                                        *)

\* Both packages find the same deployment, and the same manifest of a chain in it.
LEMMA SameSource ==
  ASSUME NEW o, networkName(o)
  PROVE  W!resolveSource(o) = resolveDeploymentSource(o)
  BY DEF networkName, NETWORKS, W!resolveSource, resolveDeploymentSource, REGISTRY_ENVIRONMENT

LEMMA SameManifest ==
  ASSUME NEW o, networkName(o), NEW c
  PROVE  W!manifest(o, c) = manifestOf(o, resolveDeploymentSource(o), c)
  <1> DEFINE source == resolveDeploymentSource(o)
             index == o.dir.registry[source]
  <1>1. W!raws(o) = entries(o)
    BY DEF W!raws, entries, W!loadTopologyFile, loadTopologyFile
  <1>2. W!registryManifestPath(index, entries(o)[c], role(c))
          = registryManifest(index, entries(o)[c], role(c))
    BY DEF W!registryManifestPath, registryManifest
  <1>3. W!resolveSource(o) = source
    BY SameSource
  <1>4. (IF c = Hub THEN "hub" ELSE "client") = role(c)
    BY DEF role
  <1>5. W!manifest(o, c) =
          IF source = "flat" THEN o.dir.flat[o.network][c]
          ELSE IF index = NULL THEN NULL
          ELSE W!registryManifestPath(index, entries(o)[c], role(c))
    BY <1>1, <1>3, <1>4 DEF W!manifest, W!manifestFile
  <1> HIDE DEF source
  <1>6. manifestOf(o, source, c) =
          IF source = "flat" THEN o.dir.flat[o.network][c]
          ELSE IF index = NULL THEN NULL
          ELSE registryManifest(index, entries(o)[c], role(c))
    BY DEF manifestOf
  <1> QED BY <1>2, <1>5, <1>6 DEF source

\* The watcher serves the chains of the actor.
LEMMA SameChains ==
  ASSUME NEW o
  PROVE  W!chains(o) = allChains(o) /\ Hub \in allChains(o) /\ W!raws(o) = entries(o)
  BY DEF W!chains, allChains, enabledClients, W!raws, entries, W!loadTopologyFile,
     loadTopologyFile

\* What main wires, chain by chain.
LEMMA Wired ==
  ASSUME NEW o, NEW source, source = resolveDeploymentSource(o)
  PROVE  /\ wiring(o).domain = [c \in allChains(o) |-> manifestOf(o, source, c).domain]
         /\ wiring(o).pool = [c \in allChains(o) |-> manifestOf(o, source, c).pool]
         /\ wiring(o).transmitter =
              [c \in allChains(o) |-> manifestOf(o, source, c).messageTransmitter]
         /\ wiring(o).hookRouter =
              [c \in allChains(o) |-> manifestOf(o, source, c).hookRouter]
  BY DEF wiring, poolAddress

\* A manifest the actor accepts is one the watcher accepts.
LEMMA Accepted ==
  ASSUME NEW o, boots(o), NEW c \in allChains(o), NEW m,
         m = manifestOf(o, resolveDeploymentSource(o), c)
  PROVE  m # NULL /\ validateManifest(m, entries(o)[c]) /\ o.rpc[c] > 0
  BY DEF boots, buildConfig, loadAllManifests, rpcUrls

LEMMA WatcherStarts ==
  ASSUME NEW o, boots(o), W!settings(o)
  PROVE  W!createConfig(o)
  <1>1. networkName(o) /\ buildNetworkTopology(o) /\ selectClients(o)
        /\ resolveDeploymentSource(o) # NULL
    BY DEF boots, buildConfig, getTopology
  <1>2. W!raws(o) = entries(o) /\ W!chains(o) = allChains(o)
    BY SameChains
  <1>3. W!topologyChains(o)
    <2>1. W!networkName(o) /\ W!loadTopologyFile(o) # NULL
      BY <1>1 DEF networkName, NETWORKS, W!networkName, W!loadTopologyFile, loadTopologyFile,
         buildNetworkTopology
    <2>2. Hub \in DOMAIN entries(o) /\ \A c \in DOMAIN entries(o) : entries(o)[c].wellFormed
      BY <1>1 DEF buildNetworkTopology, toChain
    <2>3. W!selectClients(o)
      BY <1>1, <1>2 DEF selectClients, W!selectClients
    <2> QED BY <1>2, <2>1, <2>2, <2>3 DEF W!topologyChains, W!rawNetwork, W!toWatcherChain
  <1>4. W!resolveSource(o) # NULL
    BY <1>1, SameSource
  <1>5. ASSUME NEW c \in allChains(o)
        PROVE  o.rpc[c] > 0 /\ W!resolves(W!manifest(o, c), entries(o)[c])
    <2> DEFINE m == manifestOf(o, resolveDeploymentSource(o), c)
    <2>1. W!manifest(o, c) = m
      BY <1>1, SameManifest
    <2>2. m # NULL /\ validateManifest(m, entries(o)[c]) /\ o.rpc[c] > 0
      BY Accepted
    <2> HIDE DEF m
    <2> QED BY <2>1, <2>2 DEF W!resolves, validateManifest, isAddress
  <1> QED BY <1>2, <1>3, <1>4, <1>5 DEF W!createConfig, W!resolveChains

LEMMA SameContracts ==
  ASSUME NEW o, boots(o), NEW w, w = wiring(o)
  PROVE  /\ W!chains(o) = DOMAIN w.pool
         /\ W!hubDomain(o) = w.domain[Hub]
         /\ \A c \in DOMAIN w.pool :
              \A m \in {W!manifest(o, c)} :
                LET t == W!messageTransmitterChain(m)
                IN /\ t.address = w.transmitter[c]
                   /\ t.caller \in {NULL, w.hookRouter[c]}
                   /\ m.pool = w.pool[c]
                   /\ w.pool[c] \in W!protocolAddressAllowlist(m)
  <1> DEFINE of(c) == manifestOf(o, resolveDeploymentSource(o), c)
  <1>1. /\ w.domain = [c \in allChains(o) |-> of(c).domain]
        /\ w.pool = [c \in allChains(o) |-> of(c).pool]
        /\ w.transmitter = [c \in allChains(o) |-> of(c).messageTransmitter]
        /\ w.hookRouter = [c \in allChains(o) |-> of(c).hookRouter]
    BY Wired
  <1>2. networkName(o)
    BY DEF boots, buildConfig, getTopology
  <1>3. \A c \in allChains(o) : /\ of(c) # NULL /\ validateManifest(of(c), entries(o)[c])
                                /\ W!manifest(o, c) = of(c)
    BY <1>2, Accepted, SameManifest
  <1>4. W!chains(o) = allChains(o) /\ Hub \in allChains(o) /\ W!raws(o) = entries(o)
    BY SameChains
  <1> HIDE DEF of
  <1>5. W!chains(o) = DOMAIN w.pool
    BY <1>1, <1>4
  <1>6. W!hubDomain(o) = w.domain[Hub]
    BY <1>1, <1>3, <1>4 DEF W!hubDomain, validateManifest
  <1>7. ASSUME NEW c \in allChains(o), NEW m, m = of(c)
        PROVE  /\ W!messageTransmitterChain(m).address = w.transmitter[c]
               /\ W!messageTransmitterChain(m).caller \in {NULL, w.hookRouter[c]}
               /\ m.pool = w.pool[c]
               /\ w.pool[c] \in W!protocolAddressAllowlist(m)
    <2>1. validateManifest(m, entries(o)[c])
      BY <1>3, <1>7
    <2>2. /\ w.transmitter[c] = m.messageTransmitter /\ w.hookRouter[c] = m.hookRouter
          /\ w.pool[c] = m.pool /\ m.pool # NULL
      BY <1>1, <1>7, <2>1 DEF validateManifest, isAddress
    <2> QED BY <2>2 DEF W!messageTransmitterChain, W!hookRouterAddress,
                        W!protocolAddressAllowlist
  <1> QED BY <1>1, <1>3, <1>5, <1>6, <1>7

\* Whatever the environment and the files say, the watcher's loader follows the
\* actor's: it comes up wherever the actor boots, with the same chains, domains,
\* pools and transmitters, and filters deliveries by the actor's router.
THEOREM LoadersAlwaysAgree == Spec => []LoadersAgree
  <1>1. LoadersAgree
    BY WatcherStarts, SameContracts DEF LoadersAgree
  <1> QED BY <1>1, PTL
-----------------------------------------------------------------------------
(* The rows over edits and boots.                                          *)

Message == [burn : Burns, tx : Messages]

Row == [state : States, order : Nat, message : Messages \union {NULL},
        attestation : {NULL, "mock", "iris"}, attempts : Nat, receipt : {NULL, 0, 1},
        fault : BOOLEAN]

\* What a row of m holds: the attested message has its bytes and its transaction,
\* and a receipt says that it was received, unless the execution failed by itself.
Fits(m, r) ==
  /\ r \in Row /\ msg[m] # NULL
  /\ r.state \in {"attested", "submitted"} =>
       /\ r.message \in Messages /\ msg[r.message] = msg[m]
       /\ r.attestation \in {"mock", "iris"}
  /\ r.state \in {"detected", "awaiting_attestation", "attested"} => r.receipt = NULL
  /\ r.state = "submitted" /\ r.receipt # NULL =>
       r.message \in landed \/ (r.receipt = 0 /\ r.fault)

Typed ==
  /\ msg \in [Messages -> Message \union {NULL}] /\ row \in [Messages -> Row \union {NULL}]
  /\ landed \subseteq Messages /\ iris \subseteq Messages
  /\ \A m \in iris : msg[m] # NULL

\* Messages are numbered as they are sent, so that none is sent twice.
InOrder == \A m, n \in Messages : msg[m] = NULL /\ n > m => msg[n] = NULL

Kept == \A m \in Messages : row[m] # NULL => Fits(m, row[m])

\* The running actor is wired from the settings it was booted with.
Booted == Up => boots(settings) /\ actor = wiring(settings)

Recorded == Typed /\ InOrder /\ Kept /\ Booted

\* What OutcomeTrue asks of a row of m that ends as r.
Truthful(m, r) ==
  LET received_ == \E x \in landed : msg[x] = msg[m]
  IN /\ r.state \in {"delivered", "already_delivered"} => received_
     /\ r.state = "dead_letter" =>
          \/ received_ \/ ~Ours(m)
          \/ row[m].attestation = "mock" /\ ops.network # "local"
          \/ row[m].state = "awaiting_attestation" \/ r.fault
     /\ r.state = "skipped" => ~Ours(m)

\* A step that writes the row of m and nothing else, and writes the truth.
Writes(m) ==
  /\ \E r : row' = [row EXCEPT ![m] = r] /\ Fits(m, r) /\ Truthful(m, r)
  /\ UNCHANGED <<config, msg, iris, landed>>

\* A boot gives every domain to one chain, and every chain has a name.
LEMMA OneChain ==
  ASSUME NEW o, boots(o), NEW w, w = wiring(o)
  PROVE  /\ DOMAIN w.pool = DOMAIN w.domain /\ NULL \notin DOMAIN w.domain
         /\ \A c, d \in DOMAIN w.domain : w.domain[c] = w.domain[d] => c = d
  <1> DEFINE of(c) == manifestOf(o, resolveDeploymentSource(o), c)
  <1>1. /\ w.domain = [c \in allChains(o) |-> of(c).domain]
        /\ w.pool = [c \in allChains(o) |-> of(c).pool]
        /\ w.transmitter = [c \in allChains(o) |-> of(c).messageTransmitter]
        /\ w.hookRouter = [c \in allChains(o) |-> of(c).hookRouter]
    BY Wired
  <1>2. \A c \in allChains(o) : of(c).domain = entries(o)[c].domain
    BY Accepted DEF validateManifest
  <1>3. isInjective([c \in allChains(o) |-> entries(o)[c].domain])
    BY DEF boots, buildConfig, assertDomainPairing
  <1>4. \A c, d \in allChains(o) : entries(o)[c].domain = entries(o)[d].domain => c = d
    BY <1>3 DEF isInjective
  <1>5. NULL \notin allChains(o)
    BY DEF boots, buildConfig, getTopology, buildNetworkTopology, selectClients, allChains,
       enabledClients
  <1> HIDE DEF of
  <1> QED BY <1>1, <1>2, <1>4, <1>5

\* The chain of a domain is the one that has it.
LEMMA ChainOf ==
  ASSUME Booted, Up, NEW d
  PROVE  /\ DOMAIN actor.pool = DOMAIN actor.domain
         /\ chainOf(actor, d) = NULL => \A c \in DOMAIN actor.domain : actor.domain[c] # d
         /\ \A c \in DOMAIN actor.domain : actor.domain[c] = d => chainOf(actor, d) = c
  <1> DEFINE served == {c \in DOMAIN actor.domain : actor.domain[c] = d}
  <1>0. /\ DOMAIN actor.pool = DOMAIN actor.domain /\ NULL \notin DOMAIN actor.domain
        /\ \A b, c \in DOMAIN actor.domain : actor.domain[b] = actor.domain[c] => b = c
    <2>1. boots(settings) /\ actor = wiring(settings)
      BY DEF Booted
    <2> QED BY <2>1, OneChain
  <1>1. chainOf(actor, d) = IF served = {} THEN NULL ELSE CHOOSE c \in served : TRUE
    BY DEF chainOf
  <1>2. \A b, c \in served : b = c
    BY <1>0
  <1>3. served # {} => chainOf(actor, d) \in served
    BY <1>1
  <1>4. \A c \in served : c # NULL
    BY <1>0
  <1> HIDE DEF served
  <1>5. \A c \in served : chainOf(actor, d) = c
    BY <1>2, <1>3
  <1>6. chainOf(actor, d) = NULL => served = {}
    BY <1>3, <1>4
  <1> QED BY <1>0, <1>5, <1>6 DEF served

\* The first of some messages is one of them.
LEMMA First ==
  ASSUME NEW S \in SUBSET Messages, S # {}
  PROVE  Min(S) \in S
  <1>1. S \in SUBSET Nat
    BY DeploymentAssumption, FS_CardinalityType
  <1> QED BY <1>1, LeastIn

\* What Iris' answer is matched to has the bytes and the transaction of the row.
LEMMA Matched ==
  ASSUME Typed, NEW m \in Messages, msg[m] # NULL, NEW x, x = irisFetch(m), x # NULL
  PROVE  x \in Messages /\ msg[x] = msg[m]
  <1> DEFINE E == {y \in iris : msg[y].tx = msg[m].tx}
             M == {y \in E : irisMessageMatches(m, y)}
  <1>1. /\ E # {} /\ x = selectEntry(m, E) /\ irisMessageMatches(m, x)
    BY DEF irisFetch
  <1>2. E \in SUBSET Messages /\ M \in SUBSET Messages
    BY DEF Typed
  <1>3. x = IF Cardinality(E) = 1 THEN Min(E) ELSE IF M = {} THEN NULL ELSE Min(M)
    BY <1>1 DEF selectEntry
  <1>4. x \in E
    <2>1. M \subseteq E
      OBVIOUS
    <2> HIDE DEF E, M
    <2> QED BY <1>1, <1>2, <1>3, <2>1, First
  <1>5. msg[x] \in Message /\ msg[m] \in Message
    BY <1>4 DEF Typed
  <1>6. msg[x].tx = msg[m].tx /\ msg[x].burn = msg[m].burn
    BY <1>1, <1>4 DEF irisMessageMatches
  <1> QED BY <1>2, <1>4, <1>5, <1>6 DEF Message

\* A row that is claimed is skipped only when the message is none of ours.
LEMMA Claims ==
  ASSUME Recorded, NEW m \in Messages, claimMessage(m)
  PROVE  Writes(m)
  <1> DEFINE relay == classifyMessageForRelay(actor, msg[m].burn)
             order_ == Cardinality({n \in Messages : row[n] # NULL})
             r == [state |-> IF relay THEN "detected" ELSE "skipped", order |-> order_,
                   message |-> NULL, attestation |-> NULL, attempts |-> 0, receipt |-> NULL,
                   fault |-> FALSE]
  <1>1. /\ Up /\ msg[m] # NULL /\ row' = [row EXCEPT ![m] = r]
        /\ UNCHANGED <<config, msg, iris, landed>>
    BY DEF claimMessage
  <1>2. order_ \in Nat
    <2>1. {n \in Messages : row[n] # NULL} \in SUBSET Messages
      OBVIOUS
    <2> QED BY <2>1, DeploymentAssumption, FS_Subset, FS_CardinalityType
  <1> HIDE DEF order_, relay
  <1>3. /\ r \in Row /\ r.state = IF relay THEN "detected" ELSE "skipped"
        /\ r.receipt = NULL
    BY <1>2 DEF Row, States
  <1>4. ASSUME Ours(m) PROVE relay
    <2>1. PICK c \in DOMAIN actor.pool :
            /\ actor.domain[c] = msg[m].burn.dst
            /\ msg[m].burn.shape = "burn" /\ msg[m].burn.recipient = actor.pool[c]
            /\ msg[m].burn.caller \in {NULL, actor.hookRouter[c]}
      BY <1>4 DEF Ours
    <2>2. DOMAIN actor.pool = DOMAIN actor.domain
      BY <1>1, ChainOf DEF Recorded
    <2>3. chainOf(actor, msg[m].burn.dst) = c
      BY <1>1, <2>1, <2>2, ChainOf DEF Recorded
    <2>4. hookRouterByDomain(actor, msg[m].burn.dst) \in {NULL, actor.hookRouter[c]}
      BY <2>3 DEF hookRouterByDomain
    <2>5. msg[m].burn.recipient \in knownRecipients(actor)
      BY <2>1 DEF knownRecipients
    <2> QED BY <2>1, <2>4, <2>5 DEF relay, classifyMessageForRelay
  <1> HIDE DEF r
  <1>5. Fits(m, r)
    BY <1>1, <1>3 DEF Fits
  <1>6. Truthful(m, r)
    BY <1>3, <1>4 DEF Truthful
  <1> QED BY <1>1, <1>5, <1>6 DEF Writes

\* Rows wait for their attestation and take it up; none ends but one that expires.
LEMMA Attests ==
  ASSUME Recorded, NEW m \in Messages, tickDetected(m) \/ pollOne(m) \/ expire(m)
  PROVE  Writes(m)
  <1>1. /\ row[m] # NULL /\ row[m].state \in {"detected", "awaiting_attestation"}
        /\ UNCHANGED <<config, msg, iris, landed>>
        /\ \/ attested(m, m, "mock")
           \/ irisFetch(m) # NULL /\ attested(m, irisFetch(m), "iris")
           \/ row' = [row EXCEPT ![m].state = "awaiting_attestation"]
           \/ /\ row[m].state = "awaiting_attestation"
              /\ row' = [row EXCEPT ![m].state = "dead_letter"]
    BY DEF tickDetected, pollOne, expire, InState
  <1>2. /\ row[m] \in Row /\ msg[m] # NULL /\ row[m].receipt = NULL
        /\ row \in [Messages -> Row \union {NULL}]
    BY <1>1 DEF Recorded, Kept, Fits, Typed
  <1>3. ASSUME NEW x \in Messages, NEW a \in {"mock", "iris"}, msg[x] = msg[m],
               attested(m, x, a)
        PROVE  Writes(m)
    <2> DEFINE r == [row[m] EXCEPT !.state = "attested", !.message = x, !.attestation = a]
    <2>1. row' = [row EXCEPT ![m] = r]
      BY <1>2, <1>3 DEF attested
    <2>2. /\ r \in Row /\ r.state = "attested" /\ r.message = x /\ r.attestation = a
          /\ r.receipt = row[m].receipt
      BY <1>2 DEF Row, States
    <2> HIDE DEF r
    <2>3. Fits(m, r) /\ Truthful(m, r)
      BY <1>2, <1>3, <2>2 DEF Fits, Truthful
    <2> QED BY <1>1, <2>1, <2>3 DEF Writes
  <1>4. CASE row' = [row EXCEPT ![m].state = "awaiting_attestation"]
    <2> DEFINE r == [row[m] EXCEPT !.state = "awaiting_attestation"]
    <2>1. row' = [row EXCEPT ![m] = r]
      BY <1>2, <1>4
    <2>2. r \in Row /\ r.state = "awaiting_attestation" /\ r.receipt = row[m].receipt
      BY <1>2 DEF Row, States
    <2> HIDE DEF r
    <2>3. Fits(m, r) /\ Truthful(m, r)
      BY <1>2, <2>2 DEF Fits, Truthful
    <2> QED BY <1>1, <2>1, <2>3 DEF Writes
  <1>5. irisFetch(m) # NULL => irisFetch(m) \in Messages /\ msg[irisFetch(m)] = msg[m]
    BY <1>2, Matched DEF Recorded
  <1>6. CASE /\ row[m].state = "awaiting_attestation"
             /\ row' = [row EXCEPT ![m].state = "dead_letter"]
    <2> DEFINE r == [row[m] EXCEPT !.state = "dead_letter"]
    <2>1. row' = [row EXCEPT ![m] = r]
      BY <1>2, <1>6
    <2>2. r \in Row /\ r.state = "dead_letter"
      BY <1>2 DEF Row, States
    <2> HIDE DEF r
    <2>3. Fits(m, r) /\ Truthful(m, r)
      BY <1>2, <1>6, <2>2 DEF Fits, Truthful
    <2> QED BY <1>1, <2>1, <2>3 DEF Writes
  <1> QED BY <1>1, <1>2, <1>3, <1>4, <1>5, <1>6

\* A failure is booked as another attempt, or ends a row that may be given up.
LEMMA Fails ==
  ASSUME Recorded, NEW m \in Messages, row[m] # NULL, row[m].state \in {"attested", "submitted"},
         NEW fault \in BOOLEAN, recordSubmissionFailure(m, fault),
         UNCHANGED <<config, msg, iris, landed>>,
         \/ \E x \in landed : msg[x] = msg[m]
         \/ ~Ours(m) \/ fault
         \/ row[m].attestation = "mock" /\ ops.network # "local"
  PROVE  Writes(m)
  <1>1. row[m] \in Row /\ Fits(m, row[m])
    BY DEF Recorded, Kept, Fits
  <1>2. CASE row[m].attempts = MaxRetries
    <2> DEFINE r == [row[m] EXCEPT !.state = "dead_letter", !.fault = fault]
    <2>1. row' = [row EXCEPT ![m] = r]
      BY <1>2 DEF recordSubmissionFailure
    <2>2. r \in Row /\ r.state = "dead_letter" /\ r.fault = fault
      BY <1>1 DEF Row, States
    <2> HIDE DEF r
    <2>3. Fits(m, r) /\ Truthful(m, r)
      BY <1>1, <2>2 DEF Fits, Truthful
    <2> QED BY <2>1, <2>3 DEF Writes
  <1>3. CASE row[m].attempts # MaxRetries
    <2> DEFINE r == [row[m] EXCEPT !.state = "attested", !.attempts = row[m].attempts + 1,
                                   !.receipt = NULL, !.fault = FALSE]
    <2>0. row[m].attempts + 1 \in Nat
      BY <1>1 DEF Row
    <2>1. row' = [row EXCEPT ![m] = r]
      BY <1>3 DEF recordSubmissionFailure
    <2>2. /\ r \in Row /\ r.state = "attested" /\ r.receipt = NULL
          /\ r.message = row[m].message /\ r.attestation = row[m].attestation
      BY <1>1, <2>0 DEF Row, States
    <2> HIDE DEF r
    <2>3. Fits(m, r) /\ Truthful(m, r)
      BY <1>1, <2>2 DEF Fits, Truthful
    <2> QED BY <2>1, <2>3 DEF Writes
  <1> QED BY <1>2, <1>3

\* A delivery the destination refuses is one it has, one that is not ours to
\* deliver, or one whose attestation is of another network; any other failure is
\* the broadcast's.
LEMMA Delivers ==
  ASSUME Recorded, NEW m \in Messages, tickAttested(m)
  PROVE  Writes(m)
  <1> DEFINE x == row[m].message
             c == chainOf(actor, msg[m].burn.dst)
  <1>1. /\ Up /\ row[m] # NULL /\ row[m].state = "attested"
        /\ UNCHANGED <<config, msg, iris, landed>>
        /\ \/ row' = [row EXCEPT ![m].state = "submitted"]
           \/ x \in landed /\ row' = [row EXCEPT ![m].state = "already_delivered"]
           \/ recordSubmissionFailure(m, TRUE)
           \/ /\ ~submitRelayWithHook(m) /\ ~(c # NULL /\ x \in landed)
              /\ recordSubmissionFailure(m, FALSE)
    BY DEF tickAttested, InState
  <1>2. /\ row[m] \in Row /\ Fits(m, row[m]) /\ row[m].receipt = NULL
        /\ x \in Messages /\ msg[x] = msg[m] /\ row[m].attestation \in {"mock", "iris"}
    BY <1>1 DEF Recorded, Kept, Fits
  <1>3. CASE row' = [row EXCEPT ![m].state = "submitted"]
    <2> DEFINE r == [row[m] EXCEPT !.state = "submitted"]
    <2>1. row' = [row EXCEPT ![m] = r]
      BY <1>3
    <2>2. /\ r \in Row /\ r.state = "submitted" /\ r.receipt = row[m].receipt
          /\ r.message = x /\ r.attestation = row[m].attestation
      BY <1>2 DEF Row, States
    <2> HIDE DEF r
    <2>3. Fits(m, r) /\ Truthful(m, r)
      BY <1>2, <2>2 DEF Fits, Truthful
    <2> QED BY <1>1, <2>1, <2>3 DEF Writes
  <1>4. CASE x \in landed /\ row' = [row EXCEPT ![m].state = "already_delivered"]
    <2> DEFINE r == [row[m] EXCEPT !.state = "already_delivered"]
    <2>1. row' = [row EXCEPT ![m] = r]
      BY <1>4
    <2>2. r \in Row /\ r.state = "already_delivered"
      BY <1>2 DEF Row, States
    <2> HIDE DEF r
    <2>3. Fits(m, r) /\ Truthful(m, r)
      BY <1>2, <1>4, <2>2 DEF Fits, Truthful
    <2> QED BY <1>1, <2>1, <2>3 DEF Writes
  <1>5. CASE /\ ~submitRelayWithHook(m) /\ ~(c # NULL /\ x \in landed)
             /\ recordSubmissionFailure(m, FALSE)
    <2>1. ASSUME Ours(m), ~(row[m].attestation = "mock" /\ ops.network # "local")
          PROVE  FALSE
      <3>1. PICK d \in DOMAIN actor.pool :
              /\ actor.domain[d] = msg[m].burn.dst
              /\ msg[m].burn.caller \in {NULL, actor.hookRouter[d]}
        BY <2>1 DEF Ours
      <3>2. c = d /\ c # NULL
        BY <1>1, <3>1, ChainOf DEF Recorded
      <3>3. accepts(x, row[m].attestation, actor.hookRouter[c])
        BY <1>2, <1>5, <2>1, <3>1, <3>2 DEF accepts
      <3> QED BY <1>5, <3>2, <3>3 DEF submitRelayWithHook
    <2> QED BY <1>1, <1>5, <2>1, Fails
  <1>6. CASE recordSubmissionFailure(m, TRUE)
    BY <1>1, <1>6, Fails
  <1> QED BY <1>1, <1>3, <1>4, <1>5, <1>6

\* A receipt is of a message that was received, by this delivery or before it, or of
\* an execution that failed by itself; a dropped delivery is as if it were not sent.
LEMMA Settles ==
  ASSUME Recorded, NEW m \in Messages, tickSubmitted(m) \/ recoverStuck(m)
  PROVE  Writes(m)
  <1>1. /\ row[m] # NULL /\ row[m].state = "submitted"
        /\ UNCHANGED <<config, msg, iris, landed>>
        /\ \/ /\ row[m].receipt # NULL /\ row[m].receipt = 1
              /\ row' = [row EXCEPT ![m].state = "delivered"]
           \/ /\ row[m].receipt # NULL
              /\ recordSubmissionFailure(m, row[m].fault)
           \/ /\ row[m].receipt = NULL
              /\ row' = [row EXCEPT ![m].state = "attested"]
    BY DEF tickSubmitted, recoverStuck, InState
  <1>2. /\ row[m] \in Row /\ row[m].fault \in BOOLEAN /\ Fits(m, row[m])
        /\ msg[row[m].message] = msg[m]
        /\ row[m].receipt # NULL =>
             row[m].message \in landed \/ (row[m].receipt = 0 /\ row[m].fault)
    BY <1>1 DEF Recorded, Kept, Fits, Row
  <1>3. CASE /\ row[m].receipt # NULL /\ row[m].receipt = 1
             /\ row' = [row EXCEPT ![m].state = "delivered"]
    <2> DEFINE r == [row[m] EXCEPT !.state = "delivered"]
    <2>1. row' = [row EXCEPT ![m] = r]
      BY <1>3
    <2>2. r \in Row /\ r.state = "delivered"
      BY <1>2 DEF Row, States
    <2> HIDE DEF r
    <2>3. row[m].message \in landed
      BY <1>2, <1>3
    <2>4. Fits(m, r) /\ Truthful(m, r)
      BY <1>2, <2>2, <2>3 DEF Fits, Truthful
    <2> QED BY <1>1, <2>1, <2>4 DEF Writes
  <1>4. CASE row[m].receipt # NULL /\ recordSubmissionFailure(m, row[m].fault)
    BY <1>1, <1>2, <1>4, Fails
  <1>5. CASE /\ row[m].receipt = NULL
             /\ row' = [row EXCEPT ![m].state = "attested"]
    <2> DEFINE r == [row[m] EXCEPT !.state = "attested"]
    <2>1. row' = [row EXCEPT ![m] = r]
      BY <1>5
    <2>2. /\ r \in Row /\ r.state = "attested" /\ r.receipt = NULL
          /\ r.message = row[m].message /\ r.attestation = row[m].attestation
      BY <1>2, <1>5 DEF Row, States
    <2> HIDE DEF r
    <2>3. Fits(m, r) /\ Truthful(m, r)
      BY <1>1, <1>2, <2>2 DEF Fits, Truthful
    <2> QED BY <1>1, <2>1, <2>3 DEF Writes
  <1> QED BY <1>1, <1>3, <1>4, <1>5

LEMMA PipelineWrites ==
  ASSUME Recorded, NEW m \in Messages, Pipeline(m) \/ expire(m) \/ recoverStuck(m)
  PROVE  Writes(m)
  BY Claims, Attests, Delivers, Settles DEF Pipeline

LEMMA RecordedWrites ==
  ASSUME Recorded, NEW m \in Messages, Writes(m)
  PROVE  Recorded'
  <1>1. PICK r : row' = [row EXCEPT ![m] = r] /\ Fits(m, r)
    BY DEF Writes
  <1>2. UNCHANGED <<traffic, ops, edits, actor, msg, iris, landed>>
    BY DEF Writes, config
  <1>3. Typed'
    BY <1>1, <1>2 DEF Recorded, Typed, Fits
  <1>4. ASSUME NEW n \in Messages, NEW q, q = row'[n], q # NULL
        PROVE  Fits(n, q)'
    <2>1. Fits(n, q)
      BY <1>1, <1>4 DEF Recorded, Typed, Kept
    <2> QED BY <1>2, <2>1 DEF Fits
  <1>5. Kept'
    BY <1>4 DEF Kept, Fits
  <1>6. InOrder' /\ Booted'
    BY <1>2 DEF Recorded, InOrder, Booted, Up, settings
  <1> QED BY <1>3, <1>5, <1>6 DEF Recorded

\* The operator and the actor's boots leave messages and rows alone.
LEMMA RecordedConfig ==
  ASSUME Recorded, edit \/ main \/ shutdown \/ UNCHANGED vars
  PROVE  Recorded'
  <1>1. UNCHANGED <<msg, iris, row, landed>>
    BY DEF edit, main, shutdown, vars
  <1>2. Typed' /\ InOrder'
    BY <1>1 DEF Recorded, Typed, InOrder
  <1>3. Kept'
    BY <1>1 DEF Recorded, Kept, Fits
  <1>4. Booted'
    <2>1. CASE main
      <3>1. boots(settings) /\ actor' = wiring(settings) /\ UNCHANGED ops
        BY <2>1 DEF main
      <3> QED BY <3>1 DEF Booted, settings
    <2>2. CASE edit
      BY <2>2 DEF edit, Booted, Up
    <2>3. CASE shutdown
      BY <2>3 DEF shutdown, Booted, Up
    <2>4. CASE UNCHANGED vars
      BY <2>4 DEF vars, config, Recorded, Booted, Up, settings
    <2> QED BY <2>1, <2>2, <2>3, <2>4
  <1> QED BY <1>2, <1>3, <1>4 DEF Recorded

\* What a transaction sends is new.
LEMMA RecordedSend ==
  ASSUME Recorded, send
  PROVE  Recorded'
  <1>1. PICK first \in Messages, last \in Messages :
          /\ msg[first] = NULL /\ \A m \in 1 .. first - 1 : msg[m] # NULL
          /\ \E b \in [first .. last -> Burns] :
               /\ \A m \in first .. last : b[m].src = b[first].src
               /\ msg' = [m \in Messages |->
                    IF m \in first .. last THEN [burn |-> b[m], tx |-> first] ELSE msg[m]]
    BY DEF send
  <1>2. PICK b \in [first .. last -> Burns] :
          msg' = [m \in Messages |->
            IF m \in first .. last THEN [burn |-> b[m], tx |-> first] ELSE msg[m]]
    BY <1>1
  <1>3. UNCHANGED <<traffic, ops, edits, actor, iris, row, landed>>
    BY DEF send, config
  <1>4. Messages \subseteq Nat /\ \A m \in Messages : m >= 1
    BY DeploymentAssumption, FS_CardinalityType
  <1>5. \A m \in first .. last : [burn |-> b[m], tx |-> first] \in Message
    BY <1>2 DEF Message
  <1>6. NULL \notin Message
    BY DeploymentAssumption DEF Message
  <1>7. /\ \A m \in Messages : m \in first .. last => msg'[m] \in Message /\ msg'[m] # NULL
        /\ \A m \in Messages : m \notin first .. last => msg'[m] = msg[m]
    BY <1>2, <1>5, <1>6
  <1>8. \A m \in Messages : m \in first .. last => msg[m] = NULL
    BY <1>1, <1>4 DEF Recorded, InOrder
  <1>9. \A m \in Messages : msg[m] # NULL => msg'[m] = msg[m]
    BY <1>7, <1>8
  <1>10. Typed'
    <2>1. msg' \in [Messages -> Message \union {NULL}]
      BY <1>2, <1>5 DEF Recorded, Typed
    <2> QED BY <1>3, <1>9, <2>1 DEF Recorded, Typed
  <1>11. InOrder'
    <2> SUFFICES ASSUME NEW m \in Messages, NEW n \in Messages, msg'[m] = NULL, n > m
                 PROVE  msg'[n] = NULL
      BY DEF InOrder
    <2>1. m \notin first .. last /\ msg[m] = NULL
      BY <1>7
    <2>2. msg[n] = NULL
      BY <2>1 DEF Recorded, InOrder
    <2>3. m \in Nat /\ n \in Nat /\ first \in Nat /\ last \in Nat
      BY <1>4
    <2>4. m >= first
      <3> SUFFICES ASSUME m < first PROVE FALSE
        BY <2>3
      <3>1. m \in 1 .. first - 1
        BY <1>4, <2>3
      <3> QED BY <1>1, <2>1, <3>1
    <2>5. n \notin first .. last
      BY <2>1, <2>3, <2>4
    <2> QED BY <1>7, <2>2, <2>5
  <1>12. Kept'
    <2> SUFFICES ASSUME NEW m \in Messages, row[m] # NULL PROVE Fits(m, row[m])'
      BY <1>3 DEF Kept
    <2>1. Fits(m, row[m])
      BY DEF Recorded, Kept
    <2> QED BY <1>3, <1>9, <2>1 DEF Fits
  <1>13. Booted'
    BY <1>3 DEF Recorded, Booted, Up, settings
  <1> QED BY <1>10, <1>11, <1>12, <1>13 DEF Recorded

\* Iris and the destinations.
LEMMA RecordedOutside ==
  ASSUME Recorded, NEW m \in Messages,
         irisIndexes(m) \/ foreignDelivery(m) \/ mine(m) \/ reverts(m)
  PROVE  Recorded'
  <1>1. UNCHANGED <<traffic, ops, edits, actor, msg>> /\ landed \subseteq landed'
    BY DEF irisIndexes, foreignDelivery, mine, reverts, config
  <1>2. InOrder' /\ Booted'
    BY <1>1 DEF Recorded, InOrder, Booted, Up, settings
  <1>3. CASE irisIndexes(m) \/ foreignDelivery(m)
    <2>1. UNCHANGED row
      BY <1>3 DEF irisIndexes, foreignDelivery
    <2>2. Typed'
      BY <1>1, <1>3, <2>1 DEF Recorded, Typed, irisIndexes, foreignDelivery
    <2>3. Kept'
      BY <1>1, <2>1 DEF Recorded, Kept, Fits
    <2> QED BY <1>2, <2>2, <2>3 DEF Recorded
  <1>4. CASE mine(m) \/ reverts(m)
    <2>0. /\ row[m] # NULL /\ row[m].state = "submitted" /\ UNCHANGED iris
          /\ row[m] \in Row /\ Fits(m, row[m]) /\ row[m].message \in Messages
      BY <1>4 DEF mine, reverts, Recorded, Kept, Fits
    <2>1. PICK v \in {0, 1}, f \in BOOLEAN :
            /\ row' = [row EXCEPT ![m] = [row[m] EXCEPT !.receipt = v, !.fault = f]]
            /\ \/ landed' = landed \union {row[m].message}
               \/ landed' = landed /\ v = 0 /\ f
      <3>1. CASE mine(m)
        <4>1. PICK v \in {0, 1} : v = IF row[m].message \in landed THEN 0 ELSE 1
          OBVIOUS
        <4>2. [row[m] EXCEPT !.receipt = v] = [row[m] EXCEPT !.receipt = v, !.fault = row[m].fault]
          BY <2>0 DEF Row
        <4>3. row[m].fault \in BOOLEAN
          BY <2>0 DEF Row
        <4>4. /\ row' = [row EXCEPT ![m] = [row[m] EXCEPT !.receipt = v]]
              /\ landed' = landed \union {row[m].message}
          BY <3>1, <4>1 DEF mine
        <4> QED BY <4>2, <4>3, <4>4
      <3>2. CASE reverts(m)
        <4>1. /\ row' = [row EXCEPT ![m] = [row[m] EXCEPT !.receipt = 0, !.fault = TRUE]]
              /\ landed' = landed
          BY <3>2 DEF reverts
        <4> QED BY <4>1
      <3> QED BY <1>4, <3>1, <3>2
    <2>2. PICK r, x : /\ r = [row[m] EXCEPT !.receipt = v, !.fault = f]
                      /\ x = row[m].message /\ row' = [row EXCEPT ![m] = r]
      BY <2>1
    <2>3. /\ r \in Row /\ r.state = "submitted" /\ r.message = x
          /\ r.attestation = row[m].attestation /\ r.receipt = v /\ r.fault = f
      BY <2>0, <2>1, <2>2 DEF Row
    <2>4. Fits(m, r)'
      <3>1. x \in landed' \/ (v = 0 /\ f)
        BY <2>1, <2>2
      <3>2. /\ msg[m] # NULL /\ x \in Messages /\ msg[x] = msg[m]
            /\ r.attestation \in {"mock", "iris"}
        BY <2>0, <2>2, <2>3 DEF Fits
      <3> QED BY <1>1, <2>3, <3>1, <3>2 DEF Fits
    <2>5. Typed'
      BY <1>1, <2>0, <2>1, <2>2, <2>3 DEF Recorded, Typed
    <2>6. ASSUME NEW n \in Messages, NEW q, q = row'[n], q # NULL PROVE Fits(n, q)'
      <3>1. CASE n = m
        BY <2>2, <2>4, <2>6, <3>1 DEF Recorded, Typed
      <3>2. CASE n # m
        <4>1. q = row[n] /\ Fits(n, q)
          BY <2>2, <2>6, <3>2 DEF Recorded, Typed, Kept
        <4> QED BY <1>1, <4>1 DEF Fits
      <3> QED BY <3>1, <3>2
    <2>7. Kept'
      BY <2>6 DEF Kept, Fits
    <2> QED BY <1>2, <2>5, <2>7 DEF Recorded
  <1> QED BY <1>3, <1>4

LEMMA RecordedInit == Init => Recorded
  BY DEF Init, Recorded, Typed, InOrder, Kept, Booted, Up

LEMMA RecordedStep == Recorded /\ [Next]_vars => Recorded'
  <1> SUFFICES ASSUME Recorded, [Next]_vars PROVE Recorded'
    OBVIOUS
  <1>1. ASSUME NEW m \in Messages, Pipeline(m) \/ expire(m) \/ recoverStuck(m)
        PROVE  Recorded'
    BY <1>1, PipelineWrites, RecordedWrites
  <1> QED BY <1>1, RecordedConfig, RecordedSend, RecordedOutside DEF Next

\* A row ends in a step of the pipeline, which writes the truth.
LEMMA EndsTruly ==
  ASSUME Recorded, [Next]_vars, NEW m \in Messages, Ended(m)', ~Ended(m)
  PROVE  Truthful(m, row'[m])
  <1>1. row'[m] # row[m] /\ row'[m].state \in Final
    BY DEF Ended
  <1>2. ASSUME NEW n \in Messages, Pipeline(n) \/ expire(n) \/ recoverStuck(n)
        PROVE  Truthful(m, row'[m])
    <2>1. PICK r : row' = [row EXCEPT ![n] = r] /\ Truthful(n, r)
      BY <1>2, PipelineWrites DEF Writes
    <2>2. n = m /\ row'[m] = r
      BY <1>1, <2>1 DEF Recorded, Typed
    <2> QED BY <2>1, <2>2
  <1>3. ASSUME NEW n \in Messages, mine(n) \/ reverts(n) PROVE FALSE
    <2>1. row[n].state = "submitted" /\ n = m
      BY <1>1, <1>3 DEF mine, reverts, Recorded, Typed
    <2>2. row[m] \in Row
      BY <1>3, <2>1 DEF mine, reverts, Recorded, Kept, Fits
    <2>3. row'[m].state = "submitted"
      BY <1>3, <2>1, <2>2 DEF mine, reverts, Recorded, Typed, Row
    <2> QED BY <1>1, <2>3 DEF Final
  <1>4. UNCHANGED row => FALSE
    BY <1>1
  <1> QED BY <1>2, <1>3, <1>4 DEF Next, edit, main, shutdown, send, irisIndexes, foreignDelivery,
       vars

\* For any deployments, edits, boots and messages, a row ends with the truth: what
\* it calls delivered was received, with its bytes and in its transaction, and what
\* it skips is not ours; what it gives up is not ours, is received, holds an
\* attestation of another network, or failed for a reason of its own: it expired
\* before it was attested, or its last attempt did not fail by the message.
THEOREM OutcomesAreTrue == Spec => OutcomeTrue
  <1>1. Recorded /\ [Next]_vars =>
          [\A m \in Messages :
             Ended(m)' /\ ~Ended(m) =>
               LET received_ == \E x \in landed : msg[x] = msg[m]
                   state == row'[m].state
               IN /\ state \in {"delivered", "already_delivered"} => received_
                  /\ state = "dead_letter" =>
                       \/ received_ \/ ~Ours(m)
                       \/ row[m].attestation = "mock" /\ ops.network # "local"
                       \/ row[m].state = "awaiting_attestation" \/ row'[m].fault
                  /\ state = "skipped" => ~Ours(m)]_vars
    BY EndsTruly DEF Truthful
  <1> QED BY <1>1, RecordedInit, RecordedStep, PTL DEF Spec, OutcomeTrue
-----------------------------------------------------------------------------
(* What an accepted request pays.                                          *)

\* f has the sums of the first amounts, up to the n-th.
Sums(f, v, n) == f = [i \in 0..n |-> IF i = 0 THEN 0 ELSE f[i - 1] + v[i]]

\* There is such an f, for otherwise there were a least n without one.
LEMMA SumsExist ==
  ASSUME NEW v, NEW n \in Nat
  PROVE  \E f : Sums(f, v, n)
  <1> DEFINE T == {k \in Nat : ~ \E f : Sums(f, v, k)}
  <1> SUFFICES ASSUME T # {} PROVE FALSE
    OBVIOUS
  <1>1. PICK k \in T : \A j \in T : k =< j
    BY LeastNat
  <1>2. CASE k = 0
    <2>1. Sums([i \in 0..0 |-> 0], v, 0)
      BY DEF Sums
    <2> QED BY <1>2, <2>1
  <1>3. CASE k > 0
    <2>1. PICK f : Sums(f, v, k - 1)
      BY <1>1, <1>3
    <2> DEFINE g == [i \in 0..k |-> IF i = k THEN f[k - 1] + v[k] ELSE f[i]]
    <2>2. ASSUME NEW i \in 0..k PROVE g[i] = IF i = 0 THEN 0 ELSE g[i - 1] + v[i]
      BY <1>3, <2>1 DEF Sums
    <2>3. Sums(g, v, k)
      BY <2>2 DEF Sums
    <2> QED BY <1>1, <2>3
  <1> QED BY <1>1, <1>2, <1>3

LEMMA TotalSums ==
  ASSUME NEW v, Len(v) \in Nat
  PROVE  \E f : Sums(f, v, Len(v)) /\ Total(v) = f[Len(v)]
  <1> DEFINE f == CHOOSE g : g = [i \in 0..Len(v) |-> IF i = 0 THEN 0 ELSE g[i - 1] + v[i]]
  <1>1. \E g : g = [i \in 0..Len(v) |-> IF i = 0 THEN 0 ELSE g[i - 1] + v[i]]
    BY SumsExist DEF Sums
  <1>2. f = [i \in 0..Len(v) |-> IF i = 0 THEN 0 ELSE f[i - 1] + v[i]]
    BY <1>1, Zenon
  <1>3. Total(v) = f[Len(v)]
    BY Zenon DEF Total
  <1> QED BY <1>2, <1>3, Zenon DEF Sums

\* The sum of unsigned amounts is no less than any of them: sums only grow.
LEMMA TotalCovers ==
  ASSUME NEW v \in Seq(Nat)
  PROVE  /\ Total(v) \in Nat
         /\ \A j \in DOMAIN v : Total(v) >= v[j]
         /\ Len(v) = 1 => Total(v) = v[1]
  <1>0. Len(v) \in Nat /\ DOMAIN v = 1..Len(v) /\ \A i \in 1..Len(v) : v[i] \in Nat
    OBVIOUS
  <1>1. PICK f : Sums(f, v, Len(v)) /\ Total(v) = f[Len(v)]
    BY <1>0, TotalSums
  <1>2. f[0] = 0 /\ \A i \in 1..Len(v) : f[i] = f[i - 1] + v[i]
    <2>1. \A i \in 0..Len(v) : f[i] = IF i = 0 THEN 0 ELSE f[i - 1] + v[i]
      <3>1. f = [i \in 0..Len(v) |-> IF i = 0 THEN 0 ELSE f[i - 1] + v[i]]
        BY <1>1 DEF Sums
      <3> QED BY <3>1, Zenon
    <2> QED BY <1>0, <2>1
  <1> DEFINE T == {k \in 0..Len(v) :
                     ~(f[k] \in Nat /\ \A j \in 1..k : f[k] >= v[j])}
  <1>3. T = {}
    <2> SUFFICES ASSUME T # {} PROVE FALSE
      OBVIOUS
    <2>0. T \in SUBSET Nat
      BY <1>0
    <2>1. PICK k \in T : \A j \in T : k =< j
      <3> HIDE DEF T
      <3> QED BY <2>0, LeastNat
    <2>2. k # 0
      BY <1>2, <2>1
    <2>3. k - 1 \in 0..Len(v) /\ k - 1 \notin T
      BY <1>0, <2>0, <2>1, <2>2
    <2>4. f[k - 1] \in Nat /\ \A j \in 1..(k - 1) : f[k - 1] >= v[j]
      BY <2>3
    <2>5. k \in 1..Len(v) /\ f[k] = f[k - 1] + v[k] /\ v[k] \in Nat
      BY <1>0, <1>2, <2>1, <2>2
    <2>6. ASSUME NEW j \in 1..k PROVE f[k] >= v[j]
      <3>1. v[j] \in Nat /\ (j = k \/ j \in 1..(k - 1))
        BY <1>0, <2>5
      <3>2. CASE j = k
        BY <2>4, <2>5, <3>2
      <3>3. CASE j \in 1..(k - 1)
        <4>1. f[k - 1] >= v[j]
          BY <2>4, <3>3
        <4> QED BY <2>4, <2>5, <3>1, <4>1
      <3> QED BY <3>1, <3>2, <3>3
    <2> QED BY <2>1, <2>4, <2>5, <2>6
  <1>4. Len(v) \in 0..Len(v) /\ Len(v) \notin T
    BY <1>0, <1>3
  <1>5. Total(v) \in Nat /\ \A j \in 1..Len(v) : Total(v) >= v[j]
    BY <1>1, <1>4
  <1>6. ASSUME Len(v) = 1 PROVE Total(v) = v[1]
    BY <1>0, <1>1, <1>2, <1>6
  <1> QED BY <1>0, <1>5, <1>6

LEMMA DivNat ==
  ASSUME NEW a \in Nat, NEW b \in Nat \ {0}
  PROVE  /\ a \div b \in Nat
         /\ (a \div b) * b <= a /\ a < (a \div b) * b + b
  OBVIOUS

LEMMA TimesNat == ASSUME NEW a \in Nat, NEW b \in Nat PROVE a * b \in Nat
  OBVIOUS

\* Dividing by what the pool leaves, rounded up.
LEMMA GrossUp ==
  ASSUME NEW net \in Nat
  PROVE  /\ grossUpForShieldFee(net) \in Nat
         /\ net * Bps <= grossUpForShieldFee(net) * (Bps - shieldFeeBps)
  <1> DEFINE d == Bps - shieldFeeBps
             a == net * Bps + d - 1
             v == a \div d
  <1>1. d \in Nat \ {0} /\ net * Bps \in Nat /\ a \in Nat
    BY ShieldFeeAssumption, TimesNat
  <1>2. v \in Nat /\ a < v * d + d
    BY <1>1, DivNat
  <1>3. v * d \in Nat
    BY <1>1, <1>2, TimesNat
  <1>4. net * Bps <= v * d
    BY <1>1, <1>2, <1>3
  <1>5. CASE shieldFeeBps = 0
    <2>1. grossUpForShieldFee(net) = net /\ d = Bps
      BY <1>5, ShieldFeeAssumption DEF grossUpForShieldFee
    <2> QED BY <1>1, <2>1
  <1>6. CASE shieldFeeBps # 0
    BY <1>2, <1>4, <1>6 DEF grossUpForShieldFee
  <1> QED BY <1>5, <1>6

\* What the pool leaves of a note: its share, rounded up.
LEMMA Leaves ==
  ASSUME NEW v \in Nat
  PROVE  /\ Shielded(v) \in Nat
         /\ v * (Bps - shieldFeeBps) <= Shielded(v) * Bps
         /\ Shielded(v) * Bps < v * (Bps - shieldFeeBps) + Bps
  <1> DEFINE f == shieldFeeBps
             w == (v * f) \div Bps
             s == v - w
  <1>1. f \in Nat /\ f < Bps /\ Bps \in Nat \ {0}
    BY ShieldFeeAssumption
  <1>2. v * f \in Nat
    BY <1>1, TimesNat
  <1>3. w \in Nat /\ w * Bps <= v * f /\ v * f < w * Bps + Bps
    BY <1>1, <1>2, DivNat
  <1> HIDE DEF w
  <1>4. v * (Bps - f) = v * Bps - v * f /\ s * Bps = v * Bps - w * Bps /\ s \in Int
    BY <1>1, <1>3
  <1>5. v * (Bps - f) <= s * Bps /\ s * Bps < v * (Bps - f) + Bps
    <2>1. v * Bps \in Int /\ w * Bps \in Int
      BY <1>1, <1>3
    <2> HIDE DEF s
    <2> QED BY <1>1, <1>2, <1>3, <1>4, <2>1
  <1>6. s \in Nat
    <2>1. v * (Bps - f) \in Nat
      BY <1>1, TimesNat
    <2>2. s * Bps >= 0
      BY <1>1, <1>4, <1>5, <2>1
    <2> HIDE DEF s
    <2> QED BY <1>1, <1>4, <2>2
  <1>7. Shielded(v) = s
    BY DEF Shielded, w
  <1> HIDE DEF s
  <1> QED BY <1>5, <1>6, <1>7

\* A larger note leaves no less, and a grossed-up one what it was made from.
LEMMA LeavesMore ==
  ASSUME NEW u \in Nat, NEW v \in Nat, u <= v
  PROVE  Shielded(u) <= Shielded(v)
  <1> DEFINE d == Bps - shieldFeeBps
             a == Shielded(u)
             b == Shielded(v)
  <1>1. d \in Nat /\ Bps \in Nat \ {0}
    BY ShieldFeeAssumption
  <1>2. a \in Nat /\ b \in Nat /\ a * Bps < u * d + Bps /\ v * d <= b * Bps
    BY Leaves
  <1>3. u * d <= v * d /\ u * d \in Nat /\ v * d \in Nat
    BY <1>1, TimesNat
  <1> HIDE DEF a, b, d
  <1>4. (b + 1) * Bps = b * Bps + Bps /\ a * Bps \in Nat /\ b * Bps \in Nat
    BY <1>1, <1>2, TimesNat
  <1>5. a * Bps < (b + 1) * Bps
    BY <1>1, <1>2, <1>3, <1>4
  <1>6. a < b + 1
    BY <1>1, <1>2, <1>5
  <1>7. a <= b
    BY <1>2, <1>6
  <1> QED BY <1>7 DEF a, b

LEMMA LeavesNet ==
  ASSUME NEW net \in Nat
  PROVE  net <= Shielded(grossUpForShieldFee(net))
  <1> DEFINE v == grossUpForShieldFee(net)
             s == Shielded(v)
             d == Bps - shieldFeeBps
  <1>1. v \in Nat /\ net * Bps <= v * d
    BY GrossUp
  <1>2. s \in Nat /\ v * d <= s * Bps
    BY <1>1, Leaves
  <1>3. Bps \in Nat \ {0} /\ d \in Nat
    BY ShieldFeeAssumption
  <1> HIDE DEF v, s, d
  <1>4. net * Bps \in Nat /\ v * d \in Nat /\ s * Bps \in Nat
    BY <1>1, <1>2, <1>3, TimesNat
  <1>5. net * Bps <= s * Bps
    BY <1>1, <1>2, <1>4
  <1>6. net <= s
    BY <1>2, <1>3, <1>5
  <1> QED BY <1>6 DEF s, v

\* The advertised fee is an amount, and what is left of it is due; where no shield fee
\* is taken all of it is.
LEMMA FeeCovers ==
  ASSUME NEW s \in Gasless \union ProofBearing
  PROVE  /\ advertisedFee(s) \in Nat /\ due(s) \in Nat
         /\ s \in Gasless \union {"redeemAndShield"} => Shielded(advertisedFee(s)) >= due(s)
         /\ s \in ProofBearing \ {"redeemAndShield"} => advertisedFee(s) = due(s)
  <1> DEFINE keys == advertisedFeeKeys(s)
             N == {NetFees[k] : k \in keys}
             S == {fees(k) : k \in keys}
  <1>1. N \in SUBSET Nat /\ keys # {} /\ N # {}
    <2>1. \A k \in keys : NetFees[k] \in Nat
      BY FeesAssumption
    <2>2. keys # {}
      BY DEF Gasless, ProofBearing, advertisedFeeKeys
    <2> HIDE DEF keys
    <2> QED BY <2>1, <2>2
  <1>2. Min(N) \in N /\ Min(N) \in Nat
    <2>1. Min(N) \in N
      <3> HIDE DEF N
      <3> QED BY <1>1, LeastIn
    <2> HIDE DEF N
    <2> QED BY <1>1, <2>1
  <1>3. CASE s \in Gasless
    <2>1. PICK k \in SHIELD_FEE_TIERS : keys = {k}
      BY <1>3 DEF Gasless, advertisedFeeKeys, SHIELD_FEE_TIERS
    <2>2. N = {NetFees[k]} /\ S = {grossUpForShieldFee(NetFees[k])} /\ NetFees[k] \in Nat
      BY <1>1, <2>1 DEF fees
    <2>3. grossUpForShieldFee(NetFees[k]) \in Nat
      BY <2>2, GrossUp
    <2>4. Min(N) = NetFees[k] /\ Min(S) = grossUpForShieldFee(NetFees[k])
      <3>1. S \in SUBSET Nat /\ S # {}
        BY <2>2, <2>3
      <3>2. Min(S) \in S
        <4> HIDE DEF S
        <4> QED BY <3>1, LeastIn
      <3> HIDE DEF N, S
      <3> QED BY <1>2, <2>2, <3>2
    <2>5. due(s) = Min(N) /\ advertisedFee(s) = Min(S)
      BY <1>3 DEF due, advertisedFee, Gasless
    <2>6. Shielded(advertisedFee(s)) >= due(s)
      <3>1. Shielded(grossUpForShieldFee(NetFees[k])) \in Nat
        BY <2>3, Leaves
      <3> HIDE DEF N, S
      <3> QED BY <2>2, <2>4, <2>5, <3>1, LeavesNet
    <2>7. s \notin ProofBearing
      BY <1>3 DEF Gasless, ProofBearing
    <2> HIDE DEF N, S
    <2> QED BY <2>2, <2>3, <2>4, <2>5, <2>6, <2>7
  <1>4. CASE s \in ProofBearing
    <2>1. keys \cap SHIELD_FEE_TIERS = {}
      BY <1>4 DEF ProofBearing, advertisedFeeKeys, SHIELD_FEE_TIERS
    <2>2. S = N
      <3> HIDE DEF keys
      <3> QED BY <2>1 DEF fees
    <2>3. advertisedFee(s) = Min(N)
      BY <2>2 DEF advertisedFee
    <2>4. due(s) = IF s = "redeemAndShield" THEN Shielded(Min(N)) ELSE Min(N)
      BY DEF due
    <2>5. Shielded(Min(N)) \in Nat
      BY <1>2, Leaves
    <2>6. s \notin Gasless
      BY <1>4 DEF Gasless, ProofBearing
    <2> HIDE DEF N, S
    <2> QED BY <1>2, <2>3, <2>4, <2>5, <2>6
  <1> QED BY <1>3, <1>4

\* The amounts of a request's notes: what is left of all that are ours, or those of
\* one token.
LEMMA Amounts ==
  ASSUME NEW r \in Requests, NEW token
  PROVE  /\ r.notes \in Seq({r.notes[i] : i \in DOMAIN r.notes})
         /\ Len(r.notes) \in Nat /\ DOMAIN r.notes = 1..Len(r.notes)
         /\ \A i \in DOMAIN r.notes : r.notes[i].value \in Nat /\ amount(r.notes[i]) \in Nat
         /\ [i \in DOMAIN r.notes |-> Shielded(amount(r.notes[i]))] \in Seq(Nat)
         /\ [i \in DOMAIN r.notes |-> IF r.notes[i].token = token THEN amount(r.notes[i]) ELSE 0]
              \in Seq(Nat)
  <1>1. r.notes \in Seq({r.notes[i] : i \in DOMAIN r.notes})
    BY RequestsAssumption
  <1>2. Len(r.notes) \in Nat /\ DOMAIN r.notes = 1..Len(r.notes)
    BY <1>1
  <1>3. \A i \in DOMAIN r.notes : r.notes[i].value \in Nat /\ amount(r.notes[i]) \in Nat
    BY RequestsAssumption DEF amount
  <1>4. \A i \in DOMAIN r.notes : Shielded(amount(r.notes[i])) \in Nat
    BY <1>3, Leaves
  <1> QED BY <1>1, <1>2, <1>3, <1>4

\* What the pool leaves of a note to a key of ours is part of what we receive.
LEMMA NotePays ==
  ASSUME NEW r \in Requests, NEW i \in DOMAIN r.notes, r.notes[i].npk = deriveFeeNoteNpk(r.random),
         NEW fee \in Nat, ~(r.notes[i].value < fee)
  PROVE  /\ Total([j \in DOMAIN r.notes |-> Shielded(amount(r.notes[j]))]) \in Nat
         /\ Total([j \in DOMAIN r.notes |-> Shielded(amount(r.notes[j]))]) >= Shielded(fee)
  <1> DEFINE v == [j \in DOMAIN r.notes |-> Shielded(amount(r.notes[j]))]
  <1>1. v \in Seq(Nat) /\ r.notes[i].value \in Nat /\ DOMAIN v = DOMAIN r.notes
    BY Amounts
  <1>2. v[i] = Shielded(r.notes[i].value)
    BY DEF amount, deriveFeeNoteNpk
  <1>3. Total(v) \in Nat /\ Total(v) >= v[i]
    <2> HIDE DEF v
    <2> QED BY <1>1, TotalCovers
  <1>4. /\ Shielded(fee) <= Shielded(r.notes[i].value)
        /\ Shielded(fee) \in Nat /\ Shielded(r.notes[i].value) \in Nat
    <2>1. fee <= r.notes[i].value
      BY <1>1
    <2> QED BY <1>1, <2>1, Leaves, LeavesMore
  <1> HIDE DEF v
  <1>5. Total(v) >= Shielded(fee)
    BY <1>2, <1>3, <1>4
  <1> QED BY <1>3, <1>5 DEF v

LEMMA GaslessPays ==
  ASSUME NEW w, NEW r \in Requests, r.selector \in Gasless, NEW fee \in Nat,
         verifyGaslessFee(w, r, fee) = "ok", executes(r, w.usdc)
  PROVE  received(r, w.usdc) \in Nat /\ received(r, w.usdc) >= Shielded(fee)
  <1> DEFINE npk == deriveFeeNoteNpk(r.random)
             candidates == IF r.selector = "gaslessShield" THEN DOMAIN r.notes ELSE {2}
             ours == {i \in candidates : r.notes[i].npk = npk}
             value == extractFeeNoteValue(r, npk)
  <1>1. r.decodes /\ value # NULL /\ ~(value < fee)
    BY DEF verifyGaslessFee
  <1>2. ours # {} /\ value = r.notes[Min(ours)].value
    BY <1>1 DEF extractFeeNoteValue
  <1>3. candidates \subseteq DOMAIN r.notes /\ DOMAIN r.notes \in SUBSET Nat
    <2>1. Len(r.notes) \in Nat /\ DOMAIN r.notes = 1..Len(r.notes)
      BY Amounts
    <2>2. r.selector # "gaslessShield" => Len(r.notes) = 2
      BY <1>1, RequestsAssumption DEF Gasless
    <2>3. candidates \subseteq DOMAIN r.notes
      <3>1. CASE r.selector # "gaslessShield"
        <4>1. DOMAIN r.notes = 1..2
          BY <2>1, <2>2, <3>1, Zenon
        <4>2. 2 \in DOMAIN r.notes
          BY <4>1
        <4> QED BY <3>1, <4>2
      <3> QED BY <3>1
    <2> QED BY <2>1, <2>3
  <1>4. Min(ours) \in ours
    <2>1. ours \in SUBSET Nat
      BY <1>3
    <2> HIDE DEF ours
    <2> QED BY <1>2, <2>1, LeastIn
  <1>5. received(r, w.usdc) = Total([i \in DOMAIN r.notes |-> Shielded(amount(r.notes[i]))])
    <2>1. CASE r.selector = "gaslessShield"
      <3> DEFINE usdcOf(n) == IF n.token = w.usdc THEN amount(n) ELSE 0
      <3>1. received(r, w.usdc) = Total([i \in DOMAIN r.notes |-> Shielded(usdcOf(r.notes[i]))])
        BY <2>1 DEF received
      <3>2. \A i \in DOMAIN r.notes : usdcOf(r.notes[i]) = amount(r.notes[i])
        BY <2>1 DEF executes
      <3> HIDE DEF usdcOf
      <3>3. [i \in DOMAIN r.notes |-> Shielded(usdcOf(r.notes[i]))]
              = [i \in DOMAIN r.notes |-> Shielded(amount(r.notes[i]))]
        BY <3>2
      <3> QED BY <3>1, <3>3
    <2>2. CASE r.selector = "gaslessCrossChainShield"
      BY <2>2 DEF received
    <2> QED BY <2>1, <2>2 DEF Gasless
  <1> QED BY <1>1, <1>2, <1>3, <1>4, <1>5, NotePays

LEMMA RedeemPays ==
  ASSUME NEW w, NEW r \in Requests, r.selector = "redeemAndShield", NEW fee \in Nat,
         verifyRedeemFee(r, fee) = "ok"
  PROVE  received(r, w.usdc) \in Nat /\ received(r, w.usdc) >= Shielded(fee)
  <1>1. r.decodes /\ ~(r.notes[2].value < fee) /\ r.notes[2].npk = deriveFeeNoteNpk(r.random)
    BY DEF verifyRedeemFee
  <1>2. 2 \in DOMAIN r.notes
    <2>1. Len(r.notes) = 2 /\ DOMAIN r.notes = 1..Len(r.notes)
      BY <1>1, Amounts, RequestsAssumption
    <2> QED BY <2>1
  <1>3. received(r, w.usdc) = Total([i \in DOMAIN r.notes |-> Shielded(amount(r.notes[i]))])
    BY DEF received
  <1> QED BY <1>1, <1>2, <1>3, NotePays

LEMMA BroadcasterPays ==
  ASSUME NEW w, NEW r \in Requests, r.selector \in {"transact"} \union WRAPPER_SELECTORS,
         NEW fee \in Nat, verifyBroadcasterFee(w, r, fee) = "ok"
  PROVE  received(r, w.usdc) >= fee
  <1> DEFINE notes == normaliseRequestToVanillaTransact(r)
             paid == extractFirstNoteERC20AmountMap(notes, w.usdc)
  <1>1. r.decodes /\ ~(paid < fee)
    BY DEF verifyBroadcasterFee
  <1>2. CASE r.selector = "transact"
    <2> DEFINE v == [i \in DOMAIN r.notes |->
                       IF r.notes[i].token = w.usdc THEN amount(r.notes[i]) ELSE 0]
    <2>1. paid = Total(v) /\ received(r, w.usdc) = Total(v)
      BY <1>2 DEF normaliseRequestToVanillaTransact, extractFirstNoteERC20AmountMap, received, Gasless
    <2>2. v \in Seq(Nat)
      BY Amounts
    <2>3. Total(v) \in Nat
      <3> HIDE DEF v
      <3> QED BY <2>2, TotalCovers
    <2> QED BY <1>1, <2>1, <2>3
  <1>3. CASE r.selector \in WRAPPER_SELECTORS
    <2>1. r.notes # <<>> /\ 1 \in DOMAIN r.notes
      <3>1. Len(r.notes) >= 1 /\ Len(r.notes) \in Nat /\ DOMAIN r.notes = 1..Len(r.notes)
        BY <1>1, <1>3, Amounts, RequestsAssumption
      <3> QED BY <3>1
    <2> DEFINE n == r.notes[1]
               a == IF n.token = w.usdc THEN amount(n) ELSE 0
               v == [i \in DOMAIN <<n>> |->
                       IF <<n>>[i].token = w.usdc THEN amount(<<n>>[i]) ELSE 0]
    <2>2. a \in Nat
      BY <2>1, Amounts
    <2>3. notes = <<n>>
      BY <1>3, <2>1 DEF normaliseRequestToVanillaTransact, WRAPPER_SELECTORS
    <2>4. paid = Total(v)
      BY <2>3 DEF extractFirstNoteERC20AmountMap
    <2>5. v \in Seq(Nat) /\ Len(v) = 1 /\ v[1] = a
      <3>1. DOMAIN <<n>> = 1..1 /\ <<n>>[1] = n
        OBVIOUS
      <3>2. \A i \in 1..1 : i = 1
        OBVIOUS
      <3> HIDE DEF n
      <3>3. v = [i \in 1..1 |-> a]
        BY <3>1, <3>2
      <3> HIDE DEF a, v
      <3> QED BY <2>2, <3>3
    <2>6. Total(v) = a
      <3> HIDE DEF a, v
      <3> QED BY <2>5, TotalCovers
    <2>7. received(r, w.usdc) = a
      BY <1>3 DEF received, WRAPPER_SELECTORS, Gasless
    <2> QED BY <1>1, <2>2, <2>4, <2>6, <2>7
  <1> QED BY <1>2, <1>3

LEMMA PipelinePays ==
  ASSUME NEW w, NEW r \in Requests, pipeline(w, r) = "ok", executes(r, w.usdc)
  PROVE  received(r, w.usdc) >= due(r.selector)
  <1> DEFINE fee == advertisedFee(r.selector)
  <1>1. r.selector \in Gasless \union ProofBearing /\ verifyFee(w, r) = "ok"
    BY DEF pipeline
  <1>2. /\ fee \in Nat /\ due(r.selector) \in Nat
        /\ r.selector \in Gasless \union {"redeemAndShield"} => Shielded(fee) >= due(r.selector)
        /\ r.selector \in ProofBearing \ {"redeemAndShield"} => fee = due(r.selector)
    BY <1>1, FeeCovers
  <1>3. Shielded(fee) \in Nat
    BY <1>2, Leaves
  <1>4. CASE r.selector \in Gasless
    <2>1. verifyGaslessFee(w, r, fee) = "ok"
      BY <1>1, <1>4 DEF verifyFee, Gasless
    <2> HIDE DEF fee
    <2>2. received(r, w.usdc) \in Nat /\ received(r, w.usdc) >= Shielded(fee)
      BY <1>2, <1>4, <2>1, GaslessPays
    <2> QED BY <1>2, <1>3, <1>4, <2>2
  <1>5. CASE r.selector = "redeemAndShield"
    <2>1. verifyRedeemFee(r, fee) = "ok"
      BY <1>1, <1>5 DEF verifyFee, Gasless
    <2> HIDE DEF fee
    <2>2. received(r, w.usdc) \in Nat /\ received(r, w.usdc) >= Shielded(fee)
      BY <1>2, <1>5, <2>1, RedeemPays
    <2> QED BY <1>2, <1>3, <1>5, <2>2
  <1>6. CASE r.selector \in ProofBearing \ {"redeemAndShield"}
    <2>1. verifyBroadcasterFee(w, r, fee) = "ok"
      BY <1>1, <1>6 DEF verifyFee, Gasless, ProofBearing
    <2>2. r.selector \in {"transact"} \union WRAPPER_SELECTORS
      BY <1>6 DEF ProofBearing, WRAPPER_SELECTORS
    <2> HIDE DEF fee
    <2>3. received(r, w.usdc) >= fee
      BY <1>2, <2>1, <2>2, BroadcasterPays
    <2> QED BY <1>2, <1>6, <2>3
  <1> QED BY <1>1, <1>4, <1>5, <1>6

\* Whatever the wiring, the fees, the rate of the pool and the notes of a request, of
\* which there may be any number: a request the pipeline accepts and its target
\* executes leaves the relayer, after the pool's fee, what the gas was computed to
\* cost.
THEOREM AcceptedAlwaysPays == Spec => []AcceptedIsPaid
  <1>1. AcceptedIsPaid
    BY PipelinePays DEF AcceptedIsPaid
  <1> QED BY <1>1, PTL
=============================================================================
