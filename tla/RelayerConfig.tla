---------------------------- MODULE RelayerConfig ----------------------------
(***************************************************************************)
(* The actor's configuration (config/networks.ts, env.ts, manifests.ts and *)
(* the checks of the wallets): which settings of the operator a boot       *)
(* accepts, and what main wires from them.                                 *)
(*                                                                         *)
(* The operator's settings o are a record:                                 *)
(*   network      NETWORK                                                  *)
(*   enabled      ENABLED_CLIENTS as a set of names, or NULL: unset        *)
(*   cctpMode, irisApi, environment, broadcaster, relayerKey, deployerKey  *)
(*                variables of the environment, or NULL: unset             *)
(*   instance     whether DEPLOYMENT_INSTANCE is set                       *)
(*   unusable     the other variables that are missing or ill-formed       *)
(*   rpc          chain -> how many RPC URLs its variable or default lists *)
(*   dir          the files of the deployments directory:                  *)
(*     topology   network -> its entry of topology.json, or NULL           *)
(*     flat       network -> chain -> manifest, or NULL: no file           *)
(*     registry   environment -> the instance's index, or NULL             *)
(*     yield      source kind -> adapter address, NULL or Malformed        *)
(* A chain is named after itself in every file. An address is a record, or *)
(* NULL where the field is missing, or Malformed.                          *)
(***************************************************************************)
EXTENDS Naturals, FiniteSets

CONSTANTS Hub, NULL, Malformed

isAddress(a) == a \notin {NULL, Malformed}

isInjective(f) == \A c, d \in DOMAIN f : f[c] = f[d] => c = d
-----------------------------------------------------------------------------
(* networks.ts *)

NETWORKS == {"local", "sepolia", "mainnet"}

networkName(o) == o.network \in NETWORKS

loadTopologyFile(o) == o.dir.topology[o.network]

entries(o) == loadTopologyFile(o).chains

\* Every field of an entry of topology.json, the nominal block time included.
toChain(raw) == raw.wellFormed /\ raw.blockTime

\* All the clients are read, the ones ENABLED_CLIENTS leaves out too; each has a name.
buildNetworkTopology(o) ==
  /\ loadTopologyFile(o) # NULL
  /\ Hub \in DOMAIN entries(o) /\ NULL \notin DOMAIN entries(o)
  /\ \A c \in DOMAIN entries(o) : toChain(entries(o)[c])

enabledClients(o) == IF o.enabled = NULL THEN DOMAIN entries(o) \ {Hub} ELSE o.enabled

selectClients(o) ==
  o.enabled # NULL => o.enabled # {} /\ o.enabled \subseteq DOMAIN entries(o) \ {Hub}

getTopology(o) == networkName(o) /\ buildNetworkTopology(o) /\ selectClients(o)

allChains(o) == {Hub} \union enabledClients(o)

assertDomainPairing(o) ==
  /\ isInjective([c \in allChains(o) |-> entries(o)[c].domain])
  /\ isInjective([c \in allChains(o) |-> entries(o)[c].chainId])
  /\ o.network # "local" => entries(o)[Hub].domain = 0 /\ loadTopologyFile(o).iris # NULL
-----------------------------------------------------------------------------
(* env.ts *)

cctpMode(o) ==
  IF o.cctpMode # NULL THEN o.cctpMode ELSE IF o.network = "local" THEN "mock" ELSE "real"

irisBaseUrl(o) == IF o.irisApi # NULL THEN o.irisApi ELSE loadTopologyFile(o).iris

\* An empty string is not an unset variable here.
attestationSettings(o) ==
  /\ cctpMode(o) \in {"mock", "real"}
  /\ ~(o.network = "mainnet" /\ cctpMode(o) = "mock")
  /\ cctpMode(o) = "real" => irisBaseUrl(o) \notin {NULL, ""}

rpcUrls(o) == \A c \in allChains(o) : o.rpc[c] > 0

requiredSettings(o) ==
  /\ "DATABASE_URL" \notin o.unusable
  /\ o.network # "local" => "ETH_USD_FEED_ADDRESS" \notin o.unusable
  /\ "ETH_USD_PRICE_STATIC" \notin o.unusable

Numbers == {"RELAYER_PORT", "FEE_TTL_SECONDS", "WORK_POLL_INTERVAL_MS",
            "RELAYER_STUCK_TX_THRESHOLD_MS", "RELAYER_ATTESTATION_AGE_MS"}

\* One that is set, and no number or below its minimum.
num(o) == o.unusable \intersect Numbers = {}

REGISTRY_ENVIRONMENT == [local |-> NULL, sepolia |-> "testnet", mainnet |-> "mainnet"]

\* "flat", an environment of the registry, or NULL: the boot fails.
resolveDeploymentSource(o) ==
  IF ~o.instance THEN "flat"
  ELSE IF o.environment # NULL THEN o.environment ELSE REGISTRY_ENVIRONMENT[o.network]
-----------------------------------------------------------------------------
(* manifests.ts *)

\* The index is searched by chain id, whatever the slug; the role must agree.
registryManifest(index, raw, role) ==
  LET slugs == {s \in DOMAIN index : index[s].chainId = raw.chainId}
      first == CHOOSE s \in slugs : TRUE
  IN IF slugs = {} \/ index[first].role # role THEN NULL ELSE index[first].manifest

role(c) == IF c = Hub THEN "hub" ELSE "client"

manifestOf(o, source, c) ==
  IF source = "flat" THEN o.dir.flat[o.network][c]
  ELSE IF o.dir.registry[source] = NULL THEN NULL
  ELSE registryManifest(o.dir.registry[source], entries(o)[c], role(c))

validateManifest(m, raw) ==
  /\ m.chainId = raw.chainId /\ m.domain = raw.domain /\ m.deployBlock # Malformed
  /\ isAddress(m.pool)
  /\ isAddress(m.tokenMessenger) /\ isAddress(m.messageTransmitter) /\ isAddress(m.usdc)
  /\ m.hookRouter # NULL => isAddress(m.hookRouter)

loadAllManifests(o, source) ==
  \A c \in allChains(o) :
    LET m == manifestOf(o, source, c) IN m # NULL /\ validateManifest(m, entries(o)[c])

sourceKind(source) == IF source = "flat" THEN "flat" ELSE "registry"

\* The file may be absent, but not unparseable.
loadYieldManifest(o, source) == o.dir.yield[sourceKind(source)] # Malformed

buildConfig(o) ==
  /\ getTopology(o) /\ assertDomainPairing(o)
  /\ attestationSettings(o) /\ rpcUrls(o) /\ requiredSettings(o)
  /\ LET source == resolveDeploymentSource(o)
     IN source # NULL /\ loadAllManifests(o, source) /\ loadYieldManifest(o, source)
  /\ num(o)
-----------------------------------------------------------------------------
(* The wallets, and what main wires. *)

\* An empty deployer key hides the local one.
resolvePrivateKey(o) ==
  \/ o.relayerKey \notin {NULL, ""}
  \/ IF o.deployerKey # NULL THEN o.deployerKey # "" ELSE o.network = "local"

\* The address derived from the mnemonic must be the published one, if one is set.
bootRailgunWallet(o) ==
  "RELAYER_RAILGUN_MNEMONIC" \notin o.unusable /\ o.broadcaster \in {NULL, "", "own"}

boots(o) == buildConfig(o) /\ resolvePrivateKey(o) /\ bootRailgunWallet(o)

poolAddress(m) == m.pool

\* The wrapper and the adapter are not validated: an absent one is left out.
allowedTargets(o, source, c) ==
  LET m == manifestOf(o, source, c)
      adapter == o.dir.yield[sourceKind(source)]
  IN {poolAddress(m)} \union ({m.wrapper} \ {NULL})
       \union (IF c = Hub THEN {adapter} \ {NULL} ELSE {})

wiring(o) ==
  LET source == resolveDeploymentSource(o)
      manifest == [c \in allChains(o) |-> manifestOf(o, source, c)]
      of(f(_)) == [c \in allChains(o) |-> f(manifest[c])]
  IN [mode        |-> cctpMode(o),
      domain      |-> of(LAMBDA m : m.domain),
      pool        |-> of(poolAddress),
      transmitter |-> of(LAMBDA m : m.messageTransmitter),
      hookRouter  |-> of(LAMBDA m : m.hookRouter),
      wrapper     |-> of(LAMBDA m : m.wrapper),
      targets     |-> [c \in allChains(o) |-> allowedTargets(o, source, c)],
      usdc        |-> manifest[Hub].usdc]

\* The chain a CCTP domain is served by, or NULL.
chainOf(w, domain) ==
  LET served == {c \in DOMAIN w.domain : w.domain[c] = domain}
  IN IF served = {} THEN NULL ELSE CHOOSE c \in served : TRUE

knownRecipients(w) == {w.pool[c] : c \in DOMAIN w.pool}

hookRouterByDomain(w, domain) ==
  LET c == chainOf(w, domain) IN IF c = NULL THEN NULL ELSE w.hookRouter[c]
=============================================================================
