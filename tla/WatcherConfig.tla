---------------------------- MODULE WatcherConfig ----------------------------
(***************************************************************************)
(* The watcher's own reading of the same settings (lib/manifests.ts and    *)
(* ponder.config.ts): a second loader of the files RelayerConfig reads,    *)
(* with fewer checks, in another package.                                  *)
(***************************************************************************)
EXTENDS Naturals

CONSTANTS Hub, NULL, Malformed

networkName(o) == o.network \in {"local", "sepolia", "mainnet"}

loadTopologyFile(o) == o.dir.topology[o.network]

raws(o) == loadTopologyFile(o).chains

rawNetwork(o) ==
  networkName(o) /\ loadTopologyFile(o) # NULL /\ Hub \in DOMAIN raws(o)

\* The nominal block time is not read.
toWatcherChain(raw) == raw.wellFormed

selectClients(o) ==
  o.enabled # NULL => o.enabled # {} /\ o.enabled \subseteq DOMAIN raws(o) \ {Hub}

chains(o) == {Hub} \union (IF o.enabled = NULL THEN DOMAIN raws(o) ELSE o.enabled)

topologyChains(o) ==
  /\ rawNetwork(o)
  /\ \A c \in DOMAIN raws(o) : toWatcherChain(raws(o)[c])
  /\ selectClients(o)

\* Mutant: the registry is not known to the watcher.
resolveSource_Flat(o) == "flat"

resolveSource(o) ==
  IF ~o.instance THEN "flat"
  ELSE IF o.environment # NULL THEN o.environment
  ELSE CASE o.network = "sepolia" -> "testnet"
         [] o.network = "mainnet" -> "mainnet"
         [] OTHER -> NULL

registryManifestPath(index, raw, role) ==
  LET slugs == {s \in DOMAIN index : index[s].chainId = raw.chainId}
      first == CHOOSE s \in slugs : TRUE
  IN IF slugs = {} \/ index[first].role # role THEN NULL ELSE index[first].manifest

manifestFile(o, c) == o.dir.flat[o.network][c]

manifest(o, c) ==
  LET source == resolveSource(o)
  IN IF source = "flat" THEN manifestFile(o, c)
     ELSE IF o.dir.registry[source] = NULL THEN NULL
     ELSE registryManifestPath(o.dir.registry[source], raws(o)[c],
                               IF c = Hub THEN "hub" ELSE "client")

\* Of the addresses, only the pool and the transmitter are checked.
resolves(m, raw) ==
  /\ m # NULL
  /\ m.chainId = raw.chainId /\ m.domain = raw.domain
  /\ m.pool \notin {NULL, Malformed} /\ m.messageTransmitter \notin {NULL, Malformed}

resolveChains(o) ==
  /\ topologyChains(o) /\ resolveSource(o) # NULL
  /\ \A c \in chains(o) : o.rpc[c] > 0 /\ resolves(manifest(o, c), raws(o)[c])

hubDomain(o) == raws(o)[Hub].domain

\* A malformed router leaves MessageReceived unfiltered.
hookRouterAddress(m) == IF m.hookRouter = Malformed THEN NULL ELSE m.hookRouter

messageTransmitterChain(m) ==
  [address |-> m.messageTransmitter, caller |-> hookRouterAddress(m)]

protocolAddressAllowlist(m) ==
  {m.pool, m.wrapper, m.hookRouter, m.tokenMessenger, m.messageTransmitter, m.usdc} \ {NULL}

\* What ponder.config.ts needs besides the chains.
settings(o) == o.unusable \intersect {"WATCHER_MODE", "CCTP_START_BLOCK", "MAX_RPS"} = {}

createConfig(o) == resolveChains(o) /\ settings(o)
=============================================================================
