---------------------------- MODULE MC_Deployment ----------------------------
(* Instances of Deployment for TLC: a hub with two clients, on the test network *)
(* from a registry and locally from flat files.                                 *)
EXTENDS Deployment, TLC

\* Explicit functions, which TLC evaluates once.
PerChain(F(_)) == [hub |-> F("hub"), a |-> F("a"), b |-> F("b")]

Address(kind, c) == [kind |-> kind, chain |-> c]

Number == [hub |-> 0, a |-> 1, b |-> 2]

\* The registry has a router of its own on each chain, the flat files another one.
Manifest(c, router) ==
  [chainId |-> Number[c], domain |-> Number[c], deployBlock |-> NULL,
   pool |-> Address("pool", c), wrapper |-> Address("wrapper", c),
   tokenMessenger |-> Address("messenger", c), messageTransmitter |-> Address("transmitter", c),
   usdc |-> Address("usdc", c), hookRouter |-> Address(router, c)]

Entry(c) == [chainId |-> Number[c], domain |-> Number[c], wellFormed |-> TRUE, blockTime |-> TRUE]

Index == PerChain(LAMBDA c :
  [chainId |-> Number[c], role |-> role(c), manifest |-> Manifest(c, "router")])

Dir ==
  [topology |-> [local |-> [iris |-> NULL, chains |-> PerChain(Entry)],
                 sepolia |-> [iris |-> "iris", chains |-> PerChain(Entry)],
                 mainnet |-> NULL],
   flat |-> LET files == PerChain(LAMBDA c : Manifest(c, "oldRouter"))
            IN [local |-> files, sepolia |-> files, mainnet |-> files],
   registry |-> [testnet |-> Index, mainnet |-> NULL],
   yield |-> [flat |-> NULL, registry |-> Address("adapter", Hub)]]

WrongManifests(m) ==
  << NULL, [m EXCEPT !.chainId = 9], [m EXCEPT !.domain = 9], [m EXCEPT !.pool = Malformed],
     [m EXCEPT !.usdc = NULL], [m EXCEPT !.messageTransmitter = Malformed],
     [m EXCEPT !.hookRouter = NULL], [m EXCEPT !.hookRouter = Malformed],
     [m EXCEPT !.wrapper = NULL], [m EXCEPT !.deployBlock = Malformed] >>

WrongEntries(e) ==
  << [e EXCEPT !.wellFormed = FALSE], [e EXCEPT !.blockTime = FALSE],
     [e EXCEPT !.domain = 2], [e EXCEPT !.chainId = 2] >>

Each(s, F(_)) == [i \in DOMAIN s |-> F(s[i])]

\* 1: the published files; 2: a new router on a client; then one file wrong.
MCDeployments ==
  << Dir,
     [Dir EXCEPT !.registry["testnet"]["a"].manifest.hookRouter = Address("newRouter", "a")],
     [Dir EXCEPT !.topology["sepolia"] = NULL],
     [Dir EXCEPT !.topology["sepolia"].iris = NULL],
     [Dir EXCEPT !.topology["sepolia"].chains = [a |-> Entry("a"), b |-> Entry("b")]],
     [Dir EXCEPT !.yield.registry = NULL],
     [Dir EXCEPT !.yield.flat = Malformed],
     [Dir EXCEPT !.registry["testnet"] = NULL],
     [Dir EXCEPT !.registry["testnet"]["a"].role = "hub"],
     [Dir EXCEPT !.registry["testnet"]["a"].chainId = 7] >>
  \o Each(WrongEntries(Entry("a")), LAMBDA e : [Dir EXCEPT !.topology["sepolia"].chains["a"] = e])
  \o Each(WrongManifests(Manifest("a", "oldRouter")),
          LAMBDA m : [Dir EXCEPT !.flat["sepolia"]["a"] = m])
  \o Each(WrongManifests(Manifest("a", "router")),
          LAMBDA m : [Dir EXCEPT !.registry["testnet"]["a"].manifest = m])

MCBases ==
  {[network |-> "sepolia", enabled |-> NULL, cctpMode |-> NULL, irisApi |-> NULL,
    instance |-> TRUE, environment |-> NULL, broadcaster |-> NULL,
    relayerKey |-> "key", deployerKey |-> NULL, unusable |-> {},
    rpc |-> PerChain(LAMBDA c : 2), dir |-> 1]}

EnvEdits(o) ==
  {[o EXCEPT !.network = n] : n \in {"local", "mainnet", "goerli"}} \union
  {[o EXCEPT !.enabled = e] : e \in {{}, {"a"}, {"b", "z"}}} \union
  {[o EXCEPT !.cctpMode = m] : m \in {"", "mock", "real"}} \union
  {[o EXCEPT !.irisApi = u] : u \in {"", "url"}} \union
  {[o EXCEPT !.instance = ~@]} \union
  {[o EXCEPT !.environment = e] : e \in {"testnet", "mainnet"}} \union
  {[o EXCEPT !.broadcaster = b] : b \in {"own", "other"}} \union
  {[o EXCEPT !.relayerKey = ""], [o EXCEPT !.deployerKey = ""]} \union
  {[o EXCEPT !.unusable = @ \union {u}] :
     u \in {"DATABASE_URL", "ETH_USD_FEED_ADDRESS", "ETH_USD_PRICE_STATIC", "FEE_TTL_SECONDS",
            "RELAYER_RAILGUN_MNEMONIC", "WATCHER_MODE"}} \union
  {[o EXCEPT !.rpc["a"] = 0]} \union
  {[o EXCEPT !.dir = d] : d \in DOMAIN Deployments}

\* With traffic: a client is disabled, its router is replaced, or the mode is changed.
TrafficEdits(o) ==
  IF o.cctpMode # NULL THEN {[o EXCEPT !.cctpMode = NULL]}
  ELSE {[o EXCEPT !.enabled = e] : e \in {NULL, {"b"}}} \union
       {[o EXCEPT !.dir = d] : d \in {1, 2}} \union
       IF o \in Bases THEN {[o EXCEPT !.cctpMode = "mock"]} ELSE {}

MCEdits(o, busy) == (IF busy THEN TrafficEdits(o) ELSE EnvEdits(o)) \ {o}

Burn(to, at, caller) ==
  [src |-> Number[Hub], dst |-> Number[to], recipient |-> Address("pool", at),
   caller |-> caller, shape |-> "burn"]

\* Through the router of a client, from anyone to the other, and one to the pool of
\* another chain that only another may deliver.
MCBurns ==
  { Burn("a", "a", Address("router", "a")), Burn("b", "b", NULL),
    Burn("a", "b", Address("other", "a")) }
-----------------------------------------------------------------------------
MCNetFees == [transfer |-> 1, unshield |-> 2, crossContract |-> 10, crossChainShield |-> 4,
              crossChainUnshield |-> 5, shield |-> 9, shieldXchain |-> 18]

Note(owner, token, value) ==
  [npk |-> [owner |-> owner, random |-> 1], token |-> token, value |-> value]

Targets == {<<Hub, Address("pool", Hub)>>, <<Hub, Address("wrapper", Hub)>>,
            <<Hub, Address("adapter", Hub)>>, <<"a", Address("wrapper", "a")>>,
            <<"a", Address("pool", Hub)>>}

Notes(fee) ==
  LET usdc == Address("usdc", Hub)
  IN {Note("user", usdc, fee), Note("relayer", usdc, fee - 1), Note("relayer", usdc, fee),
      Note("relayer", Address("usdc", "a"), fee)}

Request(t, selector, random, notes) ==
  [chain |-> t[1], to |-> t[2], quote |-> t[1], selector |-> selector,
   decodes |-> TRUE, random |-> random, notes |-> notes]

WellFormed ==
  UNION {{Request(t, s, n, <<x, y>>) : t \in Targets, n \in {1, 2},
            x \in Notes(advertisedFee(s)), y \in Notes(advertisedFee(s))}
         : s \in Gasless \union ProofBearing}

\* A request with everything paid, and one thing wrong.
Paying ==
  {Request(t, s, 1, <<Note("relayer", Address("usdc", Hub), 30),
                     Note("relayer", Address("usdc", Hub), 30)>>)
     : t \in Targets, s \in Gasless \union ProofBearing}

MCRequests ==
  WellFormed \union
  UNION {{[r EXCEPT !.decodes = FALSE], [r EXCEPT !.random = NULL], [r EXCEPT !.random = Malformed],
          [r EXCEPT !.quote = NULL], [r EXCEPT !.chain = "z"], [r EXCEPT !.selector = NULL]}
         : r \in Paying}
=============================================================================
