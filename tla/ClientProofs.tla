----------------------------- MODULE ClientProofs -----------------------------
(***************************************************************************)
(* Theorems about the app, for any number of overlapping calls, key pairs  *)
(* and nodes.                                                              *)
(***************************************************************************)
EXTENDS Client, TLAPS

(***************************************************************************)
(* The invariant.  Until the public key is stored only one call of connect *)
(* can be running, and nothing else: the screen says "connecting" all the  *)
(* while.  So nobody overwrites the private key between the two writes of  *)
(* a pair, and from then on the keychain does not change.  What is kept of *)
(* the pair, in a call, in the plugin's config and in the tunnel, agrees.  *)
(***************************************************************************)
FirstPair ==
  pub = None =>
    /\ conf = None /\ tunnel = None /\ status # "connected"
    /\ \A f \in Flows :
         flow[f] # Idle =>
           /\ flow[f].at \in {"readPub", "writePriv", "writePub"}
           /\ status = "connecting"
           /\ \A g \in Flows : flow[g] # Idle => g = f

OwnKey(c) == c.priv = c.lease.key

FlowKeys(f) ==
  /\ flow[f].at \in {"writePriv", "writePub"} => pub = None
  /\ flow[f].at = "writePub" => priv = flow[f].key
  /\ flow[f].at \in {"api", "readPriv"} => pub = flow[f].lease.key
  /\ flow[f].at \in {"setConfig", "up", "raised"} => OwnKey(flow[f].config)
  /\ flow[f].at = "up" => conf # None

IInv ==
  /\ TypeOK
  /\ PairStored /\ OwnKeyTunnel /\ NeverStuck
  /\ FirstPair
  /\ conf # None => OwnKey(conf)
  /\ \A f \in Flows : FlowKeys(f)

-----------------------------------------------------------------------------
(* What the types say of a call.                                            *)
LEMMA FlowFields ==
  ASSUME TypeOK, NEW f \in Flows
  PROVE  /\ flow[f] = Idle <=> flow[f].at = "idle"
         /\ flow[f].at \in {"writePriv", "writePub"} =>
              flow[f] = [at |-> flow[f].at, key |-> flow[f].key] /\ flow[f].key \in Keys
         /\ flow[f].at \in {"api", "readPriv"} =>
              flow[f].lease \in Lease /\ flow[f].lease.key \in Keys
         /\ flow[f].at \in {"setConfig", "up", "raised"} =>
              /\ flow[f] = [at |-> flow[f].at, config |-> flow[f].config]
              /\ flow[f].config \in Config
         /\ Disconnecting(f) =>
              flow[f] = [at |-> flow[f].at, to |-> flow[f].to] /\ flow[f].to \in BOOLEAN
<1>1. flow[f] \in Flow
  BY DEF TypeOK
<1> QED
  BY <1>1 DEF Flow, Idle, Config, Lease, Disconnecting

(* The app starts with no pair, no call and no tunnel.                      *)
LEMMA Started == Init => IInv
<1> SUFFICES ASSUME Init PROVE IInv
  OBVIOUS
<1>1. TypeOK
  <2>1. flow \in [Flows -> Flow]
    BY DEF Init, Flow
  <2> QED
    BY <2>1, NodeAssumption DEF Init, TypeOK
<1>2. \A f \in Flows : flow[f] = Idle /\ flow[f].at = "idle"
  BY DEF Init, Idle
<1>3. FirstPair /\ \A f \in Flows : FlowKeys(f)
  BY <1>2 DEF Init, FirstPair, FlowKeys
<1> QED
  BY <1>1, <1>3 DEF Init, IInv, PairStored, OwnKeyTunnel, NeverStuck

-----------------------------------------------------------------------------
(* Steps of a call, by what they keep.                                      *)

(* A press can only be the first call while there is no pair.               *)
LEMMA PressStep ==
  ASSUME IInv, NEW f \in Flows, Press(f) PROVE IInv'
<1>1. flow' = [flow EXCEPT ![f] = [at |-> "readPub"]] /\ status' = "connecting"
  BY DEF Press, Goes
<1>2. TypeOK'
  BY <1>1 DEF IInv, TypeOK, Press, keychain, plugin, Flow
<1>3. FirstPair'
  BY <1>1 DEF IInv, TypeOK, FirstPair, Press, keychain, plugin, Idle
<1>4. NeverStuck'
  BY <1>1 DEF IInv, TypeOK, NeverStuck, Connecting, Disconnecting, Idle
<1>5. \A g \in Flows : FlowKeys(g)'
  BY <1>1 DEF IInv, TypeOK, FlowKeys, Press, keychain, plugin, OwnKey
<1> QED
  BY <1>1, <1>2, <1>3, <1>4, <1>5
  DEF IInv, PairStored, OwnKeyTunnel, Press, keychain, plugin, OwnKey

(* The switch starts a disconnect only of a tunnel that is there.           *)
LEMMA ToggleStep ==
  ASSUME IInv, NEW f \in Flows, Toggle(f) PROVE IInv'
<1>1. /\ UNCHANGED <<status, node, keychain, plugin>>
      /\ flow' = flow \/ (/\ flow[f] = Idle /\ status = "connected"
                          /\ flow' = [flow EXCEPT ![f] = [at |-> "down", to |-> ~stealth]])
  BY DEF Toggle, Goes
<1>2. TypeOK'
  <2>1. stealth' \in BOOLEAN /\ (~stealth) \in BOOLEAN
    BY DEF IInv, TypeOK, Toggle
  <2>2. [at |-> "down", to |-> ~stealth] \in [at : {"down"}, to : BOOLEAN]
    BY <2>1, Zenon
  <2>3. flow' \in [Flows -> Flow]
    BY <1>1, <2>2 DEF IInv, TypeOK, Flow
  <2> QED
    BY <1>1, <2>1, <2>3 DEF IInv, TypeOK, keychain, plugin
<1>3. FirstPair'
  BY <1>1 DEF IInv, TypeOK, FirstPair, keychain, plugin, Idle
<1>4. NeverStuck'
  BY <1>1 DEF IInv, TypeOK, NeverStuck, Connecting, Disconnecting, Idle
<1>5. \A g \in Flows : FlowKeys(g)'
  BY <1>1 DEF IInv, TypeOK, FlowKeys, keychain, plugin, OwnKey
<1> QED
  BY <1>1, <1>2, <1>3, <1>4, <1>5
  DEF IInv, PairStored, OwnKeyTunnel, keychain, plugin, OwnKey

(***************************************************************************)
(* A call of connect that goes on to its next await.                       *)
(***************************************************************************)
LEMMA GoesOn ==
  ASSUME IInv, NEW f \in Flows, Connecting(f), NEW s \in Flow, Goes(f, s),
         s.at \notin {"idle", "down", "lowered"}, UNCHANGED ui,
         PairStored', FirstPair',
         priv' \in Keys \cup {None}, pub' \in Keys \cup {None}, made' \subseteq Keys,
         conf' \in Config \cup {None}, conf' # None => OwnKey(conf'),
         tunnel' \in {tunnel, conf},
         \A g \in Flows : FlowKeys(g)'
  PROVE  IInv'
<1>1. flow' = [flow EXCEPT ![f] = s] /\ flow'[f] = s
  BY DEF Goes, IInv, TypeOK
<1>2. TypeOK'
  BY <1>1 DEF IInv, TypeOK, ui
<1>3. Connecting(f)'
  BY <1>1 DEF Connecting, Disconnecting, Idle
<1>4. OwnKeyTunnel'
  BY DEF IInv, OwnKeyTunnel, OwnKey
<1> QED
  BY <1>2, <1>3, <1>4 DEF IInv, NeverStuck, ui

(* While the keychain and the config stay, so does what the other calls     *)
(* carry; a call that has the public key is not one of the first pair's.    *)
LEMMA ReadPubStep ==
  ASSUME IInv, NEW f \in Flows, ReadPub(f) PROVE IInv'
<1>1. flow[f].at = "readPub" /\ Connecting(f)
      /\ UNCHANGED <<ui, priv, pub, conf, tunnel>>
  BY DEF ReadPub, Connecting, plugin
<1>2. CASE pub # None
  <2> DEFINE s == [at |-> "api", lease |-> [key |-> pub, node |-> node, stealth |-> stealth]]
  <2>1. Goes(f, s) /\ made' = made
    BY <1>2 DEF ReadPub, Ask
  <2>2. s \in Flow
    BY <1>2 DEF IInv, TypeOK, Flow, Lease
  <2>3. FirstPair' /\ PairStored'
    BY <1>1, <1>2 DEF IInv, FirstPair, PairStored
  <2>4. \A g \in Flows : FlowKeys(g)'
    BY <1>1, <2>1 DEF IInv, TypeOK, FlowKeys, Goes, OwnKey
  <2> QED
    BY <1>1, <2>1, <2>2, <2>3, <2>4, GoesOn DEF IInv, TypeOK, OwnKey
<1>3. CASE pub = None
  <2>1. PICK k \in Keys \ made :
          made' = made \cup {k} /\ Goes(f, [at |-> "writePriv", key |-> k])
    BY <1>3 DEF ReadPub
  <2> DEFINE s == [at |-> "writePriv", key |-> k]
  <2>2. s \in Flow
    BY DEF Flow
  <2>3. FirstPair' /\ PairStored'
    BY <1>1, <1>3, <2>1, FlowFields DEF IInv, TypeOK, FirstPair, PairStored, Goes, ui, Idle
  <2>4. \A g \in Flows : FlowKeys(g)'
    BY <1>1, <1>3, <2>1 DEF IInv, TypeOK, FlowKeys, Goes, OwnKey
  <2> QED
    BY <1>1, <2>1, <2>2, <2>3, <2>4, GoesOn DEF IInv, TypeOK, OwnKey
<1> QED
  BY <1>2, <1>3

(* Nobody but the first pair's call writes a private key.                   *)
LEMMA WritePrivStep ==
  ASSUME IInv, NEW f \in Flows, WritePriv(f) PROVE IInv'
<1> DEFINE s == [at |-> "writePub", key |-> flow[f].key]
<1>1. /\ flow[f].at = "writePriv" /\ Connecting(f)
      /\ UNCHANGED <<ui, pub, made, conf, tunnel>> /\ priv' = flow[f].key
  BY DEF WritePriv, Connecting, plugin
<1>2. flow[f].key \in Keys /\ Goes(f, s) /\ pub = None
  <2>1. pub = None
    BY <1>1 DEF IInv, FlowKeys
  <2>2. flow[f] = [at |-> "writePriv", key |-> flow[f].key] /\ flow[f].key \in Keys
    BY <1>1, FlowFields DEF IInv
  <2>3. Goes(f, [flow[f] EXCEPT !.at = "writePub"])
    BY DEF WritePriv
  <2>4. [flow[f] EXCEPT !.at = "writePub"] = s
    BY <2>2
  <2> QED
    BY <2>1, <2>2, <2>3, <2>4
<1>3. s \in Flow
  BY <1>2 DEF Flow
<1>4. FirstPair' /\ PairStored'
  BY <1>1, <1>2, FlowFields DEF IInv, TypeOK, FirstPair, PairStored, Goes, ui, Idle
<1>5. \A g \in Flows : FlowKeys(g)'
  <2>1. \A g \in Flows : g # f => flow[g] = Idle /\ flow'[g] = Idle
    BY <1>1, <1>2, FlowFields DEF IInv, TypeOK, FirstPair, Goes, Idle
  <2> QED
    BY <1>1, <1>2, <2>1 DEF IInv, TypeOK, FlowKeys, Goes, OwnKey, Idle
<1> QED
  BY <1>1, <1>2, <1>3, <1>4, <1>5, GoesOn DEF IInv, TypeOK, OwnKey

(* The public key is written over the private key of its own pair.          *)
LEMMA WritePubStep ==
  ASSUME IInv, NEW f \in Flows, WritePub(f) PROVE IInv'
<1> DEFINE k == flow[f].key
           s == [at |-> "api", lease |-> [key |-> k, node |-> node, stealth |-> stealth]]
<1>1. /\ flow[f].at = "writePub" /\ Connecting(f)
      /\ UNCHANGED <<ui, priv, made, conf, tunnel>> /\ pub' = k /\ Goes(f, s)
  BY DEF WritePub, Ask, Connecting, plugin
<1>2. k \in Keys /\ k # None /\ pub = None /\ priv = k
  BY <1>1, FlowFields, NoneAssumption DEF IInv, FlowKeys
<1>3. s \in Flow
  BY <1>2 DEF IInv, TypeOK, Flow, Lease
<1>4. FirstPair' /\ PairStored'
  BY <1>1, <1>2 DEF FirstPair, PairStored
<1>5. \A g \in Flows : FlowKeys(g)'
  <2>1. \A g \in Flows : g # f => flow[g] = Idle /\ flow'[g] = Idle
    BY <1>1, <1>2, FlowFields DEF IInv, TypeOK, FirstPair, Goes, Idle
  <2> QED
    BY <1>1, <1>2, <2>1 DEF IInv, TypeOK, FlowKeys, Goes, OwnKey, Idle
<1> QED
  BY <1>1, <1>2, <1>3, <1>4, <1>5, GoesOn DEF IInv, TypeOK, OwnKey

(* The lease is for the public key that is stored.                          *)
LEMMA AnsweredStep ==
  ASSUME IInv, NEW f \in Flows, Answered(f) PROVE IInv'
<1> DEFINE s == [at |-> "readPriv", lease |-> flow[f].lease]
<1>1. /\ flow[f].at = "api" /\ Connecting(f) /\ Goes(f, s)
      /\ UNCHANGED <<ui, priv, pub, made, conf, tunnel>>
  BY DEF Answered, Connecting, keychain, plugin
<1>2. flow[f].lease.key \in Keys /\ pub = flow[f].lease.key /\ s \in Flow
  BY <1>1, FlowFields DEF IInv, FlowKeys, Flow
<1>3. FirstPair' /\ PairStored'
  BY <1>1, <1>2, NoneAssumption DEF IInv, FirstPair, PairStored
<1>4. \A g \in Flows : FlowKeys(g)'
  BY <1>1, <1>2 DEF IInv, TypeOK, FlowKeys, Goes, OwnKey
<1> QED
  BY <1>1, <1>2, <1>3, <1>4, GoesOn DEF IInv, TypeOK, OwnKey

(* The private key is read after the API has answered, and is still the one *)
(* of the public key the API was given.                                     *)
LEMMA ReadPrivStep ==
  ASSUME IInv, NEW f \in Flows, ReadPriv(f) PROVE IInv'
<1> DEFINE c == [lease |-> flow[f].lease, priv |-> priv]
           s == [at |-> "setConfig", config |-> c]
<1>1. /\ flow[f].at = "readPriv" /\ Connecting(f) /\ Goes(f, s) /\ priv # None
      /\ UNCHANGED <<ui, priv, pub, made, conf, tunnel>>
  BY DEF ReadPriv, Connecting, keychain, plugin
<1>2. flow[f].lease \in Lease /\ flow[f].lease.key \in Keys /\ pub = flow[f].lease.key
  BY <1>1, FlowFields DEF IInv, FlowKeys
<1>3. pub # None /\ priv = pub
  BY <1>2, NoneAssumption DEF IInv, PairStored
<1>4. s \in Flow /\ OwnKey(c)
  BY <1>1, <1>2, <1>3 DEF IInv, TypeOK, Flow, Config, OwnKey
<1>5. FirstPair' /\ PairStored'
  BY <1>1, <1>3 DEF IInv, FirstPair, PairStored
<1>6. \A g \in Flows : FlowKeys(g)'
  BY <1>1, <1>4 DEF IInv, TypeOK, FlowKeys, Goes, OwnKey
<1> QED
  BY <1>1, <1>4, <1>5, <1>6, GoesOn DEF IInv, TypeOK, OwnKey

(* A call that has a config is not one of the first pair's.                 *)
LEMMA Paired ==
  ASSUME IInv, NEW f \in Flows,
         flow[f].at \in {"setConfig", "up", "raised", "down", "lowered"}
  PROVE  pub # None
BY FlowFields DEF IInv, FirstPair

(* The plugin is only ever given a config with its own key.                 *)
LEMMA SetConfigStep ==
  ASSUME IInv, NEW f \in Flows, SetConfig(f) PROVE IInv'
<1> DEFINE s == [at |-> "up", config |-> flow[f].config]
<1>1. /\ flow[f].at = "setConfig" /\ Connecting(f) /\ conf' = flow[f].config
      /\ UNCHANGED <<ui, priv, pub, made, tunnel>>
      /\ Goes(f, [flow[f] EXCEPT !.at = "up"])
  BY DEF SetConfig, Connecting, keychain
<1>2. /\ flow[f] = [at |-> "setConfig", config |-> flow[f].config]
      /\ flow[f].config \in Config
  BY <1>1, FlowFields DEF IInv
<1>3. Goes(f, s)
  <2>1. [flow[f] EXCEPT !.at = "up"] = s
    BY <1>2
  <2> QED
    BY <1>1, <2>1
<1>4. s \in Flow /\ OwnKey(flow[f].config) /\ flow[f].config # None
  BY <1>1, <1>2, NoneAssumption DEF IInv, FlowKeys, Flow
<1>5. FirstPair' /\ PairStored'
  BY <1>1, Paired DEF IInv, FirstPair, PairStored
<1>6. \A g \in Flows : FlowKeys(g)'
  BY <1>1, <1>3, <1>4 DEF IInv, TypeOK, FlowKeys, Goes, OwnKey
<1> QED
  BY <1>1, <1>2, <1>3, <1>4, <1>5, <1>6, GoesOn DEF IInv, TypeOK, OwnKey

(* Whichever call set the config, the tunnel started with it is sound.      *)
LEMMA UpStep ==
  ASSUME IInv, NEW f \in Flows, Up(f) PROVE IInv'
<1> DEFINE s == [at |-> "raised", config |-> flow[f].config]
<1>1. /\ flow[f].at = "up" /\ tunnel' = conf
      /\ UNCHANGED <<ui, priv, pub, made, conf>>
      /\ Goes(f, [flow[f] EXCEPT !.at = "raised"])
  BY DEF Up, keychain
<1>2. /\ flow[f] = [at |-> "up", config |-> flow[f].config] /\ Connecting(f)
      /\ flow[f].config \in Config
  BY <1>1, FlowFields DEF IInv, Connecting
<1>3. Goes(f, s)
  <2>1. [flow[f] EXCEPT !.at = "raised"] = s
    BY <1>2
  <2> QED
    BY <1>1, <2>1
<1>4. s \in Flow /\ OwnKey(flow[f].config)
  BY <1>1, <1>2 DEF IInv, FlowKeys, Flow
<1>5. FirstPair' /\ PairStored'
  BY <1>1, Paired DEF IInv, FirstPair, PairStored
<1>6. \A g \in Flows : FlowKeys(g)'
  BY <1>1, <1>3, <1>4 DEF IInv, TypeOK, FlowKeys, Goes, OwnKey
<1> QED
  BY <1>1, <1>2, <1>3, <1>4, <1>5, <1>6, GoesOn DEF IInv, TypeOK

(* The tunnel goes, and the screen stays as it is.                          *)
LEMMA DownStep ==
  ASSUME IInv, NEW f \in Flows, Down(f) PROVE IInv'
<1> DEFINE s == [at |-> "lowered", to |-> flow[f].to]
<1>1. /\ flow[f].at = "down" /\ tunnel' = None
      /\ UNCHANGED <<ui, priv, pub, made, conf>>
      /\ Goes(f, [flow[f] EXCEPT !.at = "lowered"])
  BY DEF Down, keychain
<1>2. flow[f] = [at |-> "down", to |-> flow[f].to] /\ flow[f].to \in BOOLEAN
  BY <1>1, FlowFields DEF IInv, Disconnecting
<1>3. Goes(f, s)
  <2>1. [flow[f] EXCEPT !.at = "lowered"] = s
    BY <1>2
  <2> QED
    BY <1>1, <2>1
<1>4. s \in Flow
  <2>1. s \in [at : {"down", "lowered"}, to : BOOLEAN]
    BY <1>2, Zenon
  <2> QED
    BY <2>1 DEF Flow
<1>5. TypeOK'
  BY <1>1, <1>3, <1>4 DEF IInv, TypeOK, Goes, ui
<1>6. FirstPair' /\ PairStored' /\ OwnKeyTunnel'
  BY <1>1, Paired DEF IInv, FirstPair, PairStored, OwnKeyTunnel
<1>7. \A g \in Flows : FlowKeys(g)'
  BY <1>1, <1>3 DEF IInv, TypeOK, FlowKeys, Goes, OwnKey
<1>8. NeverStuck'
  BY <1>1, <1>3 DEF IInv, TypeOK, NeverStuck, Connecting, Disconnecting, Goes, Idle, ui
<1> QED
  BY <1>1, <1>5, <1>6, <1>7, <1>8 DEF IInv, OwnKey

-----------------------------------------------------------------------------
(* Steps that end a call.                                                   *)

(* A call that ends with the screen at anything but "connecting", and the   *)
(* pair, the config and the tunnel as they should be.                       *)
LEMMA Ends ==
  ASSUME IInv, NEW f \in Flows, Goes(f, Idle),
         status' \in {"disconnected", "connected", "failed"},
         node' = node, stealth' \in BOOLEAN,
         priv' \in Keys \cup {None}, pub' \in Keys \cup {None}, made' = made,
         conf' \in Config \cup {None}, tunnel' \in Config \cup {None},
         PairStored', OwnKeyTunnel', FirstPair',
         conf' # None => OwnKey(conf'), \A g \in Flows : FlowKeys(g)'
  PROVE  IInv'
<1>1. flow' \in [Flows -> Flow]
  BY DEF IInv, TypeOK, Goes, Flow
<1>2. TypeOK'
  BY <1>1 DEF IInv, TypeOK
<1>3. NeverStuck'
  BY DEF NeverStuck
<1> QED
  BY <1>2, <1>3 DEF IInv

(* The plugin has answered; the call is over.                               *)
LEMMA ConnectedStep ==
  ASSUME IInv, NEW f \in Flows, Connected(f) PROVE IInv'
<1>1. /\ flow[f].at = "raised" /\ status' = "connected" /\ Goes(f, Idle)
      /\ UNCHANGED <<node, stealth, priv, pub, made, conf, tunnel>>
  BY DEF Connected, keychain, plugin
<1>2. pub # None
  BY <1>1, Paired
<1>3. FirstPair' /\ PairStored' /\ OwnKeyTunnel'
  BY <1>1, <1>2 DEF IInv, FirstPair, PairStored, OwnKeyTunnel
<1>4. \A g \in Flows : FlowKeys(g)'
  BY <1>1 DEF IInv, TypeOK, FlowKeys, Goes, OwnKey, Idle
<1> QED
  BY <1>1, <1>3, <1>4, Ends DEF IInv, TypeOK

(* Nothing but the screen changes when a disconnect is over.                *)
LEMMA DisconnectedStep ==
  ASSUME IInv, NEW f \in Flows, Disconnected(f) \/ DownFails(f) PROVE IInv'
<1>1. /\ Disconnecting(f) /\ status' = "disconnected"
      /\ stealth' \in {stealth, flow[f].to} /\ Goes(f, Idle)
      /\ UNCHANGED <<node, priv, pub, made, conf, tunnel>>
  BY DEF Disconnected, DownFails, Disconnecting, keychain, plugin
<1>2. pub # None /\ flow[f].to \in BOOLEAN
  BY <1>1, Paired, FlowFields DEF IInv, Disconnecting
<1>3. FirstPair' /\ PairStored' /\ OwnKeyTunnel'
  BY <1>1, <1>2 DEF IInv, FirstPair, PairStored, OwnKeyTunnel
<1>4. \A g \in Flows : FlowKeys(g)'
  BY <1>1 DEF IInv, TypeOK, FlowKeys, Goes, OwnKey, Idle
<1>5. stealth' \in BOOLEAN
  BY <1>1, <1>2 DEF IInv, TypeOK
<1> QED
  BY <1>1, <1>3, <1>4, <1>5, Ends DEF IInv, TypeOK

(* Whatever a call that throws has left behind.                             *)
LEMMA FailsStep ==
  ASSUME IInv, NEW f \in Flows, Fails(f) PROVE IInv'
<1>1. /\ Connecting(f) /\ status' = "failed" /\ Goes(f, Idle)
      /\ UNCHANGED <<node, stealth, made, tunnel>>
      /\ priv' = priv \/ (flow[f].at = "writePriv" /\ priv' = flow[f].key)
      /\ pub' = pub \/ (flow[f].at = "writePub" /\ pub' = flow[f].key)
      /\ conf' = conf \/ (flow[f].at = "setConfig" /\ conf' = flow[f].config)
  BY DEF Fails
<1>2. /\ flow[f].at \in {"writePriv", "writePub"} =>
           flow[f].key \in Keys /\ flow[f].key # None /\ pub = None
      /\ flow[f].at = "writePub" => priv = flow[f].key
      /\ flow[f].at = "setConfig" =>
           flow[f].config \in Config /\ flow[f].config # None /\ OwnKey(flow[f].config)
  <2>1. flow[f].at = "writePub" => pub = None
    BY FlowFields DEF IInv, FlowKeys
  <2> QED
    BY <2>1, FlowFields, NoneAssumption DEF IInv, FlowKeys
<1>3. \A g \in Flows : g # f => flow'[g] = flow[g]
  BY <1>1 DEF Goes, IInv, TypeOK
<1>4. flow'[f] = Idle
  BY <1>1 DEF Goes, IInv, TypeOK
<1>5. pub = None => \A g \in Flows : flow'[g] = Idle
  BY <1>1, <1>3, <1>4, FlowFields DEF IInv, FirstPair, Connecting, Idle
<1>6. PairStored'
  BY <1>1, <1>2 DEF IInv, PairStored
<1>7. FirstPair'
  BY <1>1, <1>2, <1>5, Paired DEF IInv, FirstPair
<1>8. OwnKeyTunnel'
  BY <1>1, <1>2 DEF IInv, OwnKeyTunnel, OwnKey
<1>9. conf' # None => OwnKey(conf')
  BY <1>1, <1>2 DEF IInv, OwnKey
<1>10. \A g \in Flows : FlowKeys(g)'
  BY <1>1, <1>2, <1>3, <1>4, <1>5 DEF IInv, FlowKeys, OwnKey, Idle
<1>11. /\ priv' \in Keys \cup {None} /\ pub' \in Keys \cup {None}
       /\ conf' \in Config \cup {None} /\ tunnel' \in Config \cup {None}
  BY <1>1, <1>2 DEF IInv, TypeOK
<1> QED
  BY <1>1, <1>6, <1>7, <1>8, <1>9, <1>10, <1>11, Ends DEF IInv, TypeOK

(* A kill leaves the keychain and maybe the tunnel, and no call.            *)
LEMMA KillStep ==
  ASSUME IInv, Kill PROVE IInv'
<1>1. /\ status' = "disconnected" /\ conf' = None /\ tunnel' \in {tunnel, None}
      /\ UNCHANGED <<priv, pub, made>>
  BY DEF Kill, keychain
<1>2. \A f \in Flows : flow'[f] = Idle
  BY DEF Kill
<1>3. TypeOK'
  <2>1. flow' \in [Flows -> Flow]
    BY DEF Kill, Flow
  <2>2. node' \in Nodes /\ stealth' \in BOOLEAN
    BY NodeAssumption DEF Kill
  <2> QED
    BY <1>1, <2>1, <2>2 DEF IInv, TypeOK
<1>4. \A f \in Flows : FlowKeys(f)'
  BY <1>2 DEF FlowKeys, Idle
<1> QED
  BY <1>1, <1>2, <1>3, <1>4 DEF IInv, PairStored, OwnKeyTunnel,
     NeverStuck, FirstPair

-----------------------------------------------------------------------------
(* Every step of the app keeps the invariant.                               *)
LEMMA NextInvariant == IInv /\ [Next]_vars => IInv'
<1> SUFFICES ASSUME IInv, [Next]_vars PROVE IInv'
  OBVIOUS
<1>1. ASSUME NEW f \in Flows, Step(f) PROVE IInv'
  BY <1>1, PressStep, ToggleStep, ReadPubStep, WritePrivStep, WritePubStep,
     AnsweredStep, ReadPrivStep, SetConfigStep, UpStep, ConnectedStep, FailsStep,
     DownStep, DisconnectedStep DEF Step
<1>2. ASSUME NEW n \in Nodes, SelectNode(n) PROVE IInv'
  BY <1>2 DEF SelectNode, IInv, TypeOK, PairStored, OwnKeyTunnel,
     NeverStuck, Connecting, Disconnecting, FirstPair, FlowKeys, OwnKey, keychain, plugin
<1>3. CASE Kill
  BY <1>3, KillStep
<1>4. CASE UNCHANGED vars
  BY <1>4 DEF vars, ui, keychain, plugin, IInv, TypeOK, PairStored, OwnKeyTunnel,
     NeverStuck, Connecting, Disconnecting, FirstPair, FlowKeys, OwnKey
<1> QED
  BY <1>1, <1>2, <1>3, <1>4 DEF Next

(* The inductive invariant holds in every reachable state of the app.       *)
THEOREM Invariance == Spec => []IInv
<1> QED
  BY Started, NextInvariant, PTL DEF Spec

(* The screen, the keychain, the plugin and the calls keep their types.     *)
THEOREM TypeCorrect == Spec => []TypeOK
<1>1. IInv => TypeOK
  BY DEF IInv
<1> QED
  BY Invariance, <1>1, PTL

(* A public key is never stored without its own private key, for any number *)
(* of overlapping calls, kills and failing writes.                          *)
THEOREM PairCorrect == Spec => []PairStored
<1>1. IInv => PairStored
  BY DEF IInv
<1> QED
  BY Invariance, <1>1, PTL

(* The tunnel holds the private key of the public key its lease was asked   *)
(* for, whichever call's config it was started with.                        *)
THEOREM TunnelCorrect == Spec => []OwnKeyTunnel
<1>1. IInv => OwnKeyTunnel
  BY DEF IInv
<1> QED
  BY Invariance, <1>1, PTL

(* Once the pair is stored nobody writes the keychain: a call about to      *)
(* write is the first pair's, and the public key its last write.            *)
LEMMA KeychainKept ==
  ASSUME IInv, [Next]_vars, pub # None
  PROVE  UNCHANGED <<priv, pub>>
<1>1. ASSUME NEW f \in Flows, Step(f) PROVE UNCHANGED <<priv, pub>>
  <2>1. flow[f].at \notin {"writePriv", "writePub"}
    BY DEF IInv, FlowKeys
  <2> QED
    BY <1>1, <2>1 DEF Step, Press, Toggle, ReadPub, WritePriv, WritePub, Answered,
       ReadPriv, SetConfig, Up, Connected, Fails, Down, Disconnected, DownFails, keychain
<1>2. ASSUME NEW n \in Nodes, SelectNode(n) PROVE UNCHANGED <<priv, pub>>
  BY <1>2 DEF SelectNode, keychain
<1>3. CASE Kill
  BY <1>3 DEF Kill, keychain
<1>4. CASE UNCHANGED vars
  BY <1>4 DEF vars, keychain
<1> QED
  BY <1>1, <1>2, <1>3, <1>4 DEF Next

(* A stored pair is used for ever (keychain_service.dart:33-34): neither    *)
(* overlapping calls nor a failing write nor a kill replaces half of it.    *)
THEOREM PairStays == Spec => PairKept
<1>1. IInv /\ [Next]_vars => [pub # None => UNCHANGED <<priv, pub>>]_vars
  BY KeychainKept
<1> QED
  BY Invariance, <1>1, PTL DEF Spec, PairKept

(* The button is never off with no call left to switch it on.               *)
THEOREM ButtonComesBack == Spec => []NeverStuck
<1>1. IInv => NeverStuck
  BY DEF IInv
<1> QED
  BY Invariance, <1>1, PTL

-----------------------------------------------------------------------------
(* What it takes for the protocol shown to be the tunnel's.                 *)

(* Nobody connects while a disconnect is under way, nor moves the switch    *)
(* while a connect is.                                                      *)
Patient ==
  \A f \in Flows :
    /\ Press(f) => \A g \in Flows : ~Disconnecting(g)
    /\ Toggle(f) => \A g \in Flows : ~Connecting(g)

LeaseShown(f) ==
  /\ flow[f].at \in {"api", "readPriv"} => flow[f].lease.stealth = stealth
  /\ flow[f].at \in {"setConfig", "up", "raised"} => flow[f].config.lease.stealth = stealth
  /\ flow[f].at = "up" => conf = flow[f].config
  /\ flow[f].at = "raised" => tunnel = flow[f].config

(* Then a connect is alone, and what it carries is what the screen shows.   *)
ShowInv ==
  /\ ShownIsTunnel
  /\ \A f \in Flows : Connecting(f) =>
       status = "connecting" /\ \A g \in Flows : g # f => flow[g] = Idle
  /\ \A f \in Flows : LeaseShown(f)

(* A connect that moves on, taking with it what is shown.                   *)
LEMMA AdvanceShown ==
  ASSUME IInv, ShowInv, NEW f \in Flows, NEW s, Connecting(f), Goes(f, s),
         UNCHANGED ui,
         s.at \in {"api", "readPriv"} => s.lease.stealth = stealth,
         s.at \in {"setConfig", "up", "raised"} => s.config.lease.stealth = stealth,
         s.at = "up" => conf' = s.config,
         s.at = "raised" => tunnel' = s.config
  PROVE  ShowInv'
<1>1. flow'[f] = s /\ \A g \in Flows : g # f => flow'[g] = Idle
  BY DEF IInv, TypeOK, Goes, ShowInv
<1>2. status = "connecting" /\ status' = status /\ stealth' = stealth
  BY DEF ShowInv, ui
<1> QED
  BY <1>1, <1>2 DEF ShowInv, ShownIsTunnel, LeaseShown, Connecting, Idle

(* When no connect is left running only the switch has to be right.         *)
LEMMA RestShown ==
  ASSUME ShownIsTunnel', \A f \in Flows : ~Connecting(f)'
  PROVE  ShowInv'
BY DEF ShowInv, LeaseShown, Connecting

(* Each step of a call.                                                     *)
LEMMA StepShown ==
  ASSUME IInv, ShowInv, Patient, NEW f \in Flows, Step(f)
  PROVE  ShowInv'
<1> USE FlowFields DEF IInv
<1>1. Idle.at = "idle" /\ flow \in [Flows -> Flow]
  BY DEF Idle, TypeOK
<1>2. CASE Press(f)
  <2>1. \A g \in Flows : flow[g] = Idle
    BY <1>2 DEF Patient, Press, ShowInv, Connecting, Disconnecting
  <2>2. status' = "connecting" /\ flow' = [flow EXCEPT ![f] = [at |-> "readPub"]]
    BY <1>2 DEF Press, Goes
  <2>3. flow'[f].at = "readPub" /\ \A g \in Flows : g # f => flow'[g] = Idle
    BY <1>1, <2>1, <2>2
  <2> QED
    BY <1>1, <2>2, <2>3 DEF ShowInv, ShownIsTunnel, LeaseShown, Connecting
<1>3. CASE Toggle(f)
  <2>1. \A g \in Flows : ~Connecting(g)
    BY <1>3 DEF Patient
  <2>2. \A g \in Flows : flow'[g] = flow[g] \/ flow'[g].at = "down"
    BY <1>1, <1>3 DEF Toggle, Goes
  <2>3. ShownIsTunnel'
    <3>1. CASE status = "connected"
      <4>1. flow' = [flow EXCEPT ![f] = [at |-> "down", to |-> ~stealth]]
        BY <1>3, <3>1 DEF Toggle, Goes
      <4>2. flow'[f].at = "down"
        BY <1>1, <4>1
      <4> QED
        BY <4>2 DEF ShownIsTunnel, Disconnecting
    <3>2. CASE status # "connected"
      BY <1>3, <3>2 DEF Toggle, ShownIsTunnel
    <3> QED
      BY <3>1, <3>2
  <2> QED
    BY <2>1, <2>2, <2>3, RestShown DEF Connecting
<1>4. CASE ReadPub(f)
  <2>1. PICK s : Goes(f, s) /\ (s.at = "writePriv" \/ (s.at = "api" /\ s.lease.stealth = stealth))
    <3>1. CASE pub = None
      <4>1. PICK k : Goes(f, [at |-> "writePriv", key |-> k])
        BY <1>4, <3>1 DEF ReadPub
      <4>2. [at |-> "writePriv", key |-> k].at = "writePriv"
        OBVIOUS
      <4> QED
        BY <4>1, <4>2
    <3>2. CASE pub # None
      BY <1>4, <3>2 DEF ReadPub, Ask
    <3> QED
      BY <3>1, <3>2
  <2> QED
    BY <1>4, <2>1, AdvanceShown DEF ReadPub, Connecting
<1>5. CASE WritePriv(f)
  <2>1. PICK s : Goes(f, s) /\ s.at = "writePub"
    <3>1. flow[f] = [at |-> "writePriv", key |-> flow[f].key]
      BY <1>5 DEF WritePriv
    <3>2. [flow[f] EXCEPT !.at = "writePub"].at = "writePub"
      BY <3>1
    <3> QED
      BY <1>5, <3>2 DEF WritePriv
  <2> QED
    BY <1>5, <2>1, AdvanceShown DEF WritePriv, Connecting
<1>6. CASE WritePub(f)
  <2>1. PICK s : Goes(f, s) /\ s.at = "api" /\ s.lease.stealth = stealth
    BY <1>6 DEF WritePub, Ask
  <2> QED
    BY <1>6, <2>1, AdvanceShown DEF WritePub, Connecting
<1>7. CASE Answered(f)
  <2>1. PICK s : Goes(f, s) /\ s.at = "readPriv" /\ s.lease.stealth = stealth
    BY <1>7 DEF Answered, ShowInv, LeaseShown
  <2> QED
    BY <1>7, <2>1, AdvanceShown DEF Answered, Connecting
<1>8. CASE ReadPriv(f)
  <2>1. PICK s : Goes(f, s) /\ s.at = "setConfig" /\ s.config.lease.stealth = stealth
    BY <1>8 DEF ReadPriv, ShowInv, LeaseShown
  <2> QED
    BY <1>8, <2>1, AdvanceShown DEF ReadPriv, Connecting
<1>9. CASE SetConfig(f)
  <2>1. flow[f].config.lease.stealth = stealth /\ conf' = flow[f].config
    BY <1>9 DEF SetConfig, ShowInv, LeaseShown
  <2>2. PICK s : Goes(f, s) /\ s.at = "up" /\ s.config = flow[f].config
    <3>1. flow[f] = [at |-> "setConfig", config |-> flow[f].config]
      BY <1>9 DEF SetConfig
    <3>2. /\ [flow[f] EXCEPT !.at = "up"].at = "up"
          /\ [flow[f] EXCEPT !.at = "up"].config = flow[f].config
      BY <3>1
    <3> QED
      BY <1>9, <3>2 DEF SetConfig
  <2> QED
    BY <1>9, <2>1, <2>2, AdvanceShown DEF SetConfig, Connecting
<1>10. CASE Up(f)
  <2>1. flow[f].config.lease.stealth = stealth /\ tunnel' = flow[f].config
    BY <1>10 DEF Up, ShowInv, LeaseShown
  <2>2. PICK s : Goes(f, s) /\ s.at = "raised" /\ s.config = flow[f].config
    <3>1. flow[f] = [at |-> "up", config |-> flow[f].config]
      BY <1>10 DEF Up
    <3>2. /\ [flow[f] EXCEPT !.at = "raised"].at = "raised"
          /\ [flow[f] EXCEPT !.at = "raised"].config = flow[f].config
      BY <3>1
    <3> QED
      BY <1>10, <3>2 DEF Up
  <2> QED
    BY <1>10, <2>1, <2>2, AdvanceShown DEF Up, Connecting
<1>11. CASE Connected(f) \/ Fails(f)
  <2>1. Connecting(f) /\ Goes(f, Idle) /\ stealth' = stealth
    BY <1>11 DEF Connected, Fails, Connecting
  <2>2. \A g \in Flows : flow'[g] = Idle
    BY <1>1, <2>1 DEF Goes, ShowInv
  <2>3. ShownIsTunnel'
    <3>1. CASE Connected(f)
      <4>1. /\ tunnel' = flow[f].config /\ flow[f].config \in Config
            /\ flow[f].config.lease.stealth = stealth
        BY <3>1 DEF Connected, ShowInv, LeaseShown, plugin
      <4> QED
        BY <2>1, <4>1, NoneAssumption DEF ShownIsTunnel
    <3>2. CASE Fails(f)
      BY <3>2 DEF Fails, ShownIsTunnel
    <3> QED
      BY <1>11, <3>1, <3>2
  <2> QED
    BY <1>1, <2>2, <2>3, RestShown DEF Connecting
<1>12. CASE Down(f)
  <2>1. flow[f].at = "down" /\ Disconnecting(f)
    BY <1>12 DEF Down, Disconnecting
  <2>2. \A g \in Flows : ~Connecting(g)
    BY <1>1, <2>1 DEF ShowInv, Disconnecting, Connecting
  <2>3. flow[f] = [at |-> "down", to |-> flow[f].to]
    BY <2>1
  <2>4. [flow[f] EXCEPT !.at = "lowered"].at = "lowered"
    BY <2>3
  <2>5. flow'[f].at = "lowered" /\ \A g \in Flows : g # f => flow'[g] = flow[g]
    BY <1>1, <1>12, <2>4 DEF Down, Goes
  <2>6. Disconnecting(f)' /\ \A g \in Flows : ~Connecting(g)'
    BY <2>2, <2>5 DEF Disconnecting, Connecting
  <2> QED
    BY <2>6, RestShown DEF ShownIsTunnel
<1>13. CASE Disconnected(f) \/ DownFails(f)
  <2>1. Disconnecting(f) /\ Goes(f, Idle) /\ status' = "disconnected"
    BY <1>13 DEF Disconnected, DownFails, Disconnecting
  <2>2. \A g \in Flows : ~Connecting(g)
    BY <1>1, <2>1 DEF ShowInv, Disconnecting, Connecting
  <2>3. \A g \in Flows : ~Connecting(g)'
    BY <1>1, <2>1, <2>2 DEF Goes, Connecting, Disconnecting
  <2> QED
    BY <2>1, <2>3, RestShown DEF ShownIsTunnel
<1> QED
  BY <1>2, <1>3, <1>4, <1>5, <1>6, <1>7, <1>8, <1>9, <1>10, <1>11, <1>12, <1>13 DEF Step

(***************************************************************************)
(* A protocol switch forces a fresh tunnel (connection_controller.dart:54) *)
(* of the protocol shown, if no connect is pressed while the disconnect is *)
(* under way and the switch is left alone while a connect is: whatever     *)
(* throws, and whenever the app is killed.  Without a disconnect under     *)
(* way, "connected" is then also never shown over no tunnel.               *)
(***************************************************************************)
THEOREM ShownWhenPatient == Spec /\ [][Patient]_vars => []ShownIsTunnel
<1>1. Init => ShowInv
  BY DEF Init, ShowInv, ShownIsTunnel, LeaseShown, Connecting, Idle
<1>2. IInv /\ ShowInv /\ [Next]_vars /\ [Patient]_vars => ShowInv'
  <2> SUFFICES ASSUME IInv, ShowInv, [Next]_vars, [Patient]_vars PROVE ShowInv'
    OBVIOUS
  <2>1. CASE UNCHANGED vars
    BY <2>1 DEF vars, ui, plugin, ShowInv, ShownIsTunnel, LeaseShown, Connecting,
       Disconnecting
  <2>2. ASSUME NEW f \in Flows, Step(f), Patient PROVE ShowInv'
    BY <2>2, StepShown
  <2>3. ASSUME NEW n \in Nodes, SelectNode(n) PROVE ShowInv'
    BY <2>3 DEF SelectNode, plugin, ShowInv, ShownIsTunnel, LeaseShown, Connecting,
       Disconnecting
  <2>4. CASE Kill
    BY <2>4, RestShown DEF Kill, ShownIsTunnel, Connecting, Idle
  <2> QED
    BY <2>1, <2>2, <2>3, <2>4 DEF Next
<1>3. ShowInv => ShownIsTunnel
  BY DEF ShowInv
<1> QED
  BY <1>1, <1>2, <1>3, Invariance, PTL DEF Spec
=============================================================================
