-------------------------- MODULE ConfigStore_proofs --------------------------
(* What is kept in config.yaml and how its readers agree, for every set of       *)
(* addresses and passwords and any number of hand edits, failed writes and       *)
(* crashes.                                                                      *)
EXTENDS ConfigStore, TLAPS

Merging == {"empty", "fill", "rename"}

Mains == [at : {"off", "bridge", "read", "empty", "fill", "rename", "network", "started"},
          address : Addresses \cup {"none"}, next : Configs]

Configures == [at : {"idle", "resolve", "read", "empty", "fill", "rename"},
               patch : Configs, next : Configs]

Containers == [at : {"none", "entrypoint", "loading", "config_error", "crashed", "loaded"},
               tor : BOOLEAN, config : Configs]

\* main and Configure never run together, and nothing runs without main.
Exclusive ==
    /\ main.at # "off" => wanted
    /\ configure.at # "idle" => ~wanted
    /\ container.at # "none" => main.at = "started"

\* What Configure accepts.
Permitted(patch) ==
    /\ patch.payout = "good"
    /\ patch.user \in {"good", "ambiguous"}
    /\ patch.network \in {"tor", "clearnet"}

\* What is about to be renamed is what was merged; what Configure merges is its patch.
Pending ==
    /\ main.at = "rename" => tmp = Yaml(main.next)
    /\ configure.at = "rename" => tmp = Yaml(configure.next)
    /\ configure.at \in Merging =>
          /\ configure.next.payout = configure.patch.payout
          /\ configure.next.user = configure.patch.user
          /\ configure.next.password = configure.patch.password
          /\ configure.next.network = configure.patch.network
    /\ configure.at # "idle" => Permitted(configure.patch)
    /\ configure.at \in Merging \cup {"read"} => configure.patch.password \in Passwords

Invariant == ConfigTypeOK /\ Exclusive /\ Pending

LEMMA ParseTyped == ASSUME NEW c \in Configs PROVE Parse(c) \in Configs
  <1> DEFINE payout  == IF c.payout = "nonstring" THEN "none" ELSE c.payout
             port    == IF c.port = "low" THEN "low" ELSE "good"
             user    == IF c.user = "nonstring" THEN "none" ELSE c.user
             network == IF c.network = "clearnet" THEN "clearnet" ELSE "tor"
  <1>1. payout \in Payouts /\ port \in Ports /\ user \in Users /\ network \in Networks
    BY DEF Configs, Payouts, Ports, Users, Networks
  <1>2. Parse(c) = [c EXCEPT !.payout = payout, !.port = port, !.user = user, !.network = network]
    BY DEF Parse
  <1> HIDE DEF payout, port, user, network
  <1> QED BY <1>1, <1>2 DEF Configs

LEMMA ExistingTyped ==
    ASSUME file \in Contents, Readable
    PROVE  /\ Existing \in Configs
           /\ file # Absent => file.kind = "yaml" /\ file.config \in Configs
                               /\ file = Yaml(file.config) /\ Existing = Parse(file.config)
  <1>1. Nothing \in Configs
    BY DEF Nothing, Configs, Payouts, Hosts, Ports, Users, Networks
  <1>2. CASE file = Absent
    BY <1>1, <1>2, ParseTyped DEF Existing
  <1>3. CASE file # Absent
    <2>1. PICK c \in Configs : file = Yaml(c)
      BY <1>3 DEF Contents, Readable, Malformed
    <2>2. file.kind = "yaml" /\ file.config = c
      BY <2>1 DEF Yaml
    <2> QED BY <1>3, <2>1, <2>2, ParseTyped DEF Existing
  <1> QED BY <1>2, <1>3

LEMMA YamlTyped ==
    ASSUME file \in Contents, file.kind = "yaml"
    PROVE  file.config \in Configs
  BY ExistingTyped DEF Readable, Absent

\* What is loaded is a network the supplier knows.
LEMMA LoadedTyped ==
    ASSUME NEW c \in Configs, LoadResult(c) = "ok"
    PROVE  /\ LoadedNetwork(c) \in {"tor", "clearnet"}
           /\ c.payout = "good"
  <1>1. LoadedNetwork(c) \in {"tor", "clearnet", "invalid"}
    BY DEF LoadedNetwork
  <1>2. c.payout = "good" /\ c.host \notin {"none", "url"}
    BY DEF LoadResult, Configs, Payouts, Unstrippable
  <1>3. LoadedNetwork(c) # "invalid"
    BY <1>2 DEF LoadResult
  <1> QED BY <1>1, <1>2, <1>3

LEMMA IdleTyped ==
    /\ Nothing \in Configs
    /\ Absent \in Contents
    /\ MainOff \in Mains
    /\ ConfigureIdle \in Configures
    /\ NoContainer \in Containers
  <1>1. Nothing \in Configs
    BY DEF Nothing, Configs, Payouts, Hosts, Ports, Users, Networks
  <1>2. NoContainer = [at |-> "none", tor |-> FALSE, config |-> Nothing] /\ FALSE \in BOOLEAN
    BY DEF NoContainer
  <1> QED BY <1>1, <1>2 DEF MainOff, ConfigureIdle, Contents, Mains, Configures, Containers

LEMMA InitInv == Init => Invariant
  <1> SUFFICES ASSUME Init PROVE Invariant
    OBVIOUS
  <1>1. main = MainOff /\ configure = ConfigureIdle /\ container = NoContainer /\ file = Absent
        /\ tmp = Absent /\ wanted = FALSE
    BY DEF Init
  <1>2. main.at = "off" /\ configure.at = "idle" /\ container.at = "none"
    BY <1>1 DEF MainOff, ConfigureIdle, NoContainer
  <1>3. ConfigTypeOK
    <2>1. upsets \in 0..MaxUpsets
      BY ConfigStoreAssumption DEF Init
    <2>2. wanted \in BOOLEAN /\ task \in BOOLEAN
      BY DEF Init
    <2> QED BY <1>1, <2>1, <2>2, IdleTyped DEF Init, ConfigTypeOK, Mains, Configures, Containers
  <1>4. Exclusive /\ Pending
    BY <1>2 DEF Exclusive, Pending, Merging
  <1> QED BY <1>3, <1>4 DEF Invariant

\* A step of main.
LEMMA MainMoves ==
    ASSUME Invariant, wanted, main.at # "started",
           main' \in Mains, file' \in Contents, tmp' \in Contents \cup {Truncated},
           main'.at = "rename" => tmp' = Yaml(main'.next),
           UNCHANGED <<outsideVars, configureVars, container>>
    PROVE  Invariant'
  <1>1. ConfigTypeOK'
    BY DEF Invariant, ConfigTypeOK, Mains, outsideVars, configureVars
  <1>2. configure'.at = "idle" /\ container'.at = "none" /\ wanted'
    BY DEF Invariant, Exclusive, outsideVars, configureVars
  <1>3. Exclusive' /\ Pending'
    BY <1>2 DEF Exclusive, Pending, Merging
  <1> QED BY <1>1, <1>3 DEF Invariant

\* A step of Configure.
LEMMA ConfigureMoves ==
    ASSUME Invariant, ~wanted, configure' \in Configures, file' \in Contents,
           tmp' \in Contents \cup {Truncated},
           configure'.at = "rename" => tmp' = Yaml(configure'.next),
           configure'.at \in Merging =>
              /\ configure'.next.payout = configure'.patch.payout
              /\ configure'.next.user = configure'.patch.user
              /\ configure'.next.password = configure'.patch.password
              /\ configure'.next.network = configure'.patch.network,
           configure'.at # "idle" => Permitted(configure'.patch),
           configure'.at \in Merging \cup {"read"} => configure'.patch.password \in Passwords,
           task' \in BOOLEAN, saved' \in Settings \cup {Unsaved},
           UNCHANGED <<outsideVars, main, container>>
    PROVE  Invariant'
  <1>1. ConfigTypeOK'
    BY DEF Invariant, ConfigTypeOK, Configures, outsideVars
  <1>2. main'.at = "off" /\ container'.at = "none" /\ ~wanted'
    BY DEF Invariant, Exclusive, outsideVars
  <1>3. Exclusive' /\ Pending'
    BY <1>2 DEF Exclusive, Pending, Merging
  <1> QED BY <1>1, <1>3 DEF Invariant

\* A step of the container, or one that touches neither the file nor its writers.
LEMMA OtherMoves ==
    ASSUME Invariant, container' \in Containers,
           container'.at # "none" => main.at = "started",
           task' \in BOOLEAN, bridge' \in Addresses \cup {"none"},
           UNCHANGED <<fileVars, wanted, upsets, main, configure, saved>>
    PROVE  Invariant'
  <1>1. ConfigTypeOK'
    BY DEF Invariant, ConfigTypeOK, Containers, fileVars
  <1>2. Exclusive' /\ Pending'
    BY DEF Invariant, Exclusive, Pending, fileVars
  <1> QED BY <1>1, <1>2 DEF Invariant

LEMMA StartInv == Invariant /\ Start => Invariant'
  <1> SUFFICES ASSUME Invariant, Start PROVE Invariant'
    OBVIOUS
  <1>a. /\ file \in Contents /\ tmp \in Contents \cup {Truncated} /\ main \in Mains
        /\ bridge \in Addresses \cup {"none"}
    BY DEF Invariant, ConfigTypeOK, Mains
  <1>b. main.at # "off" => wanted
    BY DEF Invariant, Exclusive
  <1>1. CASE MainStarts
    <2>1. main' \in Mains /\ main'.at = "bridge"
      BY <1>1, IdleTyped DEF MainStarts, Mains
    <2> QED BY <1>1, <1>a, <2>1, MainMoves DEF MainStarts, fileVars
  <1>2. CASE MainResolves
    <2>1. main' \in Mains /\ main'.at \in {"network", "read"}
      BY <1>2, <1>a DEF MainResolves, Mains
    <2> QED BY <1>2, <1>a, <1>b, <2>1, MainMoves DEF MainResolves, fileVars
  <1>3. CASE MainMerges
    <2>1. [Existing EXCEPT !.host = main.address, !.port = "good"] \in Configs
      BY <1>3, <1>a, ExistingTyped DEF MainMerges, Configs, Mains, Ports, Hosts
    <2>2. main' \in Mains /\ main'.at = "empty"
      BY <1>3, <1>a, <2>1 DEF MainMerges, Mains
    <2> QED BY <1>3, <1>a, <1>b, <2>2, MainMoves DEF MainMerges, fileVars
  <1>4. CASE MainWrites
    <2>1. CASE main.at = "empty"
      <3>1. main' \in Mains /\ main'.at = "fill" /\ file' = file /\ tmp' = Truncated
        BY <1>4, <1>a, <2>1 DEF MainWrites, MainGoes, Mains, Empties
      <3> QED BY <1>4, <1>a, <1>b, <2>1, <3>1, MainMoves DEF MainWrites
    <2>2. CASE main.at = "fill"
      <3>1. /\ main' \in Mains /\ main'.at = "rename" /\ main'.next = main.next
            /\ file' = file /\ tmp' = Yaml(main.next)
        BY <1>4, <1>a, <2>2 DEF MainWrites, MainGoes, Mains, Fills
      <3>2. tmp' \in Contents
        BY <1>a, <3>1 DEF Contents, Mains
      <3> QED BY <1>4, <1>a, <1>b, <2>2, <3>1, <3>2, MainMoves DEF MainWrites
    <2>3. CASE main.at = "rename"
      <3>1. main' \in Mains /\ main'.at = "network" /\ file' = tmp /\ tmp' = Absent
        BY <1>4, <1>a, <2>3 DEF MainWrites, MainGoes, Mains, Renames
      <3>2. file' \in Contents
        BY <1>a, <2>3, <3>1 DEF Invariant, Pending, Contents, Mains
      <3> QED BY <1>4, <1>a, <1>b, <2>3, <3>1, <3>2, MainMoves, IdleTyped DEF MainWrites
    <2> QED BY <1>4, <2>1, <2>2, <2>3 DEF MainWrites
  <1>5. CASE MainFails
    <2>1. main' \in Mains /\ main'.at = "off"
      BY <1>5, IdleTyped DEF MainFails, MainOff
    <2> QED BY <1>5, <1>a, <1>b, <2>1, MainMoves DEF MainFails, fileVars
  <1>6. CASE DaemonStarts
    <2>1. main' \in Mains /\ main'.at = "started" /\ container' \in Containers
      BY <1>6, <1>a, IdleTyped DEF DaemonStarts, MainGoes, Mains, Containers
    <2>2. configure.at = "idle" /\ wanted
      BY <1>6, <1>b DEF DaemonStarts, Invariant, Exclusive
    <2>3. ConfigTypeOK'
      BY <1>6, <2>1 DEF DaemonStarts, Invariant, ConfigTypeOK, Mains, Containers, fileVars,
                        outsideVars, configureVars
    <2>4. Exclusive' /\ Pending'
      BY <1>6, <2>1, <2>2 DEF DaemonStarts, Exclusive, Pending, Merging, outsideVars,
                              configureVars
    <2> QED BY <2>3, <2>4 DEF Invariant
  <1> QED BY <1>1, <1>2, <1>3, <1>4, <1>5, <1>6 DEF Start

LEMMA RunInv == Invariant /\ Run => Invariant'
  <1> SUFFICES ASSUME Invariant, Run PROVE Invariant'
    OBVIOUS
  <1>a. /\ container \in Containers /\ file \in Contents /\ task \in BOOLEAN
        /\ bridge \in Addresses \cup {"none"}
        /\ container.at # "none" => main.at = "started"
    BY DEF Invariant, ConfigTypeOK, Exclusive, Containers
  <1>1. CASE EntrypointReads
    <2>1. (EntrypointMode = "tor") \in BOOLEAN
      OBVIOUS
    <2>2. container' \in Containers
      BY <1>1, <1>a, <2>1 DEF EntrypointReads, Containers
    <2> QED BY <1>1, <1>a, <2>2, OtherMoves DEF EntrypointReads, outsideVars, configureVars
  <1>2. CASE LoadConfig
    <2>1. container' \in Containers
      <3>1. CASE container' = [container EXCEPT !.at = "config_error"]
        BY <1>a, <3>1 DEF Containers
      <3>2. CASE container' = [container EXCEPT !.at = "crashed"]
        BY <1>a, <3>2 DEF Containers
      <3>3. CASE /\ file.kind = "yaml" /\ LoadResult(file.config) \notin {"error", "crash"}
                 /\ container' = [container EXCEPT !.at = "loaded",
                      !.config = [file.config EXCEPT !.network = LoadedNetwork(file.config)]]
        <4>1. file.config \in Configs
          BY <1>a, <3>3, YamlTyped
        <4>2. LoadResult(file.config) = "ok"
          BY <3>3, <4>1 DEF LoadResult, Configs, Payouts, Unstrippable
        <4>3. LoadedNetwork(file.config) \in Networks
          BY <4>1, <4>2, LoadedTyped DEF Networks
        <4>4. [file.config EXCEPT !.network = LoadedNetwork(file.config)] \in Configs
          BY <4>1, <4>3 DEF Configs
        <4> QED BY <1>a, <3>3, <4>4 DEF Containers
      <3> QED BY <1>2, <3>1, <3>2, <3>3 DEF LoadConfig
    <2> QED BY <1>2, <1>a, <2>1, OtherMoves DEF LoadConfig, outsideVars, configureVars
  <1>3. CASE DaemonRestarts
    <2>1. container' \in Containers
      BY <1>3, IdleTyped DEF DaemonRestarts, Containers
    <2> QED BY <1>3, <1>a, <2>1, OtherMoves DEF DaemonRestarts, outsideVars, configureVars
  <1> QED BY <1>1, <1>2, <1>3 DEF Run

LEMMA ConfigureInv == Invariant /\ Configure => Invariant'
  <1> SUFFICES ASSUME Invariant, Configure PROVE Invariant'
    OBVIOUS
  <1>a. /\ file \in Contents /\ tmp \in Contents \cup {Truncated} /\ configure \in Configures
        /\ task \in BOOLEAN /\ saved \in Settings \cup {Unsaved}
    BY DEF Invariant, ConfigTypeOK, Configures
  <1>b. configure.at # "idle" =>
          /\ ~wanted
          /\ configure.patch.payout = "good"
          /\ configure.patch.user \in {"good", "ambiguous"}
          /\ configure.patch.network \in {"tor", "clearnet"}
    BY DEF Permitted, Invariant, Exclusive, Pending
  <1>1. CASE ConfigureResolves
    <2> DEFINE password == Resolve(configure.patch.password, Existing.password)
    <2>1. CASE configure' = ConfigureIdle
      <3>1. configure' \in Configures /\ configure'.at = "idle"
        BY <2>1, IdleTyped DEF ConfigureIdle
      <3> QED BY <1>1, <1>a, <1>b, <3>1, ConfigureMoves DEF ConfigureResolves, fileVars, Merging
    <2>2. CASE /\ password # "none"
               /\ configure' = [configure EXCEPT !.at = "read", !.patch.password = password]
      <3>1. Existing \in Configs
        BY <1>1, <1>a, ExistingTyped DEF ConfigureResolves
      <3>2. password \in Passwords
        BY <1>a, <2>2, <3>1 DEF Resolve, Configs, Configures
      <3> HIDE DEF password
      <3>3. [configure.patch EXCEPT !.password = password] \in Configs
        BY <1>a, <3>2 DEF Configs, Configures
      <3>4. /\ configure' \in Configures /\ configure'.at = "read"
            /\ configure'.patch = [configure.patch EXCEPT !.password = password]
        BY <1>a, <2>2, <3>3 DEF Configures
      <3>5. /\ configure'.patch.password = password
            /\ configure'.patch.payout = configure.patch.payout
            /\ configure'.patch.user = configure.patch.user
            /\ configure'.patch.network = configure.patch.network
        BY <1>a, <3>2, <3>4 DEF Configs, Configures
      <3> QED BY <1>1, <1>a, <1>b, <3>2, <3>4, <3>5, ConfigureMoves
                 DEF ConfigureResolves, fileVars, Merging, Permitted
    <2> QED BY <1>1, <2>1, <2>2 DEF ConfigureResolves, ConfigureEnds
  <1>2. CASE ConfigureMerges
    <2> DEFINE next == [configure.patch EXCEPT !.host = Existing.host, !.port = Existing.port]
    <2>1. Existing \in Configs
      BY <1>2, <1>a, ExistingTyped DEF ConfigureMerges
    <2>2. /\ next \in Configs /\ next.payout = configure.patch.payout
          /\ next.user = configure.patch.user
          /\ next.password = configure.patch.password /\ next.network = configure.patch.network
      BY <1>a, <2>1 DEF Configs, Configures
    <2>3. configure' = [configure EXCEPT !.at = "empty", !.next = next] /\ configure.at = "read"
      BY <1>2 DEF ConfigureMerges
    <2> HIDE DEF next
    <2>4. /\ configure' \in Configures /\ configure'.at = "empty" /\ configure'.next = next
          /\ configure'.patch = configure.patch
      BY <1>a, <2>2, <2>3 DEF Configures
    <2>5. configure.patch.password \in Passwords
      BY <2>3 DEF Invariant, Pending, Merging
    <2> QED BY <1>2, <1>a, <1>b, <2>2, <2>3, <2>4, <2>5, ConfigureMoves
               DEF ConfigureMerges, fileVars, Merging, Permitted
  <1>3. CASE ConfigureWrites
    <2>1. configure.at \in {"empty", "fill"}
      BY <1>3 DEF ConfigureWrites
    <2>2. /\ configure.next.payout = configure.patch.payout
          /\ configure.next.user = configure.patch.user
          /\ configure.next.password = configure.patch.password
          /\ configure.next.network = configure.patch.network
          /\ configure.patch.password \in Passwords
      BY <2>1 DEF Invariant, Pending, Merging
    <2>3. /\ configure' \in Configures /\ configure'.at \in {"fill", "rename"}
          /\ configure'.next = configure.next /\ configure'.patch = configure.patch
          /\ file' = file /\ tmp' \in Contents \cup {Truncated}
          /\ configure'.at = "rename" => tmp' = Yaml(configure.next)
      <3>1. CASE configure.at = "empty"
        BY <1>3, <1>a, <3>1 DEF ConfigureWrites, ConfigureGoes, Configures, Empties
      <3>2. CASE configure.at = "fill"
        BY <1>3, <1>a, <3>2 DEF ConfigureWrites, ConfigureGoes, Configures, Fills, Contents
      <3> QED BY <2>1, <3>1, <3>2
    <2> QED BY <1>3, <1>a, <1>b, <2>1, <2>2, <2>3, ConfigureMoves
               DEF ConfigureWrites, Merging, Permitted
  <1>4. CASE ConfigureSaves
    <2>1. configure.at = "rename"
      BY <1>4 DEF ConfigureSaves
    <2>2. configure.patch.password \in Passwords /\ tmp = Yaml(configure.next)
      BY <2>1 DEF Invariant, Pending, Merging
    <2>3. file' = tmp /\ tmp' = Absent /\ configure' = ConfigureIdle /\ task' = FALSE
      BY <1>4 DEF ConfigureSaves, Renames, ConfigureEnds
    <2>4. tmp \in Contents
      BY <1>a, <2>2 DEF Contents, Configures
    <2>5. saved' \in Settings
      BY <1>4, <1>b, <2>1, <2>2 DEF ConfigureSaves, Settings
    <2>6. configure' \in Configures /\ configure'.at = "idle" /\ task' \in BOOLEAN
      BY <2>3, IdleTyped DEF ConfigureIdle
    <2> QED BY <1>4, <1>b, <2>1, <2>3, <2>4, <2>5, <2>6, IdleTyped, ConfigureMoves
               DEF ConfigureSaves, Merging
  <1>5. CASE ConfigureFails
    <2>1. configure' \in Configures /\ configure'.at = "idle"
      BY <1>5, IdleTyped DEF ConfigureFails, ConfigureEnds, ConfigureIdle
    <2> QED BY <1>5, <1>a, <1>b, <2>1, ConfigureMoves DEF ConfigureFails, fileVars, Merging
  <1> QED BY <1>1, <1>2, <1>3, <1>4, <1>5 DEF Configure

LEMMA OutsideInv == Invariant /\ (MainRefires \/ Outside) => Invariant'
  <1> SUFFICES ASSUME Invariant, MainRefires \/ Outside PROVE Invariant'
    OBVIOUS
  <1>a. /\ file \in Contents /\ tmp \in Contents \cup {Truncated} /\ main \in Mains
        /\ configure \in Configures /\ container \in Containers /\ task \in BOOLEAN
        /\ bridge \in Addresses \cup {"none"} /\ saved \in Settings \cup {Unsaved}
        /\ wanted \in BOOLEAN /\ upsets \in 0..MaxUpsets
    BY DEF Invariant, ConfigTypeOK, Mains, Configures, Containers
  <1>b. /\ MainOff.at = "off" /\ ConfigureIdle.at = "idle" /\ NoContainer.at = "none"
    BY DEF MainOff, ConfigureIdle, NoContainer
  <1>c. upsets < MaxUpsets => upsets + 1 \in 0..MaxUpsets
    BY <1>a, ConfigStoreAssumption
  <1>1. CASE MainRefires
    <2>1. main' \in Mains /\ main'.at = "bridge"
      BY <1>1, IdleTyped DEF MainRefires, Mains
    <2>2. ConfigTypeOK'
      BY <1>1, <1>a, <2>1, IdleTyped DEF MainRefires, Invariant, ConfigTypeOK, Mains, Containers,
            fileVars, outsideVars, configureVars
    <2>3. wanted /\ configure.at = "idle"
      BY <1>1 DEF MainRefires, Invariant, Exclusive
    <2>4. Exclusive' /\ Pending'
      BY <1>1, <1>b, <2>1, <2>3 DEF MainRefires, Exclusive, Pending, Merging, outsideVars,
            configureVars
    <2> QED BY <2>2, <2>4 DEF Invariant
  <1>2. CASE OperatorStarts
    <2>1. ConfigTypeOK'
      BY <1>2 DEF OperatorStarts, Invariant, ConfigTypeOK, fileVars, configureVars
    <2>2. Exclusive' /\ Pending'
      BY <1>2 DEF OperatorStarts, Invariant, Exclusive, Pending, fileVars, configureVars
    <2> QED BY <2>1, <2>2 DEF Invariant
  <1>3. CASE OperatorStops \/ ServerCrashes
    <2>1. /\ main' = MainOff /\ container' = NoContainer /\ file' = file /\ tmp' = tmp
          /\ task' = task /\ saved' = saved /\ bridge' = bridge
          /\ configure' = configure \/ configure' = ConfigureIdle
      BY <1>3 DEF OperatorStops, ServerCrashes, fileVars, configureVars
    <2>a. (wanted' <=> wanted) \/ ~wanted'
      BY <1>3 DEF OperatorStops, ServerCrashes
    <2>b. wanted' \in BOOLEAN
      BY <1>3, <1>a DEF OperatorStops, ServerCrashes
    <2>2. upsets' \in 0..MaxUpsets
      BY <1>3, <1>a, <1>c DEF OperatorStops, ServerCrashes
    <2>3. ConfigTypeOK'
      BY <1>a, <2>1, <2>2, <2>b, IdleTyped DEF ConfigTypeOK, Mains, Configures, Containers
    <2>4. Exclusive' /\ Pending'
      BY <1>b, <2>1, <2>a DEF Invariant, Exclusive, Pending, Merging
    <2> QED BY <2>3, <2>4 DEF Invariant
  <1>4. CASE BridgeChanges
    BY <1>4, <1>a, OtherMoves DEF BridgeChanges, Invariant, Exclusive, configureVars
  <1>5. CASE RequireConfiguration
    BY <1>5, <1>a, OtherMoves DEF RequireConfiguration, Invariant, Exclusive, outsideVars
  <1>6. CASE HandEdit
    <2>1. file' \in Contents
      <3>1. CASE file' \in {Absent, Malformed}
        BY <3>1 DEF Contents
      <3>2. CASE /\ file.kind = "yaml"
                 /\ \E c \in Configs : file' = Yaml(c)
        BY <3>2 DEF Contents
      <3>3. file.kind = "yaml" =>
              /\ \A p \in Payouts : [file.config EXCEPT !.payout = p] \in Configs
              /\ [file.config EXCEPT !.host = "url"] \in Configs
              /\ \A p \in Ports : [file.config EXCEPT !.port = p] \in Configs
              /\ \A u \in Users : [file.config EXCEPT !.user = u] \in Configs
              /\ \A n \in Networks : [file.config EXCEPT !.network = n] \in Configs
        BY <1>a, YamlTyped DEF Configs, Hosts
      <3> QED BY <1>6, <3>1, <3>2, <3>3 DEF HandEdit
    <2>2. /\ configure.at = "idle" /\ main.at = "off" /\ container.at = "none" /\ ~wanted
      BY <1>6 DEF HandEdit, Invariant, Exclusive
    <2>3. ConfigTypeOK'
      BY <1>6, <1>a, <1>c, <2>1 DEF HandEdit, ConfigTypeOK, Mains, Configures, Containers
    <2>4. Exclusive' /\ Pending'
      BY <1>6, <2>2 DEF HandEdit, Exclusive, Pending, Merging
    <2> QED BY <2>3, <2>4 DEF Invariant
  <1>7. CASE WriteFails
    <2>1. tmp' \in Contents \cup {Truncated}
      BY <1>7, <1>a DEF WriteFails
    <2>2. \/ main' = MainOff /\ configure' = configure /\ main.at \in Merging
          \/ main' = main /\ configure' = ConfigureIdle /\ configure.at \in Merging
      BY <1>7 DEF WriteFails, ConfigureEnds, Merging
    <2>3. ConfigTypeOK'
      BY <1>7, <1>a, <1>c, <2>1, <2>2, IdleTyped DEF WriteFails, ConfigTypeOK, Mains, Configures,
            Containers
    <2>4. Exclusive' /\ Pending'
      BY <1>7, <1>b, <2>2 DEF WriteFails, Invariant, Exclusive, Pending, Merging
    <2> QED BY <2>3, <2>4 DEF Invariant
  <1>8. CASE ConfigureBegins
    <2>1. PICK u \in {"good", "ambiguous"}, p \in Passwords \cup {"none"}, n \in {"tor", "clearnet"} :
            configure' = [ConfigureIdle EXCEPT
                            !.at = "resolve",
                            !.patch = [Nothing EXCEPT !.payout = "good", !.user = u,
                                                      !.password = p, !.network = n]]
      BY <1>8 DEF ConfigureBegins
    <2> DEFINE patch == [Nothing EXCEPT !.payout = "good", !.user = u,
                                        !.password = p, !.network = n]
    <2>2. patch \in Configs /\ Permitted(patch)
      BY DEF Nothing, Configs, Payouts, Hosts, Ports, Users, Networks, Permitted
    <2>3. configure' = [ConfigureIdle EXCEPT !.at = "resolve", !.patch = patch]
      BY <2>1
    <2> HIDE DEF patch
    <2>4. configure' \in Configures /\ configure'.at = "resolve" /\ configure'.patch = patch
      BY <2>2, <2>3, IdleTyped DEF Configures
    <2> QED BY <1>8, <1>a, <2>2, <2>4, ConfigureMoves DEF ConfigureBegins, fileVars, Merging
  <1> QED BY <1>1, <1>2, <1>3, <1>4, <1>5, <1>6, <1>7, <1>8 DEF Outside

LEMMA StepInv == Invariant /\ [Next]_vars => Invariant'
  <1>1. Invariant /\ UNCHANGED vars => Invariant'
    BY DEF vars, Invariant, ConfigTypeOK, Exclusive, Pending
  <1> QED BY <1>1, StartInv, RunInv, ConfigureInv, OutsideInv DEF Next

\* main, Configure and the container keep out of each other's way, and what is
\* renamed is what was merged (config.yaml.ts:48-60).
THEOREM Inductive == Spec => []Invariant
  BY InitInv, StepInv, PTL DEF Spec

\* Every variable has its type; config.yaml is never truncated, whatever is edited,
\* fails or crashes (config.yaml.ts:37-44).
THEOREM ConfigTypeCorrect == Spec => []ConfigTypeOK
  <1>1. Invariant => ConfigTypeOK
    BY DEF Invariant
  <1> QED BY <1>1, Inductive, PTL

-----------------------------------------------------------------------------
(* Who changes the file, and when.                                           *)

\* The file changes when main or Configure renames, or by hand; main never writes, and
\* nothing else does, while a container runs.
LEMMA FileSteps ==
    ASSUME Invariant, [Next]_vars, file' # file
    PROVE  /\ \/ main.at = "rename" /\ MainWrites
              \/ ConfigureSaves
              \/ HandEdit
           /\ container.at = "none" /\ container' = container
  <1>1. ~(Run \/ MainRefires \/ MainStarts \/ MainResolves \/ MainMerges \/ MainFails
          \/ DaemonStarts \/ UNCHANGED vars)
    BY DEF Run, EntrypointReads, LoadConfig, DaemonRestarts, MainRefires, MainStarts, MainResolves,
           MainMerges, MainFails, DaemonStarts, vars, fileVars
  <1>2. ~(ConfigureResolves \/ ConfigureMerges \/ ConfigureWrites \/ ConfigureFails)
    BY DEF ConfigureResolves, ConfigureMerges, ConfigureWrites, ConfigureFails, fileVars, Empties,
           Fills
  <1>3. ~(OperatorStarts \/ OperatorStops \/ BridgeChanges \/ ServerCrashes \/ WriteFails
          \/ ConfigureBegins \/ RequireConfiguration)
    BY DEF OperatorStarts, OperatorStops, BridgeChanges, ServerCrashes, WriteFails,
           ConfigureBegins, RequireConfiguration, fileVars
  <1>4. CASE MainWrites
    <2>1. main.at = "rename"
      BY <1>4 DEF MainWrites, Empties, Fills
    <2>2. container.at = "none" /\ container' = container
      BY <1>4, <2>1 DEF MainWrites, Invariant, Exclusive
    <2> QED BY <1>4, <2>1, <2>2
  <1>5. CASE ConfigureSaves \/ HandEdit
    BY <1>5 DEF ConfigureSaves, HandEdit, Invariant, Exclusive
  <1> QED BY <1>1, <1>2, <1>3, <1>4, <1>5 DEF Next, Start, Configure, Outside

\* What is outside leaves main and the container alone, or ends them.
LEMMA OutsideSteps ==
    ASSUME Outside
    PROVE  /\ main' = main \/ main' = MainOff
           /\ container' = container \/ container' = NoContainer
  <1>1. CASE OperatorStarts \/ BridgeChanges
    BY <1>1 DEF OperatorStarts, BridgeChanges
  <1>2. CASE OperatorStops \/ ServerCrashes
    BY <1>2 DEF OperatorStops, ServerCrashes
  <1>3. CASE HandEdit
    BY <1>3 DEF HandEdit
  <1>4. CASE WriteFails
    BY <1>4 DEF WriteFails
  <1>5. CASE ConfigureBegins
    BY <1>5 DEF ConfigureBegins
  <1>6. CASE RequireConfiguration
    BY <1>6 DEF RequireConfiguration
  <1> QED BY <1>1, <1>2, <1>3, <1>4, <1>5, <1>6 DEF Outside

-----------------------------------------------------------------------------
(* What was saved.                                                           *)

Matches(c) == /\ c.payout = saved.payout
              /\ c.user = saved.user
              /\ c.password = saved.password
              /\ c.network = saved.network

Kept ==
    saved # Unsaved =>
        /\ file.kind = "yaml" /\ Matches(file.config)
        /\ main.at \in Merging => Matches(main.next)

LEMMA KeptInit == Init => Kept
  BY DEF Init, Kept

LEMMA KeptStep == Invariant /\ Kept /\ [Next]_vars => Kept'
  <1> SUFFICES ASSUME Invariant, Kept, [Next]_vars, saved' # Unsaved PROVE Kept'
    BY DEF Kept
  <1>1. CASE ConfigureSaves
    <2>1. configure.at = "rename" /\ main' = main /\ file' = tmp
          /\ saved' = [payout |-> "good", user |-> configure.patch.user,
                       password |-> configure.patch.password,
                       network |-> configure.patch.network]
      BY <1>1 DEF ConfigureSaves, Renames
    <2>2. tmp = Yaml(configure.next) /\ main.at = "off"
          /\ configure.next.payout = "good"
          /\ configure.next.user = configure.patch.user
          /\ configure.next.password = configure.patch.password
          /\ configure.next.network = configure.patch.network
      BY <2>1 DEF Invariant, Exclusive, Pending, Merging, Permitted
    <2> QED BY <2>1, <2>2 DEF Kept, Matches, Yaml, Merging
  <1>2. CASE HandEdit
    BY <1>2 DEF HandEdit
  <1>3. CASE ~ConfigureSaves /\ ~HandEdit
    <2>1. saved' = saved
      BY <1>3 DEF Next, Start, Run, Configure, Outside, MainStarts, MainResolves, MainMerges,
            MainWrites, MainFails, DaemonStarts, EntrypointReads, LoadConfig, DaemonRestarts,
            MainRefires, ConfigureResolves, ConfigureMerges, ConfigureWrites, ConfigureFails,
            OperatorStarts, OperatorStops, BridgeChanges, ServerCrashes, WriteFails,
            ConfigureBegins, RequireConfiguration, configureVars, vars
    <2>2. file.kind = "yaml" /\ Matches(file.config)
          /\ (main.at \in Merging => Matches(main.next))
      BY <2>1 DEF Kept
    <2>3. file' # file => main.at = "rename" /\ MainWrites
      BY <1>3, FileSteps
    <2>4. file'.kind = "yaml" /\ Matches(file'.config)
      <3>1. CASE file' = file
        BY <2>2, <3>1
      <3>2. CASE file' # file
        <4>1. main.at = "rename" /\ file' = tmp
          BY <2>3, <3>2 DEF MainWrites, Renames
        <4>2. file' = Yaml(main.next)
          BY <4>1 DEF Invariant, Pending
        <4> QED BY <2>2, <4>1, <4>2 DEF Yaml, Merging
      <3> QED BY <3>1, <3>2
    <2>5. main'.at \in Merging => Matches(main'.next)
      <3>a. main \in Mains /\ file \in Contents /\ saved \in Settings
        BY <2>1 DEF Invariant, ConfigTypeOK, Mains
      <3>1. CASE MainMerges
        <4>1. file # Absent
          BY <2>2 DEF Absent
        <4>2. file.config \in Configs /\ Existing = Parse(file.config) /\ Existing \in Configs
          BY <1>3, <3>1, <3>a, <4>1, ExistingTyped DEF MainMerges
        <4>3. Matches(Existing)
          BY <2>2, <3>a, <4>2 DEF Matches, Settings, Parse, Configs
        <4>4. main'.next = [Existing EXCEPT !.host = main.address, !.port = "good"]
          BY <3>1, <3>a DEF MainMerges, Mains
        <4> QED BY <4>2, <4>3, <4>4 DEF Matches, Configs
      <3>2. CASE MainWrites
        <4>1. main'.next = main.next /\ (main'.at \in Merging => main.at \in Merging)
          BY <3>2, <3>a DEF MainWrites, MainGoes, Mains, Merging
        <4> QED BY <2>2, <4>1
      <3>3. CASE ~MainMerges /\ ~MainWrites
        <4>1. main' = main \/ main'.at \notin Merging
          <5>1. CASE Start \/ MainRefires
            <6>1. CASE MainStarts \/ MainFails \/ MainRefires
              BY <6>1 DEF MainStarts, MainFails, MainRefires, MainOff, Merging
            <6>2. CASE MainResolves
              <7>1. main'.at \in {"network", "read"}
                BY <3>a, <6>2 DEF MainResolves, Mains
              <7> QED BY <7>1 DEF Merging
            <6>3. CASE DaemonStarts
              BY <3>a, <6>3 DEF DaemonStarts, MainGoes, Mains, Merging
            <6> QED BY <5>1, <3>3, <6>1, <6>2, <6>3 DEF Start
          <5>2. CASE Run \/ Configure \/ UNCHANGED vars
            BY <5>2 DEF Run, EntrypointReads, LoadConfig, DaemonRestarts, Configure,
                  ConfigureResolves, ConfigureMerges, ConfigureWrites, ConfigureSaves,
                  ConfigureFails, vars
          <5>3. CASE Outside
            BY <5>3, OutsideSteps DEF MainOff, Merging
          <5> QED BY <5>1, <5>2, <5>3 DEF Next
        <4> QED BY <2>2, <4>1
      <3> QED BY <3>1, <3>2, <3>3
    <2> QED BY <2>1, <2>4, <2>5 DEF Kept, Matches
  <1> QED BY <1>1, <1>2, <1>3

\* What Configure has saved stays in the file until it is saved again or edited by
\* hand, through every merge of main, every failed write and every crash.
THEOREM SavedSettingsKept == Spec => []SavedIsKept
  <1>1. Kept => SavedIsKept
    BY DEF Kept, SavedIsKept, Matches
  <1> QED BY <1>1, KeptInit, KeptStep, Inductive, PTL DEF Spec

-----------------------------------------------------------------------------
(* What main repairs, and the address it writes.                             *)

Clean(c) == c.payout # "nonstring" /\ c.user # "nonstring" /\ c.network \in {"tor", "clearnet"}

Repaired ==
    /\ main.at \in Merging => Clean(main.next) /\ main.next.host = main.address
    /\ main.at \in {"network", "started"} /\ main.address # "none"
          => file.kind = "yaml" /\ Clean(file.config) /\ file.config.host = main.address
    /\ RepairedBeforeLoad
    /\ AddressOfStart

\* Config.load does not end the supplier for a file that main has written, but for what
\* main's YAML took for a string.
LEMMA CleanLoads ==
    ASSUME NEW c \in Configs, Clean(c), "ambiguous" \notin {c.payout, c.user}
    PROVE  LoadResult(c) # "crash"
  <1>1. c.payout \in {"none", "good", "bad"} /\ c.user \notin Unstrippable
        /\ c.network # "nonstring"
    BY DEF Clean, Configs, Payouts, Unstrippable
  <1>2. CASE c.payout \in {"none", "bad"} \/ c.host \in {"none", "url"}
    BY <1>1, <1>2 DEF LoadResult, Unstrippable
  <1>3. CASE c.payout = "good" /\ c.host \notin {"none", "url"}
    BY <1>1, <1>3 DEF LoadResult, Unstrippable
  <1> QED BY <1>1, <1>2, <1>3

LEMMA RepairedInit == Init => Repaired
  BY DEF Init, Repaired, RepairedBeforeLoad, AddressOfStart, MainOff, NoContainer, Merging

LEMMA RepairedStep == Invariant /\ Repaired /\ [Next]_vars => Repaired'
  <1> SUFFICES ASSUME Invariant, Repaired, [Next]_vars PROVE Repaired'
    OBVIOUS
  <1>a. /\ main \in Mains /\ container \in Containers /\ file \in Contents
        /\ container.at # "none" => main.at = "started"
    BY DEF Invariant, ConfigTypeOK, Exclusive, Mains, Containers
  <1>1. CASE MainMerges
    <2>1. Existing \in Configs /\ Clean(Existing)
      <3>1. \A c \in Configs : Clean(Parse(c))
        BY DEF Clean, Parse, Configs
      <3>2. Nothing \in Configs
        BY IdleTyped
      <3> QED BY <1>1, <1>a, <3>1, <3>2, ExistingTyped DEF MainMerges, Existing
    <2>2. main'.at = "empty" /\ container' = container /\ main.at = "read"
          /\ main'.next = [Existing EXCEPT !.host = main.address, !.port = "good"]
      BY <1>1, <1>a DEF MainMerges, Mains
    <2>3. Clean(main'.next) /\ main'.next.host = main'.address
      <3>1. main'.address = main.address
        BY <1>1, <1>a DEF MainMerges, Mains
      <3> QED BY <2>1, <2>2, <3>1 DEF Clean, Configs
    <2> QED BY <1>a, <2>2, <2>3 DEF Repaired, RepairedBeforeLoad, AddressOfStart
  <1>2. CASE MainWrites
    <2>1. container' = container /\ container.at = "none" /\ main'.next = main.next
          /\ main'.address = main.address
      BY <1>2, <1>a DEF MainWrites, MainGoes, Mains
    <2>2. CASE main.at \in {"empty", "fill"}
      BY <1>2, <1>a, <2>1, <2>2 DEF MainWrites, MainGoes, Mains, Merging, Repaired,
            RepairedBeforeLoad, AddressOfStart
    <2>3. CASE main.at = "rename"
      <3>1. file' = Yaml(main.next) /\ main'.at = "network"
        BY <1>2, <1>a, <2>3 DEF MainWrites, MainGoes, Renames, Mains, Invariant, Pending
      <3>2. Clean(main.next) /\ main.next.host = main.address
        BY <2>3 DEF Repaired, Merging
      <3> QED BY <2>1, <3>1, <3>2 DEF Yaml, Merging, Repaired, RepairedBeforeLoad, AddressOfStart, Clean
    <2> QED BY <1>2, <2>2, <2>3 DEF MainWrites
  <1>3. CASE LoadConfig
    <2>1. /\ main' = main /\ file' = file
          /\ container.at # "none"
      BY <1>3 DEF LoadConfig, fileVars
    <2>2. container'.at = "crashed" => file.kind = "yaml" /\ LoadResult(file.config) = "crash"
      BY <1>3, <1>a DEF LoadConfig, Containers
    <2>3. container'.at = "crashed" =>
            ~Clean(file.config) \/ "ambiguous" \in {file.config.payout, file.config.user}
      BY <1>a, <2>2, YamlTyped, CleanLoads
    <2>4. container'.at = "loaded" =>
            file.kind = "yaml" /\ container'.config.host = file.config.host
      <3>1. CASE container'.at = "loaded"
        <4>1. file.kind = "yaml" /\ container'.config =
                [file.config EXCEPT !.network = LoadedNetwork(file.config)]
          BY <1>3, <1>a, <3>1 DEF LoadConfig, Containers
        <4>2. file.config \in Configs
          BY <1>a, <4>1, YamlTyped
        <4> QED BY <4>1, <4>2 DEF Configs
      <3> QED BY <3>1
    <2> QED BY <1>a, <2>1, <2>2, <2>3, <2>4 DEF Repaired, RepairedBeforeLoad, AddressOfStart
  <1>4. CASE MainStarts \/ MainResolves \/ MainFails
    <2>1. container' = container /\ container.at = "none"
      BY <1>4, <1>a DEF MainStarts, MainResolves, MainFails
    <2>2. \/ main'.at \in {"bridge", "read", "off"}
          \/ main'.at = "network" /\ main'.address = "none"
      <3>1. CASE MainStarts \/ MainFails
        BY <3>1 DEF MainStarts, MainFails, MainOff
      <3>2. CASE MainResolves
        BY <1>a, <3>2 DEF MainResolves, Mains
      <3> QED BY <1>4, <3>1, <3>2
    <2> QED BY <2>1, <2>2 DEF Repaired, RepairedBeforeLoad, AddressOfStart, Merging
  <1>5. CASE DaemonStarts \/ MainRefires \/ DaemonRestarts \/ EntrypointReads
    <2>1. /\ file' = file /\ container'.at \notin {"crashed", "loaded"}
          /\ \/ main'.at = "bridge"
             \/ main' = main
             \/ main.at = "network" /\ main'.at = "started" /\ main'.address = main.address
      <3>1. CASE DaemonStarts
        BY <1>a, <3>1 DEF DaemonStarts, MainGoes, NoContainer, Mains, fileVars
      <3>2. CASE MainRefires
        BY <3>2 DEF MainRefires, MainOff, NoContainer, fileVars
      <3>3. CASE DaemonRestarts
        BY <3>3 DEF DaemonRestarts, NoContainer, fileVars
      <3>4. CASE EntrypointReads
        <4>1. container'.at = "loading"
          BY <1>a, <3>4, Zenon DEF EntrypointReads, Containers
        <4> QED BY <3>4, <4>1 DEF EntrypointReads, fileVars
      <3> QED BY <1>5, <3>1, <3>2, <3>3, <3>4
    <2> QED BY <2>1 DEF Repaired, RepairedBeforeLoad, AddressOfStart, Merging
  <1>6. CASE Configure \/ UNCHANGED vars
    <2>1. main' = main /\ container' = container
      BY <1>6 DEF Configure, ConfigureResolves, ConfigureMerges, ConfigureWrites, ConfigureSaves,
            ConfigureFails, vars
    <2>2. file' = file \/ main.at = "off"
      <3>1. CASE ConfigureSaves
        BY <3>1 DEF ConfigureSaves, Invariant, Exclusive
      <3>2. CASE ~ConfigureSaves
        BY <1>6, <3>2 DEF Configure, ConfigureResolves, ConfigureMerges, ConfigureWrites,
              ConfigureFails, Empties, Fills, fileVars, vars
      <3> QED BY <3>1, <3>2
    <2> QED BY <1>a, <2>1, <2>2 DEF Repaired, RepairedBeforeLoad, AddressOfStart, Merging
  <1>7. CASE OperatorStarts \/ BridgeChanges \/ ConfigureBegins \/ RequireConfiguration
    BY <1>7 DEF OperatorStarts, BridgeChanges, ConfigureBegins, RequireConfiguration, fileVars,
          Repaired, RepairedBeforeLoad, AddressOfStart
  <1>8. CASE OperatorStops \/ ServerCrashes
    BY <1>8 DEF OperatorStops, ServerCrashes, MainOff, NoContainer, Repaired, RepairedBeforeLoad,
          AddressOfStart, Merging
  <1>9. CASE HandEdit
    BY <1>9, <1>a DEF HandEdit, Invariant, Exclusive, Repaired, RepairedBeforeLoad, AddressOfStart, Merging
  <1>10. CASE WriteFails
    <2>1. file' = file /\ container' = container
          /\ (main' = main \/ (main' = MainOff /\ main.at \in Merging))
      BY <1>10 DEF WriteFails, Merging
    <2> QED BY <1>a, <2>1 DEF MainOff, Repaired, RepairedBeforeLoad, AddressOfStart, Merging
  <1> QED
    BY <1>1, <1>2, <1>3, <1>4, <1>5, <1>6, <1>7, <1>8, <1>9, <1>10 DEF Next, Start, Run, Outside

\* What a start with a known address leaves in the file is that address, and nothing
\* else writes the file before Config.load: the supplier runs with it.
THEOREM AddressIsOfStart == Spec => []AddressOfStart
  <1>1. Repaired => AddressOfStart
    BY DEF Repaired
  <1> QED BY <1>1, RepairedInit, RepairedStep, Inductive, PTL DEF Spec

\* Once the node's address is known, main has repaired what would end the supplier,
\* except what YAML 1.2 and YAML 1.1 read differently (config.yaml.ts:16-23,
\* config.py:68).
THEOREM RepairPrecedesLoad == Spec => []RepairedBeforeLoad
  <1>1. Repaired => RepairedBeforeLoad
    BY DEF Repaired
  <1> QED BY <1>1, RepairedInit, RepairedStep, Inductive, PTL DEF Spec

-----------------------------------------------------------------------------
(* The two readers of the network mode.                                      *)

Modes ==
    /\ container.at \in {"loading", "config_error"} => (container.tor <=> EntrypointMode = "tor")
    /\ container.at = "loaded" =>
          /\ file.kind = "yaml"
          /\ container.config.network = LoadedNetwork(file.config)
          /\ container.config.network # "invalid"
          /\ container.tor <=> EntrypointMode = "tor"

LEMMA ModesInit == Init => Modes
  BY DEF Init, Modes, NoContainer

\* What changes a container, besides its own steps, is its start and its end.
LEMMA ContainerSteps ==
    ASSUME Invariant, [Next]_vars, ~EntrypointReads, ~LoadConfig
    PROVE  container' = container \/ container'.at \in {"none", "entrypoint"}
  <1>1. CASE Start \/ DaemonRestarts \/ MainRefires
    BY <1>1 DEF Start, MainStarts, MainResolves, MainMerges, MainWrites, MainFails, DaemonStarts,
          DaemonRestarts, MainRefires, NoContainer
  <1>2. CASE Configure \/ UNCHANGED vars
    BY <1>2 DEF Configure, ConfigureResolves, ConfigureMerges, ConfigureWrites, ConfigureSaves,
          ConfigureFails, vars
  <1>3. CASE Outside
    BY <1>3, OutsideSteps DEF NoContainer
  <1> QED BY <1>1, <1>2, <1>3 DEF Next, Run

LEMMA ModesStep == Invariant /\ Modes /\ [Next]_vars => Modes'
  <1> SUFFICES ASSUME Invariant, Modes, [Next]_vars PROVE Modes'
    OBVIOUS
  <1>a. container \in Containers /\ file \in Contents
    BY DEF Invariant, ConfigTypeOK, Containers
  <1>1. CASE EntrypointReads
    <2>1. container'.at = "loading" /\ (container'.tor <=> EntrypointMode = "tor") /\ file' = file
      <3>1. container' = [container EXCEPT !.at = "loading", !.tor = (EntrypointMode = "tor")]
            /\ file' = file
        BY <1>1 DEF EntrypointReads, fileVars
      <3>2. container'.at = "loading" /\ container'.tor = (EntrypointMode = "tor")
        BY <1>a, <3>1, Zenon DEF Containers
      <3> QED BY <3>1, <3>2
    <2>2. EntrypointMode' = EntrypointMode
      BY <2>1 DEF EntrypointMode
    <2> QED BY <2>1, <2>2 DEF Modes
  <1>2. CASE LoadConfig
    <2>1. container.at \in {"loading", "config_error"} /\ file' = file
      BY <1>2 DEF LoadConfig, fileVars
    <2>2. EntrypointMode' = EntrypointMode
      BY <2>1 DEF EntrypointMode
    <2>3. CASE container' = [container EXCEPT !.at = "config_error"]
                \/ container' = [container EXCEPT !.at = "crashed"]
      <3>1. container'.tor = container.tor /\ container'.at \in {"config_error", "crashed"}
        BY <1>a, <2>3 DEF Containers
      <3> QED BY <2>1, <2>2, <3>1 DEF Modes
    <2>4. CASE /\ file.kind = "yaml" /\ LoadResult(file.config) \notin {"error", "crash"}
               /\ container' = [container EXCEPT !.at = "loaded",
                    !.config = [file.config EXCEPT !.network = LoadedNetwork(file.config)]]
      <3>1. file.config \in Configs
        BY <1>a, <2>4, YamlTyped
      <3>2. /\ container'.at = "loaded" /\ container'.tor = container.tor
            /\ container'.config.network = LoadedNetwork(file.config)
        BY <1>a, <2>4, <3>1 DEF Containers, Configs
      <3>3. LoadResult(file.config) = "ok"
        BY <2>4, <3>1 DEF LoadResult, Configs, Payouts, Unstrippable
      <3>4. LoadedNetwork(file.config) # "invalid"
        BY <3>1, <3>3, LoadedTyped
      <3>5. container'.tor <=> EntrypointMode = "tor"
        BY <2>1, <3>2 DEF Modes
      <3> QED BY <2>1, <2>2, <2>4, <3>2, <3>4, <3>5 DEF Modes
    <2> QED BY <1>2, <2>3, <2>4 DEF LoadConfig
  <1>3. CASE ~EntrypointReads /\ ~LoadConfig
    <2>1. CASE container'.at \in {"none", "entrypoint"}
      BY <2>1 DEF Modes
    <2>2. CASE container' = container /\ container.at # "none"
      <3>1. file' = file
        BY <2>2, FileSteps
      <3>2. EntrypointMode' = EntrypointMode
        BY <3>1 DEF EntrypointMode
      <3> QED BY <2>2, <3>1, <3>2 DEF Modes
    <2> QED BY <1>3, <2>1, <2>2, ContainerSteps
  <1> QED BY <1>1, <1>2, <1>3

\* Sed and the YAML reader of Config.load find the same mode in a file that main has
\* merged; in any other, the supplier publishes over Tor without a daemon for one
\* reason alone, that sed cuts the network line short (docker_entrypoint.sh:24).
THEOREM TorModeAgreed == Spec => []TorModeHasDaemon
  <1>1. Invariant /\ Repaired /\ Modes => TorModeHasDaemon
    <2> SUFFICES ASSUME Invariant, Repaired, Modes, container.at = "loaded"
                 PROVE  /\ main.address # "none" =>
                             (container.tor <=> container.config.network = "tor")
                        /\ container.config.network = "tor" =>
                             container.tor \/ file.config.network = "toR"
      BY DEF TorModeHasDaemon
    <2>1. /\ file \in Contents /\ file.kind = "yaml" /\ main.at = "started"
          /\ container.config.network = LoadedNetwork(file.config)
          /\ container.config.network # "invalid"
          /\ container.tor <=> EntrypointMode = "tor"
      BY DEF Invariant, ConfigTypeOK, Exclusive, Modes
    <2>2. file.config \in Configs
      BY <2>1, YamlTyped
    <2>3. CASE main.address # "none"
      <3>1. file.config.network \in {"tor", "clearnet"}
        BY <2>1, <2>3 DEF Repaired, Clean
      <3>2. EntrypointMode = "tor" <=> LoadedNetwork(file.config) = "tor"
        BY <2>1, <3>1 DEF EntrypointMode, SedNetwork, LoadedNetwork
      <3> QED BY <2>1, <3>2
    <2>4. CASE main.address = "none" /\ file.config.network # "toR"
      <3>1. LoadedNetwork(file.config) = "tor" => EntrypointMode = "tor"
        BY <2>1, <2>2, <2>4 DEF LoadedNetwork, EntrypointMode, SedNetwork, Configs, Networks
      <3> QED BY <2>1, <2>4, <3>1
    <2>5. CASE main.address = "none" /\ file.config.network = "toR"
      BY <2>5
    <2> QED BY <2>3, <2>4, <2>5
  <1> QED BY <1>1, RepairedInit, RepairedStep, ModesInit, ModesStep, Inductive, PTL DEF Spec
=============================================================================
