----------------------------- MODULE ConfigStore -----------------------------
(* config.yaml and those who share it: mergeConfig (config.yaml.ts), called by   *)
(* the start of the daemon (main.ts) and by the Configure action; its reader in *)
(* the entrypoint (a sed), and its reader in the supplier (Config.load, a YAML  *)
(* parser, retried by _load_config); the task that asks for a configuration.    *)
(*                                                                              *)
(* The address of the node comes from StartOS and may change at any time; the   *)
(* operator may edit the file by hand while the service is stopped.             *)
EXTENDS Naturals

CONSTANTS
    Addresses,    \* addresses of the node's RPC port on the bridge
    Passwords,    \* RPC passwords, strings to every reader
    MaxUpsets     \* bound: hand edits, failed writes and crashes of the server

ASSUME ConfigStoreAssumption ==
    /\ MaxUpsets \in Nat
    /\ {"none", "url"} \cap (Addresses \cup Passwords) = {}

\* Values by how the readers treat them. "nonstring" is no string to any of them.
\* "ambiguous" is a string to YAML 1.2, in which main and Configure read and write it
\* back unquoted, and a date, a boolean or a number to the YAML 1.1 of the supplier:
\* 2024-01-01, on, 1_000; one that the supplier's cannot even build, 2024-13-45, is left
\* out. A "url" has "/" in it. A port that is missing is 8332 for all
\* of them, so it is good; a low one is below 1024. "toR" is tor to the supplier,
\* that lowers it, and another word to sed, that takes what is lower case already; Tor
\* is to all of them what a missing one is, "none".
\* supplier-name decides nothing.
Payouts  == {"none", "good", "bad", "nonstring", "ambiguous"}
Hosts    == Addresses \cup {"none", "url"}
Users    == {"none", "good", "nonstring", "ambiguous"}
Ports    == {"good", "low", "nonnumber"}
Networks == {"none", "tor", "clearnet", "toR", "Clearnet", "onion", "nonstring"}

Configs == [payout : Payouts, host : Hosts, port : Ports,
            user : Users, password : Passwords \cup {"none"}, network : Networks]

Absent    == [kind |-> "absent"]
Malformed == [kind |-> "malformed"]
Truncated == [kind |-> "truncated"]
Yaml(c)   == [kind |-> "yaml", config |-> c]

Contents == {Absent, Malformed} \cup {Yaml(c) : c \in Configs}

Settings == [payout : {"good"}, user : {"good", "ambiguous"}, password : Passwords,
             network : {"tor", "clearnet"}]
Unsaved  == [payout |-> "none"]

VARIABLES
    file,        \* config.yaml
    tmp,         \* config.yaml.tmp
    bridge,      \* the node's address, "none" while it is not installed
    wanted,      \* the service is started
    main,        \* setupMain: where it is, the address it saw, what it will write
    configure,   \* the Configure action: where it is, its settings, what it will write
    task,        \* the critical task is pending
    container,   \* entrypoint and supplier: where they are, whether Tor runs, what was loaded
    saved,       \* history: the settings last saved, until the file is changed by hand
    upsets       \* number of upsets so far

vars == <<file, tmp, bridge, wanted, main, configure, task, container, saved, upsets>>
fileVars == <<file, tmp>>
outsideVars == <<bridge, wanted, upsets>>
configureVars == <<configure, task, saved>>

Nothing == [payout |-> "none", host |-> "none", port |-> "good", user |-> "none",
            password |-> "none", network |-> "none"]

MainOff       == [at |-> "off", address |-> "none", next |-> Nothing]
ConfigureIdle == [at |-> "idle", patch |-> Nothing, next |-> Nothing]
NoContainer   == [at |-> "none", tor |-> FALSE, config |-> Nothing]

Init ==
    /\ file = Absent
    /\ tmp = Absent
    /\ bridge \in Addresses \cup {"none"}
    /\ wanted = FALSE
    /\ main = MainOff
    /\ configure = ConfigureIdle
    /\ task = TRUE
    /\ container = NoContainer
    /\ saved = Unsaved
    /\ upsets = 0

-----------------------------------------------------------------------------
(* mergeConfig.                                                              *)

Readable == file.kind # "malformed"

\* shape.parse of what YAML 1.2 reads: a value of the wrong type is replaced by its
\* default; an ambiguous one is a string, and a low port a port.
Parse_AsIs(c) == c

Parse(c) ==
    [c EXCEPT !.payout  = IF c.payout = "nonstring" THEN "none" ELSE c.payout,
              !.port    = IF c.port = "low" THEN "low" ELSE "good",
              !.user    = IF c.user = "nonstring" THEN "none" ELSE c.user,
              !.network = IF c.network = "clearnet" THEN "clearnet" ELSE "tor"]

\* (await configFile.read().once()) ?? emptyConfig()
Existing == Parse(IF file = Absent THEN Nothing ELSE file.config)

\* writeFile(tmp) empties the file, then fills it; rename replaces the target.
Empties_InPlace == file' = Truncated /\ UNCHANGED tmp

Empties == tmp' = Truncated /\ UNCHANGED file

Fills(next) == tmp' = Yaml(next) /\ UNCHANGED file

Renames == file' = tmp /\ tmp' = Absent

-----------------------------------------------------------------------------
(* The start of the daemon: setupMain.                                       *)

MainGoes(to) == main' = [main EXCEPT !.at = to]

\* The address is read with const(): a later change runs main again.
MainResolves ==
    /\ main.at = "bridge"
    /\ main' = [main EXCEPT !.address = bridge, !.at = IF bridge = "none" THEN "network" ELSE "read"]
    /\ UNCHANGED <<fileVars, outsideVars, configureVars, container>>

MainMerges_Alone ==
    /\ main.at = "read"
    /\ Readable
    /\ main' = [main EXCEPT !.at = "empty", !.next =
          [Parse(Nothing) EXCEPT !.host = main.address, !.port = "good"]]
    /\ UNCHANGED <<fileVars, outsideVars, configureVars, container>>

MainMerges_IfMissing ==
    /\ main.at = "read"
    /\ Readable
    /\ main' = [main EXCEPT !.at = "empty", !.next =
          [Existing EXCEPT !.host = IF @ = "none" THEN main.address ELSE @, !.port = "good"]]
    /\ UNCHANGED <<fileVars, outsideVars, configureVars, container>>

MainMerges ==
    /\ main.at = "read"
    /\ Readable
    /\ main' = [main EXCEPT !.at = "empty", !.next =
          [Existing EXCEPT !.host = main.address, !.port = "good"]]
    /\ UNCHANGED <<fileVars, outsideVars, configureVars, container>>

MainWrites ==
    /\ \/ main.at = "empty" /\ Empties /\ MainGoes("fill")
       \/ main.at = "fill" /\ Fills(main.next) /\ MainGoes("rename")
       \/ main.at = "rename" /\ Renames /\ MainGoes("network")
    /\ UNCHANGED <<outsideVars, configureVars, container>>

\* A file that cannot be parsed fails the start.
MainFails ==
    /\ main.at \in {"read", "network"}
    /\ ~Readable
    /\ main' = MainOff
    /\ UNCHANGED <<fileVars, outsideVars, configureVars, container>>

\* The daemon is started.
DaemonStarts ==
    /\ main.at = "network"
    /\ Readable
    /\ MainGoes("started")
    /\ container' = [NoContainer EXCEPT !.at = "entrypoint"]
    /\ UNCHANGED <<fileVars, outsideVars, configureVars>>

MainRefires_Never == main.at = "started" /\ bridge # main.address /\ UNCHANGED vars

\* The address has changed since main saw it; a main in progress is completed first.
MainRefires ==
    /\ main.at = "started"
    /\ bridge # main.address
    /\ main' = [MainOff EXCEPT !.at = "bridge"]
    /\ container' = NoContainer
    /\ UNCHANGED <<fileVars, outsideVars, configureVars>>

-----------------------------------------------------------------------------
(* The entrypoint and the supplier.                                          *)

\* sed takes the lowercase letters that the value begins with.
SedNetwork(c) ==
    CASE c.network \in {"tor", "clearnet", "onion"} -> c.network
      [] c.network = "toR"                          -> "to"
      [] OTHER                                      -> ""

EntrypointMode_NoDefault ==
    IF file = Absent THEN "tor" ELSE IF file.kind = "yaml" THEN SedNetwork(file.config) ELSE ""

\* Nothing found is tor. What is found in a file that YAML cannot parse is of no
\* consequence: the supplier never loads it.
EntrypointMode ==
    IF file.kind = "yaml" /\ SedNetwork(file.config) # "" THEN SedNetwork(file.config) ELSE "tor"

EntrypointReads ==
    /\ container.at = "entrypoint"
    /\ container' = [container EXCEPT !.at = "loading", !.tor = EntrypointMode = "tor"]
    /\ UNCHANGED <<fileVars, outsideVars, main, configureVars>>

\* raw.get("network", "tor").strip().lower()
LoadedNetwork(c) ==
    CASE c.network \in {"none", "tor", "toR"} -> "tor"
      [] c.network \in {"clearnet", "Clearnet"}      -> "clearnet"
      [] OTHER                                       -> "invalid"

\* What YAML 1.1 does not read as a string: strip fails on it.
Unstrippable == {"nonstring", "ambiguous"}

\* Config.load, its checks in their order.
LoadResult(c) ==
    CASE c.payout \in Unstrippable                           -> "crash"
      [] c.payout \in {"none", "bad"}                        -> "error"
      [] c.payout = "good" /\ c.host \in {"none", "url"}     -> "error"
      [] c.payout = "good" /\ c.host \notin {"none", "url"} ->
            IF c.port \in {"low", "nonnumber"} THEN "error"
            ELSE IF c.user \in Unstrippable THEN "crash"
            ELSE IF "none" \in {c.user, c.password} THEN "error"
            ELSE IF c.network = "nonstring" THEN "crash"
            ELSE IF LoadedNetwork(c) = "invalid" THEN "error" ELSE "ok"

\* _load_config: an error is reported and the file read again, anything else that
\* is raised ends the process.
LoadConfig ==
    /\ container.at \in {"loading", "config_error"}
    /\ container' =
         IF file.kind # "yaml" \/ LoadResult(file.config) = "error"
           THEN [container EXCEPT !.at = "config_error"]
         ELSE IF LoadResult(file.config) = "crash" THEN [container EXCEPT !.at = "crashed"]
         ELSE [container EXCEPT !.at = "loaded",
                 !.config = [file.config EXCEPT !.network = LoadedNetwork(file.config)]]
    /\ UNCHANGED <<fileVars, outsideVars, main, configureVars>>

-----------------------------------------------------------------------------
(* The Configure action. Inputs it refuses at once leave no trace.           *)

ConfigureGoes(to) == configure' = [configure EXCEPT !.at = to]

\* StartOS offers it while the service is stopped. The payout address is matched
\* against its pattern, any user will do. A blank password is "none".
ConfigureBegins ==
    /\ ~wanted
    /\ main.at = "off"
    /\ configure.at = "idle"
    /\ \E u \in {"good", "ambiguous"}, p \in Passwords \cup {"none"}, n \in {"tor", "clearnet"} :
          configure' = [ConfigureIdle EXCEPT
                          !.at = "resolve",
                          !.patch = [Nothing EXCEPT !.payout = "good", !.user = u,
                                                    !.password = p, !.network = n]]
    /\ UNCHANGED <<fileVars, outsideVars, main, task, container, saved>>

\* resolveRpcPassword: a blank one keeps what is stored.
Resolve(submitted, stored) == IF submitted # "none" THEN submitted ELSE stored

ConfigureEnds == configure' = ConfigureIdle

\* The stored configuration is read for its password; a first save needs one.
ConfigureResolves ==
    /\ configure.at = "resolve"
    /\ Readable
    /\ LET password == Resolve(configure.patch.password, Existing.password) IN
         IF password = "none" THEN ConfigureEnds
           ELSE configure' = [configure EXCEPT !.at = "read", !.patch.password = password]
    /\ UNCHANGED <<fileVars, outsideVars, main, task, container, saved>>

\* mergeConfig reads it again.
ConfigureMerges ==
    /\ configure.at = "read"
    /\ Readable
    /\ configure' = [configure EXCEPT
          !.at = "empty",
          !.next = [configure.patch EXCEPT !.host = Existing.host, !.port = Existing.port]]
    /\ UNCHANGED <<fileVars, outsideVars, main, task, container, saved>>

ConfigureWrites ==
    /\ \/ configure.at = "empty" /\ Empties /\ ConfigureGoes("fill")
       \/ configure.at = "fill" /\ Fills(configure.next) /\ ConfigureGoes("rename")
    /\ UNCHANGED <<outsideVars, main, task, container, saved>>

\* The task is completed by the action.
ConfigureSaves ==
    /\ configure.at = "rename"
    /\ Renames
    /\ ConfigureEnds
    /\ task' = FALSE
    /\ saved' = [payout |-> "good", user |-> configure.patch.user,
                 password |-> configure.patch.password, network |-> configure.patch.network]
    /\ UNCHANGED <<outsideVars, main, container>>

\* read().once() rejects when the file exists but cannot be parsed.
ConfigureFails ==
    /\ configure.at \in {"resolve", "read"}
    /\ ~Readable
    /\ ConfigureEnds
    /\ UNCHANGED <<fileVars, outsideVars, main, task, container, saved>>

\* requireConfiguration runs whenever the file has changed.
RequireConfiguration ==
    /\ Readable
    /\ "none" \in {Existing.payout, Existing.user, Existing.password}
    /\ ~task
    /\ task' = TRUE
    /\ UNCHANGED <<fileVars, outsideVars, main, configure, container, saved>>

-----------------------------------------------------------------------------
(* StartOS, the operator and the node.                                       *)

\* No start while a critical task is pending or an action is running.
OperatorStarts ==
    /\ ~wanted /\ ~task
    /\ configure.at = "idle"
    /\ wanted' = TRUE
    /\ UNCHANGED <<fileVars, bridge, upsets, main, configureVars, container>>

OperatorStops ==
    /\ wanted
    /\ wanted' = FALSE
    /\ main' = MainOff
    /\ container' = NoContainer
    /\ UNCHANGED <<fileVars, bridge, upsets, configureVars>>

MainStarts ==
    /\ wanted
    /\ main.at = "off"
    /\ main' = [MainOff EXCEPT !.at = "bridge"]
    /\ UNCHANGED <<fileVars, outsideVars, configureVars, container>>

\* A container that has ended is started again.
DaemonRestarts ==
    /\ container.at = "crashed"
    /\ container' = [NoContainer EXCEPT !.at = "entrypoint"]
    /\ UNCHANGED <<fileVars, outsideVars, main, configureVars>>

BridgeChanges ==
    /\ bridge' \in (Addresses \cup {"none"}) \ {bridge}
    /\ UNCHANGED <<fileVars, wanted, upsets, main, configureVars, container>>

\* The operator changes one value, or breaks or deletes the file.
HandEdit ==
    /\ ~wanted
    /\ configure.at = "idle"
    /\ upsets < MaxUpsets
    /\ upsets' = upsets + 1
    /\ file' \in {Absent, Malformed}
                 \cup (IF file.kind # "yaml" THEN {} ELSE
                        {Yaml([file.config EXCEPT !.payout = p]) : p \in Payouts}
                        \cup {Yaml([file.config EXCEPT !.host = "url"])}
                        \cup {Yaml([file.config EXCEPT !.port = p]) : p \in Ports}
                        \cup {Yaml([file.config EXCEPT !.user = u]) : u \in Users}
                        \cup {Yaml([file.config EXCEPT !.network = n]) : n \in Networks})
    /\ saved' = Unsaved
    /\ UNCHANGED <<tmp, bridge, wanted, main, configure, task, container>>

\* Every process ends where it is; tmp stays as it is.
ServerCrashes ==
    /\ upsets < MaxUpsets
    /\ upsets' = upsets + 1
    /\ main' = MainOff
    /\ container' = NoContainer
    /\ configure' = ConfigureIdle
    /\ UNCHANGED <<fileVars, bridge, wanted, task, saved>>

\* A write fails, perhaps after it has emptied tmp: main or the action ends there.
WriteFails ==
    /\ upsets < MaxUpsets
    /\ upsets' = upsets + 1
    /\ \/ main.at \in {"empty", "fill", "rename"} /\ main' = MainOff /\ UNCHANGED configure
       \/ configure.at \in {"empty", "fill", "rename"} /\ ConfigureEnds /\ UNCHANGED main
    /\ tmp' \in IF "empty" \in {main.at, configure.at} THEN {tmp, Truncated} ELSE {tmp}
    /\ UNCHANGED <<file, bridge, wanted, task, container, saved>>

-----------------------------------------------------------------------------
Start == MainStarts \/ MainResolves \/ MainMerges \/ MainWrites \/ MainFails \/ DaemonStarts

Run == EntrypointReads \/ LoadConfig \/ DaemonRestarts

Configure == \/ ConfigureResolves \/ ConfigureMerges \/ ConfigureWrites \/ ConfigureSaves
             \/ ConfigureFails

Outside == \/ OperatorStarts \/ OperatorStops \/ BridgeChanges \/ HandEdit \/ ServerCrashes \/ WriteFails
           \/ ConfigureBegins \/ RequireConfiguration

Next == Start \/ Run \/ MainRefires \/ Configure \/ Outside

Spec == Init /\ [][Next]_vars

\* What is awaited in main.ts and in the action is local and ends; the supplier
\* reads its configuration again every RETRY_INTERVAL_S; StartOS runs main again
\* when the address changes.
FairSpec == Spec /\ WF_vars(Start) /\ WF_vars(Run) /\ WF_vars(MainRefires) /\ WF_vars(Configure)

-----------------------------------------------------------------------------
(* Properties.                                                               *)

\* Every variable has its type; config.yaml is never truncated, whoever reads it and
\* wherever a crash strikes (config.yaml.ts:37-44).
ConfigTypeOK ==
    /\ file \in Contents
    /\ tmp \in Contents \cup {Truncated}
    /\ bridge \in Addresses \cup {"none"}
    /\ wanted \in BOOLEAN /\ task \in BOOLEAN
    /\ main \in [at : {"off", "bridge", "read", "empty", "fill", "rename", "network", "started"},
                 address : Addresses \cup {"none"}, next : Configs]
    /\ configure \in [at : {"idle", "resolve", "read", "empty", "fill", "rename"},
                      patch : Configs, next : Configs]
    /\ container \in [at : {"none", "entrypoint", "loading", "config_error", "crashed", "loaded"},
                      tor : BOOLEAN, config : Configs]
    /\ saved \in Settings \cup {Unsaved}
    /\ upsets \in 0..MaxUpsets

\* What Configure has saved stays in the file through every start, every change of
\* the node's address and every crash in the middle of a write, until it is saved
\* again; a blank password keeps the one that was there.
SavedIsKept ==
    saved # Unsaved =>
        /\ file.kind = "yaml"
        /\ file.config.payout = saved.payout
        /\ file.config.user = saved.user
        /\ file.config.password = saved.password
        /\ file.config.network = saved.network

\* docker_entrypoint.sh:21-26 and config.py:116: once main has merged the node's
\* address, the Tor daemon runs exactly if the supplier publishes over Tor. A file that
\* main has left as it was can differ: a supplier that publishes over Tor then has its
\* daemon too, unless the network line is one that sed cuts short.
TorModeHasDaemon ==
    container.at = "loaded" =>
        /\ main.address # "none" => (container.tor <=> container.config.network = "tor")
        /\ container.config.network = "tor" => container.tor \/ file.config.network = "toR"

\* config.yaml.ts:9-13: main repairs what the supplier cannot read. A supplier started
\* for a known address ends in its configuration only for a value that main could not
\* see to be wrong: one that is a string in main's YAML and none in the supplier's.
RepairedBeforeLoad ==
    container.at = "crashed" /\ main.address # "none" =>
        /\ file.kind = "yaml"
        /\ "ambiguous" \in {file.config.payout, file.config.user}

\* main.ts:31-39: a supplier started for an address of the node runs with that address
\* and no other, whatever the file held before, whoever wrote it in between and
\* however the writes ended; only a start that found no address keeps the file's.
AddressOfStart ==
    container.at = "loaded" /\ main.address # "none" => container.config.host = main.address

\* main.ts:31-34: with a usable configuration the supplier ends up running with the
\* node's address, however often that has changed and whatever has crashed.
CurrentAddressUsed ==
    \A a \in Addresses :
        <>[](/\ wanted /\ bridge = a
             /\ file.kind = "yaml" /\ file.config.payout = "good"
             /\ file.config.user = "good" /\ file.config.password # "none")
            => <>[](container.at = "loaded" /\ container.config.host = a)
=============================================================================
