---------------------------- MODULE SessionConfig ----------------------------
(***************************************************************************)
(* What a daemon/config.yaml (logosctl) or daemon/config.json (logoscore)  *)
(* means, and how the two front ends turn it, with the flags of one        *)
(* launch, into the configuration a daemon boots with.                     *)
(*                                                                         *)
(* A document is a record: `readable` when parseDaemonConfigDocument       *)
(* accepts it, `known` when `daemon config set` knows each of its keys,    *)
(* `cfg` what it says.  A listener keeps its protocol, the kind of host it *)
(* binds, its port (0: let the kernel pick) and which of the certificate   *)
(* and the key it names.                                                   *)
(***************************************************************************)
EXTENDS Integers, Sequences, SequencesExt

CONSTANTS Module,   \* modules of the session
          Dirs,     \* data directories an operator may name; "" is none
          None      \* no file, and nothing said

WellKnown == {"core_service", "capability_module"}

ASSUME WellKnownAssumption == WellKnown \subseteq Module
ASSUME DirsAssumption == "" \in Dirs

Material == {"cert", "key"}

Protocol == {"local", "tcp", "tcp_ssl"}
Host     == {"loopback", "localhost", "wide"}
Policy   == {"", "none", "warn", "require"}

Listener == [protocol : Protocol, host : Host, port : Nat, tls : SUBSET Material]
Config   == [modules : [Module -> Seq(Listener)], ssl : SUBSET Material,
             insecure : BOOLEAN, persistence : Dirs, data : Dirs, policy : Policy]
Document == [readable : BOOLEAN, known : BOOLEAN, cfg : Config]
FlagSet  == [modules : {None} \cup [Module -> Seq(Listener)], insecure : BOOLEAN,
             persistence : {None} \cup Dirs, persist : BOOLEAN]

Local == [protocol |-> "local", host |-> "loopback", port |-> 0, tls |-> {}]

Defaults == [modules |-> [m \in Module |-> <<>>], ssl |-> {}, insecure |-> FALSE,
             persistence |-> "", data |-> "", policy |-> ""]

NoFlags == [modules |-> None, insecure |-> FALSE, persistence |-> None,
            persist |-> FALSE]

\* daemonConfigFromJson: persistence_path is the older spelling of dirs.data.
FromJson(cfg) == [cfg EXCEPT !.data = IF @ = "" THEN cfg.persistence ELSE @]

\* DaemonConfigFile::read: an absent or unreadable file means defaults.
Loaded(doc) == IF doc = None \/ ~doc.readable THEN Defaults ELSE FromJson(doc.cfg)

\* DaemonConfigFile::write: intent, so an automatic port stays 0.
Written(cfg) == [readable |-> TRUE, known |-> TRUE, cfg |-> cfg]

\* `daemon config set` installs what it knows and the daemon's reader accepts.
Installable(doc) == doc.known /\ doc.readable

\* logoscore: a flag replaces its own field, --module-transport the whole map,
\* and --persistence-path reaches both spellings of the directory.
Layered(cfg, flags) ==
    [cfg EXCEPT
        !.modules     = IF flags.modules = None THEN @ ELSE flags.modules,
        !.insecure    = @ \/ flags.insecure,
        !.persistence = IF flags.persistence = None THEN @ ELSE flags.persistence,
        !.data        = IF flags.persistence = None THEN @ ELSE flags.persistence]

\* logosctl: a TLS listener takes from the ssl block what it does not name.
WithSsl(cfg) ==
    [cfg EXCEPT !.modules =
        [m \in Module |->
            [i \in DOMAIN cfg.modules[m] |->
                LET l == cfg.modules[m][i] IN
                IF l.protocol = "tcp_ssl" THEN [l EXCEPT !.tls = @ \cup cfg.ssl]
                ELSE l]]]

IsLocal(l) == l.protocol = "local"

\* The first local entry moves to the front; without one, a new one is put there.
LocalFirst(ls) ==
    IF \E i \in DOMAIN ls : IsLocal(ls[i])
    THEN LET i == SelectInSeq(ls, IsLocal) IN <<ls[i]>> \o RemoveAt(ls, i)
    ELSE <<Local>> \o ls

\* Every module a document or a flag names has a local listener, and so have
\* the two well-known ones.
Prepared(cfg) ==
    [cfg EXCEPT !.modules =
        [m \in Module |-> IF m \in WellKnown \/ cfg.modules[m] # <<>>
                          THEN LocalFirst(cfg.modules[m]) ELSE <<>>]]

Resolved(flavor, doc, flags) ==
    IF flavor = "modern" THEN Prepared(WithSsl(Loaded(doc)))
    ELSE Prepared(Layered(Loaded(doc), flags))

Listeners(cfg) == UNION {{cfg.modules[m][i] : i \in DOMAIN cfg.modules[m]} : m \in Module}

Plain(l) == l.protocol = "tcp" /\ l.host \notin {"loopback", "localhost"}

\* Slip: only the listener a module prefers is looked at.
PlainFirstRefused(cfg) ==
    ~cfg.insecure /\ \E m \in WellKnown : Plain(cfg.modules[m][1])

PlainRefused(cfg) == ~cfg.insecure /\ \E l \in Listeners(cfg) : Plain(l)

Unequipped(l) == l.protocol = "tcp_ssl" /\ l.tls # Material

\* What --module-transport accepts: a TLS listener names its material.
FlagsAccepted(flags) ==
    flags.modules = None \/ ~\E l \in Listeners(flags) : Unequipped(l)

\* The guards of a launch: logoscore asks for TLS material on its flags only,
\* logosctl on everything it is about to bind.
MayBoot(flavor, cfg, flags) ==
    /\ ~PlainRefused(cfg)
    /\ IF flavor = "modern" THEN ~\E l \in Listeners(cfg) : Unequipped(l)
       ELSE FlagsAccepted(flags)
=============================================================================
