---------------------------- MODULE MCDaemonBoot ----------------------------
(* Instance of DaemonBoot for TLC: documents and flags chosen so that every  *)
(* guard and every merge rule decides at least one launch.                   *)
EXTENDS DaemonBoot

MCModule == WellKnown \cup {"chat"}
MCDirs   == {"", "old", "new"}

Tcp(host, port)      == [protocol |-> "tcp", host |-> host, port |-> port, tls |-> {}]
Tls(host, tls)       == [protocol |-> "tcp_ssl", host |-> host, port |-> 0, tls |-> tls]
On(m, ls)            == [Defaults EXCEPT !.modules[m] = ls]
Doc(c)               == [readable |-> TRUE, known |-> TRUE, cfg |-> c]

MCDocuments ==
    { [Doc(Defaults) EXCEPT !.readable = FALSE],
      [Doc([Defaults EXCEPT !.persistence = "old"]) EXCEPT !.known = FALSE],
      Doc([On("core_service", <<Tcp("wide", 1)>>) EXCEPT !.policy = "require"]),
      Doc([On("core_service", <<Tls("wide", {"cert"}), Local>>)
             EXCEPT !.ssl = {"key"}, !.policy = "require"]),
      Doc(On("capability_module", <<Tls("loopback", {}), Tcp("localhost", 0)>>)) }

MCFlagSets ==
    { NoFlags,
      [NoFlags EXCEPT !.persist = TRUE, !.persistence = "new"],
      [NoFlags EXCEPT !.insecure = TRUE, !.persist = TRUE],
      [NoFlags EXCEPT !.modules = On("core_service", <<Tcp("loopback", 0)>>).modules,
                      !.persist = TRUE],
      [NoFlags EXCEPT !.modules = On("chat", <<Tcp("wide", 1), Local>>).modules] }
=============================================================================
