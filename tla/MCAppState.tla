----------------------------- MODULE MCAppState -----------------------------
(* An instance of AppState.                                                  *)
EXTENDS AppState

ConfigFile(kind) == <<"config", <<kind, "wsddn.conf">>>>
Daemonized       == <<"unixd", Unset>>

\* Accounts, a list and names, some of which are refused.
ServiceOptions ==
    {ConfigFile("abs"), ConfigFile("rel"), Daemonized,
     <<"user", <<"text", "net">>>>, <<"user", <<"text", "root">>>>, <<"user", <<"text", "nobody">>>>,
     <<"exclude-pattern", <<"text", "[">>>>,
     <<"domain", <<"text", "CORP">>>>, <<"workgroup", <<"text", "HOME">>>>}

\* The file names the account root (and a group), has a relative path and a list with
\* an element that is no string, and one after which the rest is not looked at.
ServiceFile ==
    [x \in FileKeys |->
        CASE x = "pid-file"   -> {<<"rel", "a.pid">>}
          [] x = "log-file"   -> {<<"abs", "a.log">>}
          [] x = "user"       -> {<<"pair", "staff", "root">>}
          [] x = "interfaces" -> {<<"list", <<<<"text", "eth1">>, <<"int", 1>>, Empty, <<"text", "eth2">>>>>>}
          [] OTHER -> {}]
=============================================================================
