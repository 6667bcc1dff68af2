---------------------------- MODULE Provisioning ----------------------------
(***************************************************************************)
(* What the packages deps, hardening and preflight do to the host, and the *)
(* steps of the fresh install made of them (tui/wizard/freshinstall.go):   *)
(* which commands a step runs, what each command looks at, and what it     *)
(* leaves behind.                                                          *)
(*                                                                         *)
(* Abstractions.  The host is the set of the facts that hold on it, the    *)
(* account is the tunnel that has the configured name: none, one whose     *)
(* credentials this administrator holds, or a foreign one.  A step is a    *)
(* list of commands; a command that looks at the host puts the commands    *)
(* it asks for in front of the rest.  cfg.TunnelID, which only spares the  *)
(* listing of tunnels, and the backup of an existing config.yml, which     *)
(* nothing reads, are left out.  mkdir and chmod of the cache are one      *)
(* command, and so are download and dpkg.  The wizard passes no extra      *)
(* ports, tunnel mode account, interactive.                                *)
(***************************************************************************)
EXTENDS Naturals, SequencesExt

Fact == {"tailscale", "loggedIn", "cloudflared", "dns", "credentials", "config", "unit",
         "tunnelUp", "firewall", "deny", "sysctlFile", "sysctlLive", "procFile", "procLive",
         "profile", "cache", "apiUnit", "api", "installed"}

Tunnel == {"none", "own", "foreign"}

\* NewFreshInstallSteps, in order.
StepName == <<"preflight", "tailscale", "cloudflared", "ufw", "hardening", "overlayAPI",
              "info", "summary">>
Step == 1..Len(StepName)

Commands == [
    preflight   |-> <<"preflight">>,
    tailscale   |-> <<"tailscale version", "tailscale status">>,
    cloudflared |-> <<"cloudflared version", "tunnel list", "route dns", "credentials",
                      "write config", "validate", "stat unit", "start tunnel">>,
    ufw         |-> <<"ufw status">>,
    hardening   |-> <<"read sysctl.d", "read fstab", "read profile", "mkdir cache">>,
    overlayAPI  |-> <<"write api unit", "daemon-reload", "start api">>,
    info        |-> <<>>,
    summary     |-> <<"set installed">>]

UnlessHeld(fact, host, commands) == IF fact \in host THEN <<>> ELSE commands

\* Mutant: a firewall that is active is left as it is.
ActiveIsEnough(host, ports) ==
    UnlessHeld("firewall", host,
               <<"ufw deny", "ufw allow outgoing">> \o SetToSeq(ports) \o <<"ufw enable">>)

\* Mutant: the firewall is turned on first.
EnabledFirst(host, ports) ==
    IF "firewall" \in host
    THEN UnlessHeld("deny", host, <<"ufw deny", "ufw reload">>)
         \o SetToSeq(ports \ host)
    ELSE <<"ufw deny", "ufw allow outgoing", "ufw enable">> \o SetToSeq(ports)

\* EnsureUFW after its `ufw status`; the command that allows a port is the port, and
\* the ports are allowed in some order.
FirewallCommands(host, ports) ==
    IF "firewall" \in host
    THEN UnlessHeld("deny", host, <<"ufw deny", "ufw reload">>)
         \o SetToSeq(ports \ host)
    ELSE <<"ufw deny", "ufw allow outgoing">> \o SetToSeq(ports) \o <<"ufw enable">>

\* Mutant: tailscale need not be logged in for the step to succeed.
AsksNoLogin(command, host, tunnel) ==
    CASE command = "tailscale version" -> UnlessHeld("tailscale", host, <<"install tailscale">>)
      [] command = "cloudflared version" -> UnlessHeld("cloudflared", host, <<"dpkg">>)
      [] command = "tunnel list" -> IF tunnel = "none" THEN <<"tunnel create">> ELSE <<>>
      [] command = "stat unit" -> UnlessHeld("unit", host, <<"write unit">>) \o <<"daemon-reload">>
      [] command = "ufw status" -> FirewallCommands(host, {})
      [] command = "read sysctl.d" -> UnlessHeld("sysctlFile", host, <<"write sysctl.d", "sysctl">>)
      [] command = "read fstab" -> UnlessHeld("procFile", host, <<"write fstab", "remount">>)
      [] command = "read profile" -> UnlessHeld("profile", host, <<"write profile">>)
      [] OTHER -> <<>>

\* The commands that a look at the host adds.
Asks(command, host, tunnel) ==
    CASE command = "tailscale version" -> UnlessHeld("tailscale", host, <<"install tailscale">>)
      [] command = "tailscale status" -> UnlessHeld("loggedIn", host, <<"tailscale up">>)
      [] command = "cloudflared version" -> UnlessHeld("cloudflared", host, <<"dpkg">>)
      [] command = "tunnel list" -> IF tunnel = "none" THEN <<"tunnel create">> ELSE <<>>
      [] command = "stat unit" -> UnlessHeld("unit", host, <<"write unit">>) \o <<"daemon-reload">>
      [] command = "ufw status" -> FirewallCommands(host, {})
      [] command = "read sysctl.d" -> UnlessHeld("sysctlFile", host, <<"write sysctl.d", "sysctl">>)
      [] command = "read fstab" -> UnlessHeld("procFile", host, <<"write fstab", "remount">>)
      [] command = "read profile" -> UnlessHeld("profile", host, <<"write profile">>)
      [] OTHER -> <<>>

\* Looks whose failure is taken for an answer.
Lenient == {"tailscale version", "tailscale status", "cloudflared version", "read sysctl.d",
            "read fstab", "read profile"}

\* The host as such a look takes it to be when it fails: a status that cannot be parsed
\* passes for one that is logged in, a file or a version that cannot be read for one
\* that is not there.
Mistaken(command, host) ==
    CASE command = "tailscale version" -> host \ {"tailscale"}
      [] command = "tailscale status" -> host \cup {"loggedIn"}
      [] command = "cloudflared version" -> host \ {"cloudflared"}
      [] command = "read sysctl.d" -> host \ {"sysctlFile"}
      [] command = "read fstab" -> host \ {"procFile"}
      [] command = "read profile" -> host \ {"profile"}
      [] OTHER -> host

\* What a look that sees the host as `seen` goes past without a check: a file that is
\* there passes for one that is in effect.
Assumed(command, seen) ==
    CASE command = "tailscale status" -> seen \cap {"loggedIn"}
      [] command = "read sysctl.d" -> {f \in {"sysctlLive"} : "sysctlFile" \in seen}
      [] command = "read fstab" -> {f \in {"procLive"} : "procFile" \in seen}
      [] OTHER -> {}

\* The fact a command establishes.
Fixes == [c \in {"install tailscale", "tailscale up", "dpkg", "route dns", "credentials",
                 "write config", "write unit", "start tunnel", "ufw deny", "ufw enable",
                 "write sysctl.d", "sysctl", "write fstab", "remount", "write profile",
                 "mkdir cache", "write api unit", "start api", "set installed"} |->
    CASE c = "install tailscale" -> "tailscale" [] c = "tailscale up" -> "loggedIn"
      [] c = "dpkg" -> "cloudflared" [] c = "route dns" -> "dns"
      [] c = "write config" -> "config" [] c = "write unit" -> "unit"
      [] c = "start tunnel" -> "tunnelUp" [] c = "ufw deny" -> "deny"
      [] c = "ufw enable" -> "firewall" [] c = "write sysctl.d" -> "sysctlFile"
      [] c = "sysctl" -> "sysctlLive" [] c = "write fstab" -> "procFile"
      [] c = "remount" -> "procLive" [] c = "write profile" -> "profile"
      [] c = "mkdir cache" -> "cache" [] c = "write api unit" -> "apiUnit"
      [] c = "start api" -> "api" [] c = "set installed" -> "installed"
      [] OTHER -> c]

After(command, host) ==
    IF command \in DOMAIN Fixes THEN host \cup {Fixes[command]} ELSE host

TunnelAfter(command, tunnel) == IF command = "tunnel create" THEN "own" ELSE tunnel

\* Commands that the state of the host or the account makes fail: a name that is
\* taken, a tunnel whose credentials are elsewhere, a config or a unit without its program.
Refused(command, host, tunnel) ==
    \/ command = "tunnel create" /\ tunnel # "none"
    \/ command = "credentials" /\ tunnel # "own"
    \/ command = "validate" /\ ~{"cloudflared", "config"} \subseteq host
    \/ command = "start tunnel" /\ ~{"cloudflared", "unit"} \subseteq host
    \/ command = "start api" /\ "apiUnit" \notin host

\* What holds once a step has succeeded.
Promise == [
    preflight   |-> {},
    tailscale   |-> {"tailscale", "loggedIn"},
    cloudflared |-> {"cloudflared", "dns", "credentials", "config", "unit", "tunnelUp"},
    ufw         |-> {"firewall", "deny"},
    hardening   |-> {"sysctlFile", "sysctlLive", "procFile", "procLive", "profile", "cache"},
    overlayAPI  |-> {"apiUnit", "api"},
    info        |-> {},
    summary     |-> {"installed"}]
=============================================================================
