------------------------------ MODULE MCInstall -----------------------------
(* Instances of Install for TLC: two goroutines, three hosts. *)
EXTENDS Install

CONSTANTS first, second

Goroutines == {first, second}

\* A bare host; one with a firewall that lets everything in; one on which an
\* earlier installation broke off at the overlay API.
Bare == {}
OpenFirewall == {"firewall"}
HalfDone == {"tailscale", "loggedIn", "cloudflared", "dns", "credentials", "config", "unit",
             "tunnelUp", "firewall", "deny", "sysctlFile", "sysctlLive", "procFile", "procLive"}
SomeHosts == {Bare, OpenFirewall, HalfDone}

NoneOrForeign == {"none", "foreign"}

OnlyBare == {Bare}
NoTunnel == {"none"}
OneGoroutine == {first}
=============================================================================
