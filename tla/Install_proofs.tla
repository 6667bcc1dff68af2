---------------------------- MODULE Install_proofs --------------------------
(***************************************************************************)
(* Proofs about Install for any number of goroutines, wizards, retries and *)
(* failures: what an installation that is marked as completed has done,    *)
(* and that the firewall is not closed before there is another way in.     *)
(*                                                                         *)
(* A step goes past three facts without a check: a login when the status   *)
(* cannot be read, and the effect of a file of hardening that is there.    *)
(* What counts as done is therefore what holds or was missed: see Settled. *)
(***************************************************************************)
EXTENDS Install, FiniteSetTheorems, TLAPS

\* Every command there is.
Command ==
    {"preflight", "tailscale version", "install tailscale", "tailscale status", "tailscale up",
     "cloudflared version", "dpkg", "tunnel list", "tunnel create", "route dns", "credentials",
     "write config", "validate", "stat unit", "write unit", "daemon-reload", "start tunnel",
     "ufw status", "ufw deny", "ufw reload", "ufw allow outgoing", "ufw enable",
     "read sysctl.d", "write sysctl.d", "sysctl", "read fstab", "write fstab", "remount",
     "read profile", "write profile", "mkdir cache", "write api unit", "start api",
     "set installed"}

\* The facts that a command, or the commands it asks for, will establish.
Yields(c) ==
    CASE c = "tailscale version" -> {"tailscale"}
      [] c = "tailscale status" -> {"loggedIn"}
      [] c = "cloudflared version" -> {"cloudflared"}
      [] c = "stat unit" -> {"unit"}
      [] c = "ufw status" -> {"firewall", "deny"}
      [] c = "read sysctl.d" -> {"sysctlFile", "sysctlLive"}
      [] c = "read fstab" -> {"procFile", "procLive"}
      [] c = "read profile" -> {"profile"}
      [] c \in DOMAIN Fixes -> {Fixes[c]}
      [] OTHER -> {}

\* What holds, or was gone past.
Settled == host \cup missed

Done(s) == s \in skipped \/ Promise[StepName[s]] \subseteq Settled

\* Every command of the sequence is in X; x is one of them; one of them yields f.
Among(q, X) == \A i \in 1..Len(q) : q[i] \in X
Has(q, x) == \E i \in 1..Len(q) : q[i] = x
Yielded(q, f) == \E i \in 1..Len(q) : f \in Yields(q[i])

\* What step s may run.
Allowed(q, s) ==
    /\ Has(q, "set installed") => s = 8
    /\ \A x \in {"ufw status", "ufw deny", "ufw enable"} : Has(q, x) => s = 4

Result == {"none", "running", "ok", "error"}

Goroutine == [step : {0} \cup Step, todo : Seq(Command), result : Result]

Workers ==
    /\ worker \in [Worker -> Goroutine]
    /\ \A w \in Worker :
         /\ worker[w].step = 0 <=> worker[w].result = "none"
         /\ worker[w].result # "running" => worker[w].todo = <<>>

Screen ==
    /\ open \in BOOLEAN /\ waitKey \in BOOLEAN
    /\ current \in 1..(Len(StepName) + 1)
    /\ skipped \subseteq Step
    /\ launches \in 0..MaxLaunches /\ retries \in 0..MaxRetries /\ budget \in 0..Budget

Missed == missed \subseteq {"loggedIn", "sysctlLive", "procLive"} \ host

Typed == host \subseteq Fact /\ tunnel \in Tunnel /\ Missed /\ Workers /\ Screen

\* A step that has not failed will keep its promise.
Promising(w) ==
    worker[w].result \in {"running", "ok"} =>
        \A f \in Promise[StepName[worker[w].step]] :
            f \in Settled \/ Yielded(worker[w].todo, f)

\* The steps before one that runs, or is current, are done.
Before(s) == \A r \in Step : r < s => Done(r)

Good(w) ==
    /\ Promising(w) /\ Allowed(worker[w].todo, worker[w].step)
    /\ Before(worker[w].step)

InstallInv ==
    /\ Typed
    /\ \A w \in Worker : Good(w)
    /\ Before(current)
    /\ "installed" \in host => \A s \in Step : Done(s)

-----------------------------------------------------------------------------
(* Commands in a row.                                                      *)

LEMMA Joined ==
    ASSUME NEW S, NEW a \in Seq(S), NEW b \in Seq(S)
    PROVE  /\ a \o b \in Seq(S) /\ Len(a \o b) = Len(a) + Len(b)
           /\ \A k \in 1..(Len(a) + Len(b)) :
                  (a \o b)[k] = IF k <= Len(a) THEN a[k] ELSE b[k - Len(a)]
OBVIOUS

\* c is a followed by b, place by place.
Glued(c, a, b) ==
    /\ \A i \in 1..Len(a) : i \in 1..Len(c) /\ c[i] = a[i]
    /\ \A i \in 1..Len(b) : Len(a) + i \in 1..Len(c) /\ c[Len(a) + i] = b[i]
    /\ \A k \in 1..Len(c) : k \in 1..Len(a) \/ \E i \in 1..Len(b) : k = Len(a) + i

LEMMA JoinedMembers ==
    ASSUME NEW S, NEW a \in Seq(S), NEW b \in Seq(S), NEW c, c = a \o b
    PROVE  c \in Seq(S) /\ Glued(c, a, b)
<1>1. Len(a) \in Nat /\ Len(b) \in Nat
  OBVIOUS
<1>2. /\ c \in Seq(S) /\ Len(c) = Len(a) + Len(b)
      /\ \A k \in 1..(Len(a) + Len(b)) : c[k] = IF k <= Len(a) THEN a[k] ELSE b[k - Len(a)]
  BY Joined
<1>3. \A i \in 1..Len(b) : Len(a) + i \in 1..Len(c) /\ c[Len(a) + i] = b[i]
  BY <1>1, <1>2
<1>4. \A i \in 1..Len(a) : i \in 1..Len(c) /\ c[i] = a[i]
  BY <1>1, <1>2
<1>5. ASSUME NEW k \in 1..Len(c), k \notin 1..Len(a) PROVE \E i \in 1..Len(b) : k = Len(a) + i
  <2>1. k - Len(a) \in 1..Len(b) /\ k = Len(a) + (k - Len(a))
    BY <1>1, <1>2, <1>5
  <2>. QED
    BY <2>1
<1>. QED
  BY <1>2, <1>3, <1>4, <1>5 DEF Glued

LEMMA JoinedHas ==
    ASSUME NEW S, NEW a \in Seq(S), NEW b \in Seq(S), NEW c, c = a \o b
    PROVE  /\ c \in Seq(S)
           /\ \A x : Has(c, x) <=> Has(a, x) \/ Has(b, x)
           /\ \A f : Yielded(c, f) <=> Yielded(a, f) \/ Yielded(b, f)
<1>1. c \in Seq(S) /\ Glued(c, a, b)
  BY JoinedMembers
<1>2. ASSUME NEW k \in 1..Len(c)
      PROVE  \/ \E i \in 1..Len(a) : c[k] = a[i]
             \/ \E i \in 1..Len(b) : c[k] = b[i]
  BY <1>1 DEF Glued
<1>3. ASSUME NEW x PROVE Has(c, x) <=> Has(a, x) \/ Has(b, x)
  <2>1. ASSUME Has(c, x) PROVE Has(a, x) \/ Has(b, x)
    BY <1>2, <2>1, Zenon DEF Has
  <2>2. ASSUME Has(a, x) PROVE Has(c, x)
    BY <1>1, <2>2, Zenon DEF Has, Glued
  <2>3. ASSUME Has(b, x) PROVE Has(c, x)
    BY <1>1, <2>3, Zenon DEF Has, Glued
  <2>. QED
    BY <2>1, <2>2, <2>3
<1>4. ASSUME NEW f PROVE Yielded(c, f) <=> Yielded(a, f) \/ Yielded(b, f)
  <2>1. ASSUME Yielded(c, f) PROVE Yielded(a, f) \/ Yielded(b, f)
    BY <1>2, <2>1, Zenon DEF Yielded
  <2>2. ASSUME Yielded(a, f) PROVE Yielded(c, f)
    BY <1>1, <2>2, Zenon DEF Yielded, Glued
  <2>3. ASSUME Yielded(b, f) PROVE Yielded(c, f)
    BY <1>1, <2>3, Zenon DEF Yielded, Glued
  <2>. QED
    BY <2>1, <2>2, <2>3
<1>. QED
  BY <1>1, <1>3, <1>4

LEMMA NotThere ==
    ASSUME NEW q, NEW X, Among(q, X)
    PROVE  \A x : x \notin X => ~Has(q, x)
BY Zenon DEF Among, Has

LEMMA NoneAndOne ==
           /\ <<>> \in Seq(Command)
           /\ \A x : ~Has(<<>>, x) /\ ~Yielded(<<>>, x)
           /\ \A x \in Command : /\ <<x>> \in Seq(Command) /\ Has(<<x>>, x) /\ Among(<<x>>, {x})
                           /\ \A f : Yielded(<<x>>, f) <=> f \in Yields(x)
<1>1. <<>> \in Seq(Command) /\ 1..Len(<<>>) = {}
  OBVIOUS
<1>2. \A x : ~Has(<<>>, x) /\ ~Yielded(<<>>, x)
  BY <1>1, Zenon DEF Has, Yielded
<1>3. ASSUME NEW x \in Command
      PROVE  /\ <<x>> \in Seq(Command) /\ Has(<<x>>, x) /\ Among(<<x>>, {x})
             /\ \A f : Yielded(<<x>>, f) <=> f \in Yields(x)
  <2>1. <<x>> \in Seq(Command) /\ 1..Len(<<x>>) = {1} /\ <<x>>[1] = x
    OBVIOUS
  <2>. QED
    BY <2>1, Zenon DEF Has, Among, Yielded
<1>. QED
  BY <1>1, <1>2, <1>3

LEMMA Pairs ==
    ASSUME NEW x \in Command, NEW y \in Command, x # y, NEW q, q = <<x, y>>
    PROVE  /\ q \in Seq(Command) /\ Has(q, x) /\ Has(q, y) /\ Among(q, {x, y})
<1>1. q \in Seq(Command) /\ Len(q) = 2 /\ q[1] = x /\ q[2] = y
  OBVIOUS
<1>2. 1..Len(q) = {1, 2} /\ 1 + 1 = 2
  BY <1>1
<1>. QED
  BY <1>1, <1>2, Zenon DEF Has, Among

LEMMA HasYields ==
    ASSUME NEW q, NEW x, Has(q, x), NEW f \in Yields(x)
    PROVE  Yielded(q, f)
BY Zenon DEF Has, Yielded

LEMMA HeadAndTail ==
    ASSUME NEW S, NEW q \in Seq(S), q # <<>>
    PROVE  /\ Head(q) \in S /\ <<Head(q)>> \in Seq(S) /\ Tail(q) \in Seq(S)
           /\ q = <<Head(q)>> \o Tail(q)
OBVIOUS

LEMMA Threes ==
    ASSUME NEW x \in Command, NEW y \in Command, NEW z \in Command, NEW q, q = <<x, y, z>>
    PROVE  q \in Seq(Command) /\ Has(q, x) /\ Has(q, y) /\ Has(q, z) /\ Among(q, {x, y, z})
<1>1. q \in Seq(Command) /\ Len(q) = 3 /\ q[1] = x /\ q[2] = y /\ q[3] = z
  OBVIOUS
<1>2. 1..Len(q) = {1, 2, 3}
  BY <1>1
<1>. QED
  BY <1>1, <1>2, Zenon DEF Has, Among

LEMMA Fours ==
    ASSUME NEW x \in Command, NEW y \in Command, NEW z \in Command, NEW u \in Command, NEW q,
           q = <<x, y, z, u>>
    PROVE  /\ q \in Seq(Command) /\ Has(q, x) /\ Has(q, y) /\ Has(q, z) /\ Has(q, u)
           /\ Among(q, {x, y, z, u})
<1>1. q \in Seq(Command) /\ Len(q) = 4 /\ q[1] = x /\ q[2] = y /\ q[3] = z /\ q[4] = u
  OBVIOUS
<1>2. 1..Len(q) = {1, 2, 3, 4}
  BY <1>1
<1>. QED
  BY <1>1, <1>2, Zenon DEF Has, Among

LEMMA Eights ==
    ASSUME NEW x \in Command, NEW y \in Command, NEW z \in Command, NEW u \in Command,
           NEW a \in Command, NEW b \in Command, NEW c \in Command, NEW d \in Command, NEW q,
           q = <<x, y, z, u, a, b, c, d>>
    PROVE  /\ q \in Seq(Command) /\ Has(q, x) /\ Has(q, y) /\ Has(q, z) /\ Has(q, u)
           /\ Has(q, a) /\ Has(q, b) /\ Has(q, c) /\ Has(q, d)
           /\ Among(q, {x, y, z, u, a, b, c, d})
<1>1. /\ q \in Seq(Command) /\ Len(q) = 8 /\ q[1] = x /\ q[2] = y /\ q[3] = z /\ q[4] = u
      /\ q[5] = a /\ q[6] = b /\ q[7] = c /\ q[8] = d
  OBVIOUS
<1>2. 1..Len(q) = {1, 2, 3, 4, 5, 6, 7, 8}
  BY <1>1
<1>. QED
  BY <1>1, <1>2, Zenon DEF Has, Among

\* Without the commands that matter for the order, everything is allowed.
LEMMA PlainIsAllowed ==
    ASSUME NEW q, NEW X, Among(q, X),
           "set installed" \notin X,
           "ufw status" \notin X, "ufw deny" \notin X, "ufw enable" \notin X
    PROVE  \A s : Allowed(q, s)
<1>1. \A x : x \notin X => ~Has(q, x)
  BY NotThere
<1>2. \A x \in {"ufw status", "ufw deny", "ufw enable"} : x \notin X
  OBVIOUS
<1>. QED
  BY <1>1, <1>2, Zenon DEF Allowed

\* What the commands of the steps yield.
LEMMA WhatIsYielded ==
    /\ "tailscale" \in Yields("tailscale version") /\ "loggedIn" \in Yields("tailscale status")
    /\ "cloudflared" \in Yields("cloudflared version") /\ "dns" \in Yields("route dns")
    /\ "credentials" \in Yields("credentials") /\ "config" \in Yields("write config")
    /\ "unit" \in Yields("stat unit") /\ "tunnelUp" \in Yields("start tunnel")
    /\ Yields("ufw status") = {"firewall", "deny"}
    /\ Yields("read sysctl.d") = {"sysctlFile", "sysctlLive"}
    /\ Yields("read fstab") = {"procFile", "procLive"}
    /\ "profile" \in Yields("read profile") /\ "cache" \in Yields("mkdir cache")
    /\ "apiUnit" \in Yields("write api unit") /\ "api" \in Yields("start api")
    /\ "installed" \in Yields("set installed")
BY DEF Yields, Fixes

-----------------------------------------------------------------------------
(* The steps.                                                              *)

LEMMA Names ==
    /\ Step = 1..8 /\ LastStep = 8 /\ Len(StepName) = 8
    /\ StepName[1] = "preflight" /\ StepName[2] = "tailscale"
    /\ StepName[3] = "cloudflared" /\ StepName[4] = "ufw" /\ StepName[5] = "hardening"
    /\ StepName[6] = "overlayAPI" /\ StepName[7] = "info" /\ StepName[8] = "summary"
BY DEF Step, LastStep, StepName

\* What step s starts with is allowed, and yields what the step promises.
Launches(s) ==
    LET q == Commands[StepName[s]] IN
    /\ q \in Seq(Command) /\ Allowed(q, s)
    /\ Promise[StepName[s]] \subseteq Fact
    /\ \A f \in Promise[StepName[s]] : Yielded(q, f)

LEMMA LaunchesPreflight == Launches(1)
<1>. DEFINE q == <<"preflight">>
<1>1. q \in Seq(Command) /\ Among(q, {"preflight"})
  <2>1. "preflight" \in Command
    BY DEF Command
  <2>. QED
    BY <2>1, NoneAndOne, Zenon
<1>2. Commands["preflight"] = q /\ Promise["preflight"] = {}
  BY DEF Commands, Promise
<1>. HIDE DEF q
<1>3. Allowed(q, 1)
  BY <1>1, PlainIsAllowed
<1>. QED
  BY <1>1, <1>2, <1>3, Names DEF Launches

LEMMA LaunchesTailscale == Launches(2)
<1>. DEFINE q == <<"tailscale version", "tailscale status">>
            X == {"tailscale version", "tailscale status"}
<1>1. q \in Seq(Command) /\ Has(q, "tailscale version") /\ Has(q, "tailscale status") /\ Among(q, X)
  <2>1. \A x \in X : x \in Command
    BY DEF Command
  <2>. QED
    BY <2>1, Pairs, Zenon
<1>2. Commands["tailscale"] = q /\ Promise["tailscale"] = {"tailscale", "loggedIn"}
  BY DEF Commands, Promise
<1>. HIDE DEF q
<1>3. Allowed(q, 2)
  BY <1>1, PlainIsAllowed
<1>4. Yielded(q, "tailscale") /\ Yielded(q, "loggedIn")
  BY <1>1, WhatIsYielded, HasYields
<1>5. {"tailscale", "loggedIn"} \subseteq Fact
  BY DEF Fact
<1>. QED
  BY <1>1, <1>2, <1>3, <1>4, <1>5, Names DEF Launches

LEMMA LaunchesCloudflared == Launches(3)
<1>. DEFINE q == <<"cloudflared version", "tunnel list", "route dns", "credentials",
                   "write config", "validate", "stat unit", "start tunnel">>
            X == {"cloudflared version", "tunnel list", "route dns", "credentials",
                  "write config", "validate", "stat unit", "start tunnel"}
            P == {"cloudflared", "dns", "credentials", "config", "unit", "tunnelUp"}
<1>1. /\ q \in Seq(Command) /\ Among(q, X)
      /\ Has(q, "cloudflared version") /\ Has(q, "route dns") /\ Has(q, "credentials")
      /\ Has(q, "write config") /\ Has(q, "stat unit") /\ Has(q, "start tunnel")
  <2>1. \A x \in X : x \in Command
    BY DEF Command
  <2>. QED
    BY <2>1, Eights, Zenon
<1>2. Commands["cloudflared"] = q /\ Promise["cloudflared"] = P
  BY DEF Commands, Promise
<1>. HIDE DEF q
<1>3. Allowed(q, 3)
  BY <1>1, PlainIsAllowed
<1>4. /\ Yielded(q, "cloudflared") /\ Yielded(q, "dns") /\ Yielded(q, "credentials")
      /\ Yielded(q, "config") /\ Yielded(q, "unit") /\ Yielded(q, "tunnelUp")
  BY <1>1, WhatIsYielded, HasYields, Zenon
<1>5. \A f \in P : Yielded(q, f)
  BY <1>4
<1>6. P \subseteq Fact
  BY DEF Fact
<1>. QED
  BY <1>1, <1>2, <1>3, <1>5, <1>6, Names DEF Launches

LEMMA LaunchesUfw == Launches(4)
<1>. DEFINE q == <<"ufw status">>
<1>1. q \in Seq(Command) /\ Has(q, "ufw status") /\ Among(q, {"ufw status"})
  <2>1. "ufw status" \in Command
    BY DEF Command
  <2>. QED
    BY <2>1, NoneAndOne, Zenon
<1>2. Commands["ufw"] = q /\ Promise["ufw"] = {"firewall", "deny"}
  BY DEF Commands, Promise
<1>. HIDE DEF q
<1>3. Allowed(q, 4)
  <2>1. \A x : x \notin {"ufw status"} => ~Has(q, x)
    BY <1>1, NotThere
  <2>. QED
    BY <2>1 DEF Allowed
<1>4. Yielded(q, "firewall") /\ Yielded(q, "deny")
  BY <1>1, WhatIsYielded, HasYields
<1>5. {"firewall", "deny"} \subseteq Fact
  BY DEF Fact
<1>. QED
  BY <1>1, <1>2, <1>3, <1>4, <1>5, Names DEF Launches

LEMMA LaunchesHardening == Launches(5)
<1>. DEFINE q == <<"read sysctl.d", "read fstab", "read profile", "mkdir cache">>
            X == {"read sysctl.d", "read fstab", "read profile", "mkdir cache"}
            P == {"sysctlFile", "sysctlLive", "procFile", "procLive", "profile", "cache"}
<1>1. /\ q \in Seq(Command) /\ Among(q, X)
      /\ Has(q, "read sysctl.d") /\ Has(q, "read fstab") /\ Has(q, "read profile")
      /\ Has(q, "mkdir cache")
  <2>1. \A x \in X : x \in Command
    BY DEF Command
  <2>. QED
    BY <2>1, Fours, Zenon
<1>2. Commands["hardening"] = q /\ Promise["hardening"] = P
  BY DEF Commands, Promise
<1>. HIDE DEF q
<1>3. Allowed(q, 5)
  BY <1>1, PlainIsAllowed
<1>4. \A f \in P : Yielded(q, f)
  BY <1>1, WhatIsYielded, HasYields
<1>5. P \subseteq Fact
  BY DEF Fact
<1>. QED
  BY <1>1, <1>2, <1>3, <1>4, <1>5, Names DEF Launches

LEMMA LaunchesOverlayAPI == Launches(6)
<1>. DEFINE q == <<"write api unit", "daemon-reload", "start api">>
            X == {"write api unit", "daemon-reload", "start api"}
<1>1. q \in Seq(Command) /\ Among(q, X) /\ Has(q, "write api unit") /\ Has(q, "start api")
  <2>1. \A x \in X : x \in Command
    BY DEF Command
  <2>. QED
    BY <2>1, Threes, Zenon
<1>2. Commands["overlayAPI"] = q /\ Promise["overlayAPI"] = {"apiUnit", "api"}
  BY DEF Commands, Promise
<1>. HIDE DEF q
<1>3. Allowed(q, 6)
  BY <1>1, PlainIsAllowed
<1>4. Yielded(q, "apiUnit") /\ Yielded(q, "api")
  BY <1>1, WhatIsYielded, HasYields
<1>5. {"apiUnit", "api"} \subseteq Fact
  BY DEF Fact
<1>. QED
  BY <1>1, <1>2, <1>3, <1>4, <1>5, Names DEF Launches

LEMMA LaunchesInfo == Launches(7)
<1>1. /\ <<>> \in Seq(Command)
      /\ \A x : ~Has(<<>>, x) /\ ~Yielded(<<>>, x)
  BY NoneAndOne
<1>2. Commands["info"] = <<>> /\ Promise["info"] = {}
  BY DEF Commands, Promise
<1>3. Allowed(<<>>, 7)
  BY <1>1, Zenon DEF Allowed
<1>. QED
  BY <1>1, <1>2, <1>3, Names DEF Launches

LEMMA LaunchesSummary == Launches(8)
<1>. DEFINE q == <<"set installed">>
<1>1. q \in Seq(Command) /\ Has(q, "set installed") /\ Among(q, {"set installed"})
  <2>1. "set installed" \in Command
    BY DEF Command
  <2>. QED
    BY <2>1, NoneAndOne, Zenon
<1>2. Commands["summary"] = q /\ Promise["summary"] = {"installed"}
  BY DEF Commands, Promise
<1>. HIDE DEF q
<1>3. Allowed(q, 8)
  <2>1. \A x : x \notin {"set installed"} => ~Has(q, x)
    BY <1>1, NotThere
  <2>. QED
    BY <2>1 DEF Allowed
<1>4. Yielded(q, "installed") /\ "installed" \in Fact
  BY <1>1, WhatIsYielded, HasYields DEF Fact
<1>. QED
  BY <1>1, <1>2, <1>3, <1>4, Names DEF Launches

LEMMA EveryStepLaunches ==
    ASSUME NEW s \in Step
    PROVE  Launches(s)
<1>1. s = 1 \/ s = 2 \/ s = 3 \/ s = 4 \/ s = 5 \/ s = 6 \/ s = 7 \/ s = 8
  BY Names
<1>. QED
  BY <1>1, LaunchesPreflight, LaunchesTailscale, LaunchesCloudflared, LaunchesUfw,
     LaunchesHardening, LaunchesOverlayAPI, LaunchesInfo, LaunchesSummary, Zenon

-----------------------------------------------------------------------------
(* The commands that a look at the host asks for.                          *)

\* The commands a that c asks for on host h are allowed where c is, and what c yields
\* comes from them, holds on h, or is assumed.
AsksWell(c, h, a) ==
    /\ a \in Seq(Command)
    /\ \A s : (c = "ufw status" => s = 4) => Allowed(a, s)
    /\ \A f \in Yields(c) : f \in After(c, h) \/ Yielded(a, f) \/ f \in Assumed(c, h)

Looks == {"tailscale version", "tailscale status", "cloudflared version", "tunnel list",
          "stat unit", "ufw status", "read sysctl.d", "read fstab", "read profile"}

LEMMA WhatLooksYield ==
    /\ Yields("tailscale version") = {"tailscale"} /\ Yields("tailscale status") = {"loggedIn"}
    /\ Yields("cloudflared version") = {"cloudflared"} /\ Yields("tunnel list") = {}
    /\ Yields("stat unit") = {"unit"} /\ Yields("read profile") = {"profile"}
    /\ Yields("install tailscale") = {"tailscale"} /\ Yields("tailscale up") = {"loggedIn"}
    /\ Yields("dpkg") = {"cloudflared"} /\ Yields("write unit") = {"unit"}
    /\ Yields("ufw deny") = {"deny"} /\ Yields("ufw enable") = {"firewall"}
    /\ Yields("write sysctl.d") = {"sysctlFile"} /\ Yields("sysctl") = {"sysctlLive"}
    /\ Yields("write fstab") = {"procFile"} /\ Yields("remount") = {"procLive"}
    /\ Yields("write profile") = {"profile"}
BY DEF Yields, Fixes

LEMMA LooksChangeNothing ==
    ASSUME NEW c \in Looks, NEW h
    PROVE  After(c, h) = h
BY DEF Looks, After, Fixes

LEMMA OthersAsk ==
    ASSUME NEW c, c \notin Looks, NEW h, NEW t
    PROVE  AsksWell(c, h, Asks(c, h, t))
<1>1. Asks(c, h, t) = <<>>
  BY DEF Asks, Looks
<1>2. /\ <<>> \in Seq(Command)
      /\ \A x : ~Has(<<>>, x) /\ ~Yielded(<<>>, x)
  BY NoneAndOne
<1>3. \A s : Allowed(<<>>, s)
  BY <1>2, Zenon DEF Allowed
<1>4. \A f \in Yields(c) : f \in After(c, h)
  <2>1. CASE c \in DOMAIN Fixes
    <3>1. Yields(c) = {Fixes[c]}
      BY <1>1, <2>1 DEF Yields, Looks
    <3>. QED
      BY <2>1, <3>1 DEF After
  <2>2. CASE c \notin DOMAIN Fixes
    <3>1. Yields(c) = {}
      BY <2>2 DEF Yields, Looks
    <3>. QED
      BY <3>1
  <2>. QED
    BY <2>1, <2>2
<1>. QED
  BY <1>1, <1>2, <1>3, <1>4, Zenon DEF AsksWell

\* A look that asks for a command x, unless the fact f that both yield holds.
LEMMA LooksAsk ==
    ASSUME NEW c, c # "ufw status", NEW h, NEW a, NEW f, Yields(c) = {f}, After(c, h) = h,
           NEW x \in Command, Yields(x) = {f}, a = UnlessHeld(f, h, <<x>>),
           x \notin {"set installed", "ufw status", "ufw deny", "ufw enable"}
    PROVE  AsksWell(c, h, a)
<1>1. /\ <<>> \in Seq(Command)
      /\ \A y : ~Has(<<>>, y) /\ ~Yielded(<<>>, y)
      /\ <<x>> \in Seq(Command) /\ Among(<<x>>, {x})
      /\ \A g : Yielded(<<x>>, g) <=> g \in Yields(x)
  BY NoneAndOne, Zenon
<1>2. \A s : Allowed(<<>>, s)
  BY <1>1, Zenon DEF Allowed
<1>3. \A s : Allowed(<<x>>, s)
  BY <1>1, PlainIsAllowed
<1>4. CASE f \in h
  <2>1. a = <<>>
    BY <1>4 DEF UnlessHeld
  <2>2. ASSUME NEW g \in Yields(c) PROVE g \in After(c, h)
    <3>1. g = f
      OBVIOUS
    <3>. QED
      BY <1>4, <3>1
  <2>. QED
    BY <2>1, <2>2, <1>1, <1>2, Zenon DEF AsksWell
<1>5. CASE f \notin h
  <2>1. a = <<x>>
    BY <1>5 DEF UnlessHeld
  <2>2. \A g \in Yields(c) : Yielded(<<x>>, g)
    BY <1>1
  <2>. QED
    BY <2>1, <2>2, <1>1, <1>3, Zenon DEF AsksWell
<1>. QED
  BY <1>4, <1>5

LEMMA SimpleLooksAsk ==
    ASSUME NEW c \in {"tailscale version", "tailscale status", "cloudflared version",
                      "read profile"}, NEW h, NEW t
    PROVE  AsksWell(c, h, Asks(c, h, t))
<1>1. After(c, h) = h /\ c # "ufw status"
  BY LooksChangeNothing DEF Looks
<1>2. CASE c = "tailscale version"
  <2>1. "install tailscale" \in Command
    BY DEF Command
  <2>2. Asks(c, h, t) = UnlessHeld("tailscale", h, <<"install tailscale">>)
    BY <1>2 DEF Asks
  <2>. QED
    BY <1>1, <1>2, <2>1, <2>2, WhatLooksYield, LooksAsk
<1>3. CASE c = "tailscale status"
  <2>1. "tailscale up" \in Command
    BY DEF Command
  <2>2. Asks(c, h, t) = UnlessHeld("loggedIn", h, <<"tailscale up">>)
    BY <1>3 DEF Asks
  <2>. QED
    BY <1>1, <1>3, <2>1, <2>2, WhatLooksYield, LooksAsk
<1>4. CASE c = "cloudflared version"
  <2>1. "dpkg" \in Command
    BY DEF Command
  <2>2. Asks(c, h, t) = UnlessHeld("cloudflared", h, <<"dpkg">>)
    BY <1>4 DEF Asks
  <2>. QED
    BY <1>1, <1>4, <2>1, <2>2, WhatLooksYield, LooksAsk
<1>5. CASE c = "read profile"
  <2>1. "write profile" \in Command
    BY DEF Command
  <2>2. Asks(c, h, t) = UnlessHeld("profile", h, <<"write profile">>)
    BY <1>5 DEF Asks
  <2>. QED
    BY <1>1, <1>5, <2>1, <2>2, WhatLooksYield, LooksAsk
<1>. QED
  BY <1>2, <1>3, <1>4, <1>5

LEMMA TunnelListAsks ==
    ASSUME NEW h, NEW t
    PROVE  AsksWell("tunnel list", h, Asks("tunnel list", h, t))
<1>. DEFINE a == Asks("tunnel list", h, t)
<1>1. a = <<>> \/ a = <<"tunnel create">>
  BY DEF Asks
<1>. HIDE DEF a
<1>2. "tunnel create" \in Command
  BY DEF Command
<1>3. /\ <<>> \in Seq(Command)
      /\ \A y : ~Has(<<>>, y) /\ ~Yielded(<<>>, y)
      /\ <<"tunnel create">> \in Seq(Command) /\ Among(<<"tunnel create">>, {"tunnel create"})
  BY <1>2, NoneAndOne, Zenon
<1>4. \A s : Allowed(<<>>, s)
  BY <1>3, Zenon DEF Allowed
<1>5. \A s : Allowed(<<"tunnel create">>, s)
  BY <1>3, PlainIsAllowed
<1>6. \A f \in Yields("tunnel list") : FALSE
  BY WhatLooksYield, Zenon
<1>7. AsksWell("tunnel list", h, <<>>) /\ AsksWell("tunnel list", h, <<"tunnel create">>)
  BY <1>3, <1>4, <1>5, <1>6, Zenon DEF AsksWell
<1>. QED
  BY <1>1, <1>7 DEF a

LEMMA StatUnitAsks ==
    ASSUME NEW h, NEW t
    PROVE  AsksWell("stat unit", h, Asks("stat unit", h, t))
<1>. DEFINE q == UnlessHeld("unit", h, <<"write unit">>)
            reload == <<"daemon-reload">>
            a == q \o reload
<1>1. "write unit" \in Command /\ "daemon-reload" \in Command
  BY DEF Command
<1>2. After("stat unit", h) = h
  BY LooksChangeNothing DEF Looks
<1>3. AsksWell("stat unit", h, q)
  BY <1>1, <1>2, WhatLooksYield, LooksAsk
<1>4. reload \in Seq(Command) /\ Among(reload, {"daemon-reload"})
  BY <1>1, NoneAndOne, Zenon
<1>5. Asks("stat unit", h, t) = a
  BY DEF Asks
<1>. HIDE DEF q, reload
<1>6. q \in Seq(Command)
  BY <1>3 DEF AsksWell
<1>7. /\ a \in Seq(Command)
      /\ \A x : Has(a, x) <=> Has(q, x) \/ Has(reload, x)
      /\ \A f : Yielded(a, f) <=> Yielded(q, f) \/ Yielded(reload, f)
  BY <1>4, <1>6, JoinedHas, Zenon
<1>. HIDE DEF a
<1>8. \A s : Allowed(reload, s)
  BY <1>4, PlainIsAllowed
<1>9. \A s : Allowed(q, s) => Allowed(a, s)
  BY <1>7, <1>8, Zenon DEF Allowed
<1>. QED
  BY <1>3, <1>5, <1>7, <1>9, Zenon DEF AsksWell

LEMMA ReadSysctlAsks ==
    ASSUME NEW h, NEW t
    PROVE  AsksWell("read sysctl.d", h, Asks("read sysctl.d", h, t))
<1>. DEFINE q == <<"write sysctl.d", "sysctl">>
            X == {"write sysctl.d", "sysctl"}
<1>1. \A x \in X : x \in Command
  BY DEF Command
<1>2. After("read sysctl.d", h) = h
  BY LooksChangeNothing DEF Looks
<1>3. <<>> \in Seq(Command) /\ \A y : ~Has(<<>>, y) /\ ~Yielded(<<>>, y)
  BY NoneAndOne, Zenon
<1>4. q \in Seq(Command) /\ Has(q, "write sysctl.d") /\ Has(q, "sysctl") /\ Among(q, X)
  BY <1>1, Pairs
<1>5. Asks("read sysctl.d", h, t) = IF "sysctlFile" \in h THEN <<>> ELSE q
  BY DEF Asks, UnlessHeld
<1>. HIDE DEF q
<1>6. \A s : Allowed(q, s)
  BY <1>4, PlainIsAllowed
<1>7. \A s : Allowed(<<>>, s)
  BY <1>3, Zenon DEF Allowed
<1>8. Yielded(q, "sysctlFile") /\ Yielded(q, "sysctlLive")
  BY <1>4, WhatLooksYield, HasYields
<1>9. \A f \in Yields("read sysctl.d") : f = "sysctlFile" \/ f = "sysctlLive"
  BY WhatIsYielded
<1>10. CASE "sysctlFile" \in h
  <2>1. "sysctlFile" \in After("read sysctl.d", h) /\ "sysctlLive" \in Assumed("read sysctl.d", h)
    BY <1>2, <1>10 DEF Assumed
  <2>2. Asks("read sysctl.d", h, t) = <<>>
    BY <1>5, <1>10
  <2>. QED
    BY <1>3, <1>7, <1>9, <2>1, <2>2, Zenon DEF AsksWell
<1>11. CASE "sysctlFile" \notin h
  BY <1>4, <1>5, <1>6, <1>8, <1>9, <1>11, Zenon DEF AsksWell
<1>. QED
  BY <1>10, <1>11

LEMMA ReadFstabAsks ==
    ASSUME NEW h, NEW t
    PROVE  AsksWell("read fstab", h, Asks("read fstab", h, t))
<1>. DEFINE q == <<"write fstab", "remount">>
            X == {"write fstab", "remount"}
<1>1. \A x \in X : x \in Command
  BY DEF Command
<1>2. After("read fstab", h) = h
  BY LooksChangeNothing DEF Looks
<1>3. <<>> \in Seq(Command) /\ \A y : ~Has(<<>>, y) /\ ~Yielded(<<>>, y)
  BY NoneAndOne, Zenon
<1>4. q \in Seq(Command) /\ Has(q, "write fstab") /\ Has(q, "remount") /\ Among(q, X)
  BY <1>1, Pairs
<1>5. Asks("read fstab", h, t) = IF "procFile" \in h THEN <<>> ELSE q
  BY DEF Asks, UnlessHeld
<1>. HIDE DEF q
<1>6. \A s : Allowed(q, s)
  BY <1>4, PlainIsAllowed
<1>7. \A s : Allowed(<<>>, s)
  BY <1>3, Zenon DEF Allowed
<1>8. Yielded(q, "procFile") /\ Yielded(q, "procLive")
  BY <1>4, WhatLooksYield, HasYields
<1>9. \A f \in Yields("read fstab") : f = "procFile" \/ f = "procLive"
  BY WhatIsYielded
<1>10. CASE "procFile" \in h
  <2>1. "procFile" \in After("read fstab", h) /\ "procLive" \in Assumed("read fstab", h)
    BY <1>2, <1>10 DEF Assumed
  <2>2. Asks("read fstab", h, t) = <<>>
    BY <1>5, <1>10
  <2>. QED
    BY <1>3, <1>7, <1>9, <2>1, <2>2, Zenon DEF AsksWell
<1>11. CASE "procFile" \notin h
  BY <1>4, <1>5, <1>6, <1>8, <1>9, <1>11, Zenon DEF AsksWell
<1>. QED
  BY <1>10, <1>11

LEMMA NoPorts ==
    /\ SetToSeq({}) = <<>>
    /\ \A q \in Seq(Command) : q \o SetToSeq({}) = q
<1>. DEFINE q == SetToSeq({})
            n == Cardinality({})
<1>1. n = 0
  BY FS_EmptySet
<1>2. 1..n = {}
  BY <1>1
<1>3. \E f \in [1..n -> {}] : IsInjective(f)
  <2>1. [i \in {} |-> i] \in [1..n -> {}] /\ IsInjective([i \in {} |-> i])
    BY <1>2 DEF IsInjective
  <2>. QED
    BY <2>1
<1>4. q \in [1..n -> {}]
  BY <1>3 DEF SetToSeq
<1>. HIDE DEF q
<1>5. q \in Seq({}) /\ Len(q) = 0
  BY <1>1, <1>4
<1>6. q = <<>>
  BY <1>5
<1>. QED
  BY <1>6 DEF q

\* Two lists of commands that are allowed in step 4.
LEMMA UfwJoined ==
    ASSUME NEW q \in Seq(Command), NEW r \in Seq(Command), NEW a, a = q \o r,
           NEW X, NEW Y, Among(q, X), Among(r, Y),
           "set installed" \notin X, "set installed" \notin Y
    PROVE  /\ a \in Seq(Command) /\ Allowed(a, 4)
           /\ \A f : Yielded(a, f) <=> Yielded(q, f) \/ Yielded(r, f)
<1>1. /\ a \in Seq(Command)
      /\ \A x : Has(a, x) <=> Has(q, x) \/ Has(r, x)
      /\ \A f : Yielded(a, f) <=> Yielded(q, f) \/ Yielded(r, f)
  BY JoinedHas, Zenon
<1>2. ~Has(q, "set installed") /\ ~Has(r, "set installed")
  BY NotThere
<1>. QED
  BY <1>1, <1>2, Zenon DEF Allowed

LEMMA UfwAsks ==
    ASSUME NEW h, NEW t
    PROVE  AsksWell("ufw status", h, Asks("ufw status", h, t))
<1>. DEFINE a == Asks("ufw status", h, t)
            reload == <<"ufw deny", "ufw reload">>
            outgoing == <<"ufw deny", "ufw allow outgoing">>
            enable == <<"ufw enable">>
<1>1. /\ "ufw deny" \in Command /\ "ufw reload" \in Command
      /\ "ufw allow outgoing" \in Command /\ "ufw enable" \in Command
  BY DEF Command
<1>2. After("ufw status", h) = h
  BY LooksChangeNothing DEF Looks
<1>3. /\ <<>> \in Seq(Command)
      /\ \A y : ~Has(<<>>, y) /\ ~Yielded(<<>>, y)
      /\ enable \in Seq(Command) /\ Has(enable, "ufw enable") /\ Among(enable, {"ufw enable"})
  BY <1>1, NoneAndOne, Zenon
<1>4. reload \in Seq(Command) /\ Has(reload, "ufw deny") /\ Among(reload, {"ufw deny", "ufw reload"})
  BY <1>1, Pairs
<1>5. /\ outgoing \in Seq(Command) /\ Has(outgoing, "ufw deny")
      /\ Among(outgoing, {"ufw deny", "ufw allow outgoing"})
  BY <1>1, Pairs
<1>6. a = FirewallCommands(h, {})
  BY DEF Asks
<1>7. {} \ h = {}
  OBVIOUS
<1>8. /\ "firewall" \in h /\ "deny" \in h => a = <<>> \o SetToSeq({})
      /\ "firewall" \in h /\ "deny" \notin h => a = reload \o SetToSeq({})
      /\ "firewall" \notin h => a = outgoing \o SetToSeq({}) \o enable
  BY <1>6, <1>7, Zenon DEF FirewallCommands, UnlessHeld
<1>. HIDE DEF a, reload, outgoing, enable
<1>9. /\ "firewall" \in h /\ "deny" \in h => a = <<>>
      /\ "firewall" \in h /\ "deny" \notin h => a = reload
      /\ "firewall" \notin h => a = outgoing \o enable
  BY <1>3, <1>4, <1>5, <1>8, NoPorts, Zenon
<1>10. /\ Yielded(reload, "deny") /\ Yielded(outgoing, "deny") /\ Yielded(enable, "firewall")
  BY <1>3, <1>4, <1>5, WhatLooksYield, HasYields
<1>11. \A f \in Yields("ufw status") : f = "firewall" \/ f = "deny"
  BY WhatIsYielded
<1>12. CASE "firewall" \in h /\ "deny" \in h
  <2>1. \A s : Allowed(<<>>, s)
    BY <1>3, Zenon DEF Allowed
  <2>. QED
    BY <1>2, <1>3, <1>9, <1>11, <1>12, <2>1, Zenon DEF AsksWell, a
<1>13. CASE "firewall" \in h /\ "deny" \notin h
  <2>1. \A x : x \notin {"ufw deny", "ufw reload"} =>
            ~Has(reload, x)
    BY <1>4, NotThere
  <2>2. Allowed(reload, 4)
    BY <2>1 DEF Allowed
  <2>. QED
    BY <1>2, <1>4, <1>9, <1>10, <1>11, <1>13, <2>2, Zenon DEF AsksWell, a
<1>14. CASE "firewall" \notin h
  <2>1. /\ a \in Seq(Command) /\ Allowed(a, 4)
        /\ \A f : Yielded(a, f) <=> Yielded(outgoing, f) \/ Yielded(enable, f)
    <3>. DEFINE X == {"ufw deny", "ufw allow outgoing"}
                Y == {"ufw enable"}
    <3>1. "set installed" \notin X /\ "set installed" \notin Y
      OBVIOUS
    <3>2. Among(outgoing, X) /\ Among(enable, Y) /\ a = outgoing \o enable
      BY <1>3, <1>5, <1>9, <1>14
    <3>. HIDE DEF X, Y
    <3>. QED
      BY <1>3, <1>5, <3>1, <3>2, UfwJoined
  <2>. QED
    BY <1>10, <1>11, <2>1, Zenon DEF AsksWell, a
<1>. QED
  BY <1>12, <1>13, <1>14

LEMMA EveryCommandAsksWell ==
    ASSUME NEW c, NEW h, NEW t
    PROVE  AsksWell(c, h, Asks(c, h, t))
<1>1. CASE c \notin Looks
  BY <1>1, OthersAsk
<1>2. CASE c \in Looks
  <2>1. \/ c \in {"tailscale version", "tailscale status", "cloudflared version", "read profile"}
        \/ c = "tunnel list" \/ c = "stat unit" \/ c = "ufw status"
        \/ c = "read sysctl.d" \/ c = "read fstab"
    BY <1>2 DEF Looks
  <2>. QED
    BY <2>1, SimpleLooksAsk, TunnelListAsks, StatUnitAsks, UfwAsks, ReadSysctlAsks,
       ReadFstabAsks, Zenon
<1>. QED
  BY <1>1, <1>2

\* n is left of the commands q of step s after the first, c, has run and seen the host
\* as h.
Continues(q, s, c, h, n) ==
    /\ c \in Command /\ n \in Seq(Command) /\ Allowed(n, s)
    /\ \A f : Yielded(q, f) => Yielded(n, f) \/ f \in After(c, h) \/ f \in Assumed(c, h)
    /\ c = "set installed" => s = 8
    /\ c \in {"ufw deny", "ufw enable"} => s = 4

LEMMA NextCommands ==
    ASSUME NEW q \in Seq(Command), q # <<>>, NEW h, NEW t, NEW s, Allowed(q, s),
           NEW c, c = Head(q), NEW rest, rest = Tail(q), NEW a, a = Asks(c, h, t),
           NEW n, n = a \o rest
    PROVE  Continues(q, s, c, h, n)
<1>1. c \in Command /\ <<c>> \in Seq(Command) /\ rest \in Seq(Command) /\ q = <<c>> \o rest
  BY HeadAndTail
<1>2. AsksWell(c, h, a)
  BY EveryCommandAsksWell
<1>3. a \in Seq(Command)
  BY <1>2 DEF AsksWell
<1>. DEFINE one == <<c>>
<1>4. Has(one, c) /\ \A f : Yielded(one, f) <=> f \in Yields(c)
  BY <1>1, NoneAndOne, Zenon
<1>5. one \in Seq(Command) /\ q = one \o rest
  BY <1>1
<1>. HIDE DEF one
<1>6. /\ \A x : Has(q, x) <=> Has(one, x) \/ Has(rest, x)
      /\ \A f : Yielded(q, f) <=> Yielded(one, f) \/ Yielded(rest, f)
  BY <1>1, <1>5, JoinedHas
<1>7. /\ n \in Seq(Command)
      /\ \A x : Has(n, x) <=> Has(a, x) \/ Has(rest, x)
      /\ \A f : Yielded(n, f) <=> Yielded(a, f) \/ Yielded(rest, f)
  <2>. DEFINE P(u, v, m) ==
           /\ m \in Seq(Command)
           /\ \A x : Has(m, x) <=> Has(u, x) \/ Has(v, x)
           /\ \A f : Yielded(m, f) <=> Yielded(u, f) \/ Yielded(v, f)
  <2>1. \A u, v, m : u \in Seq(Command) /\ v \in Seq(Command) /\ m = u \o v => P(u, v, m)
    BY JoinedHas
  <2>2. rest \in Seq(Command)
    BY <1>1
  <2>. HIDE DEF P
  <2>3. P(a, rest, n)
    BY <1>3, <2>1, <2>2
  <2>. QED
    BY <2>3, Zenon DEF P
<1>8. /\ c = "set installed" => s = 8
      /\ c \in {"ufw status", "ufw deny", "ufw enable"} => s = 4
  BY <1>4, <1>6, Zenon DEF Allowed
<1>9. Allowed(a, s)
  BY <1>2, <1>8 DEF AsksWell
<1>10. Allowed(n, s)
  BY <1>6, <1>7, <1>9, Zenon DEF Allowed
<1>11. \A f : Yielded(q, f) => Yielded(n, f) \/ f \in After(c, h) \/ f \in Assumed(c, h)
  BY <1>2, <1>4, <1>6, <1>7, Zenon DEF AsksWell
<1>12. c \in {"ufw deny", "ufw enable"} => s = 4
  BY <1>8
<1>. QED
  BY <1>1, <1>7, <1>8, <1>10, <1>11, <1>12, Zenon DEF Continues

\* What a look that may fail takes the host to be.
LEMMA MistakenIsClose ==
    ASSUME NEW c \in Lenient, NEW h \in SUBSET Fact
    PROVE  c \in Looks /\ Mistaken(c, h) \subseteq h \cup Assumed(c, Mistaken(c, h))
<1>1. CASE c = "tailscale status"
  <2>1. Mistaken(c, h) = h \cup {"loggedIn"}
    BY <1>1 DEF Mistaken
  <2>2. "loggedIn" \in Assumed(c, Mistaken(c, h))
    BY <1>1, <2>1 DEF Assumed
  <2>. QED
    BY <1>1, <2>1, <2>2 DEF Looks
<1>2. CASE c # "tailscale status"
  <2>1. Mistaken(c, h) \subseteq h
    BY <1>2 DEF Mistaken, Lenient
  <2>. QED
    BY <2>1 DEF Lenient, Looks
<1>. QED
  BY <1>1, <1>2

LEMMA AssumedFacts ==
    ASSUME NEW c, NEW h
    PROVE  Assumed(c, h) \subseteq {"loggedIn", "sysctlLive", "procLive"}
BY DEF Assumed

LEMMA HostAfter ==
    ASSUME NEW c, NEW h \in SUBSET Fact
    PROVE  /\ h \subseteq After(c, h) /\ After(c, h) \subseteq Fact
           /\ "installed" \in After(c, h) => "installed" \in h \/ c = "set installed"
           /\ "firewall" \in After(c, h) => "firewall" \in h \/ c = "ufw enable"
           /\ "deny" \in After(c, h) => "deny" \in h \/ c = "ufw deny"
<1>1. CASE c \in DOMAIN Fixes
  <2>1. After(c, h) = h \cup {Fixes[c]}
    BY <1>1 DEF After
  <2>2. /\ Fixes[c] \in Fact
        /\ Fixes[c] = "installed" => c = "set installed"
        /\ Fixes[c] = "firewall" => c = "ufw enable"
        /\ Fixes[c] = "deny" => c = "ufw deny"
    BY <1>1 DEF Fixes, Fact
  <2>. QED
    BY <2>1, <2>2
<1>2. CASE c \notin DOMAIN Fixes
  <2>1. After(c, h) = h
    BY <1>2 DEF After
  <2>. QED
    BY <2>1
<1>. QED
  BY <1>1, <1>2

-----------------------------------------------------------------------------
(* What a step keeps.                                                      *)

SettledKept == \A f : f \in Settled => f \in Settled'
DoneKept == \A s \in Step : Done(s) => Done(s)'

LEMMA KeepsSettled ==
    ASSUME host' = host, missed' = missed
    PROVE  SettledKept
BY DEF SettledKept, Settled

LEMMA KeepsDone ==
    ASSUME SettledKept, \A s \in Step : s \in skipped => s \in skipped' \/ Done(s)'
    PROVE  DoneKept
BY DEF SettledKept, DoneKept, Done

LEMMA KeepsBefore ==
    ASSUME DoneKept
    PROVE  \A s : Before(s) => Before(s)'
BY DEF DoneKept, Before

LEMMA GoodStays ==
    ASSUME NEW w \in Worker, worker'[w] = worker[w], Good(w), SettledKept, DoneKept
    PROVE  Good(w)'
<1>1. Before(worker[w].step)'
  BY KeepsBefore DEF Good, Before
<1>2. Promising(w)'
  BY DEF Good, Promising, SettledKept
<1>. QED
  BY <1>1, <1>2 DEF Good, Before

LEMMA GoodIdle ==
    ASSUME NEW w \in Worker, worker'[w] = NoWorker
    PROVE  Good(w)'
<1>1. worker'[w].step = 0 /\ worker'[w].todo = <<>> /\ worker'[w].result = "none"
  BY DEF NoWorker
<1>2. Allowed(<<>>, 0)
  <2>1. \A x : ~Has(<<>>, x)
    BY NoneAndOne
  <2>. QED
    BY <2>1, Zenon DEF Allowed
<1>3. \A r \in Step : ~(r < 0)
  BY Names
<1>4. Allowed(worker'[w].todo, worker'[w].step)
  BY <1>1, <1>2
<1>. QED
  BY <1>1, <1>3, <1>4 DEF Good, Promising, Before

LEMMA GoodFailed ==
    ASSUME NEW w \in Worker, worker'[w].step = worker[w].step, worker'[w].todo = <<>>,
           worker'[w].result = "error", Good(w), DoneKept
    PROVE  Good(w)'
<1>1. \A s : Allowed(<<>>, s)
  <2>1. \A x : ~Has(<<>>, x)
    BY NoneAndOne
  <2>. QED
    BY <2>1, Zenon DEF Allowed
<1>2. Allowed(worker'[w].todo, worker'[w].step)
  BY <1>1
<1>3. \A r \in Step : r < worker[w].step => Done(r)'
  BY DEF Good, Before, DoneKept
<1>. QED
  BY <1>2, <1>3 DEF Good, Promising, Before

LEMMA GoodRunning ==
    ASSUME NEW w \in Worker, NEW s \in Step, worker'[w] = Running(s), Before(s)'
    PROVE  Good(w)'
<1>1. /\ worker'[w].step = s /\ worker'[w].todo = Commands[StepName[s]]
      /\ worker'[w].result = "running"
  BY DEF Running
<1>2. /\ Allowed(worker'[w].todo, worker'[w].step)
      /\ \A f \in Promise[StepName[worker'[w].step]] : Yielded(worker'[w].todo, f)
  BY <1>1, EveryStepLaunches DEF Launches
<1>. QED
  BY <1>1, <1>2 DEF Good, Promising, Before

-----------------------------------------------------------------------------
(* Steps that leave the host alone.                                        *)

\* What can happen to a goroutine that does not run a command.
Failed(w) ==
    /\ worker'[w].step = worker[w].step
    /\ worker'[w].todo = <<>> /\ worker'[w].result = "error"

Launched(w) == \E s \in Step : worker'[w] = Running(s) /\ Before(s)'

Turned(w) ==
    \/ worker'[w] = worker[w]
    \/ worker'[w] = NoWorker
    \/ Failed(w) \/ Launched(w)

LEMMA QuietStep ==
    ASSUME InstallInv, host' = host, tunnel' = tunnel, missed' = missed, Workers', Screen',
           \A w \in Worker : Turned(w), SettledKept, DoneKept, Before(current)'
    PROVE  InstallInv'
<1>1. Typed'
  BY DEF InstallInv, Typed, Missed
<1>2. ASSUME NEW w \in Worker PROVE Good(w)'
  <2>1. Good(w)
    BY DEF InstallInv
  <2>2. Turned(w)
    OBVIOUS
  <2>. QED
    BY <2>1, <2>2, GoodStays, GoodIdle, GoodFailed, GoodRunning DEF Turned, Failed, Launched
<1>3. ("installed" \in host => \A s \in Step : Done(s))'
  <2>1. "installed" \in host => \A s \in Step : Done(s)
    BY DEF InstallInv
  <2>. QED
    BY <2>1 DEF DoneKept
<1>. QED
  BY <1>1, <1>2, <1>3 DEF InstallInv

LEMMA StepGoroutines ==
    /\ NoWorker \in Goroutine /\ NoWorker.step = 0 /\ NoWorker.todo = <<>>
    /\ NoWorker.result = "none"
    /\ \A s \in Step : /\ Running(s) \in Goroutine /\ Running(s).step = s /\ s # 0
                       /\ Running(s).result = "running"
<1>1. /\ NoWorker.step = 0 /\ NoWorker.todo = <<>> /\ NoWorker.result = "none"
  BY DEF NoWorker
<1>2. NoWorker \in Goroutine
  <2>1. <<>> \in Seq(Command)
    BY NoneAndOne
  <2>. QED
    BY <2>1 DEF NoWorker, Goroutine, Result
<1>3. ASSUME NEW s \in Step
      PROVE  /\ Running(s) \in Goroutine /\ Running(s).step = s /\ s # 0
             /\ Running(s).result = "running"
  <2>1. Commands[StepName[s]] \in Seq(Command)
    BY EveryStepLaunches DEF Launches
  <2>2. Running(s) \in Goroutine
    BY <2>1 DEF Running, Goroutine, Result
  <2>3. s # 0
    BY Names
  <2>4. Running(s).step = s /\ Running(s).result = "running"
    BY DEF Running
  <2>. QED
    BY <2>2, <2>3, <2>4
<1>. QED
  BY <1>1, <1>2, <1>3

\* The goroutines after runStep.
LEMMA AfterRuns ==
    ASSUME NEW workers \in [Worker -> Goroutine], NEW s \in Nat \ {0}, Runs(workers, s)
    PROVE  /\ worker' \in [Worker -> Goroutine]
           /\ \A v \in Worker :
                 \/ worker'[v] = workers[v]
                 \/ s \in Step /\ workers[v] = NoWorker /\ worker'[v] = Running(s)
<1>1. CASE s > LastStep
  BY <1>1 DEF Runs
<1>2. CASE ~(s > LastStep)
  <2>1. s \in Step
    BY <1>2, Names
  <2>2. PICK w \in Worker : workers[w] = NoWorker /\ worker' = [workers EXCEPT ![w] = Running(s)]
    BY <1>2 DEF Runs
  <2>3. Running(s) \in Goroutine
    BY <2>1, StepGoroutines
  <2>4. worker' \in [Worker -> Goroutine]
    BY <2>2, <2>3
  <2>. QED
    BY <2>1, <2>2, <2>4
<1>. QED
  BY <1>1, <1>2

LEMMA NoWorkerRests ==
    ASSUME Workers, NEW w \in Worker
    PROVE  worker[w] = NoWorker <=> worker[w].result = "none"
<1>1. worker[w] \in Goroutine
  BY DEF Workers
<1>2. worker[w] = [step |-> worker[w].step, todo |-> worker[w].todo, result |-> worker[w].result]
  BY <1>1 DEF Goroutine
<1>3. worker[w].result = "none" => worker[w].step = 0 /\ worker[w].todo = <<>>
  BY DEF Workers
<1>. QED
  BY <1>2, <1>3 DEF NoWorker

\* The goroutines after a step that leaves the result of w and runs a step s.
LEMMA Relaunched ==
    ASSUME Workers, NEW w \in Worker, worker[w].result # "running", NEW s \in Nat \ {0},
           Runs([worker EXCEPT ![w] = NoWorker], s)
    PROVE  /\ Workers'
           /\ \A v \in Worker :
                 \/ worker'[v] = worker[v]
                 \/ worker'[v] = NoWorker
                 \/ s \in Step /\ worker'[v] = Running(s)
<1>. DEFINE workers == [worker EXCEPT ![w] = NoWorker]
<1>1. workers \in [Worker -> Goroutine]
  BY StepGoroutines DEF Workers
<1>2. workers[w] = NoWorker /\ \A v \in Worker : v # w => workers[v] = worker[v]
  BY DEF Workers
<1>. HIDE DEF workers
<1>3. /\ worker' \in [Worker -> Goroutine]
      /\ \A v \in Worker :
            \/ worker'[v] = workers[v]
            \/ s \in Step /\ workers[v] = NoWorker /\ worker'[v] = Running(s)
  BY <1>1, AfterRuns DEF workers
<1>4. \A v \in Worker : \/ worker'[v] = worker[v]
                        \/ worker'[v] = NoWorker
                        \/ s \in Step /\ worker'[v] = Running(s)
  BY <1>2, <1>3
<1>5. \A v \in Worker : /\ worker'[v].step = 0 <=> worker'[v].result = "none"
                        /\ worker'[v].result # "running" => worker'[v].todo = <<>>
  BY <1>4, StepGoroutines DEF Workers
<1>. QED
  BY <1>3, <1>4, <1>5 DEF Workers

\* The goroutines after a step that only runs a step s.
LEMMA JustLaunched ==
    ASSUME Workers, NEW s \in Nat \ {0}, Runs(worker, s)
    PROVE  /\ Workers'
           /\ \A v \in Worker :
                 \/ worker'[v] = worker[v]
                 \/ s \in Step /\ worker'[v] = Running(s)
<1>1. worker \in [Worker -> Goroutine]
  BY DEF Workers
<1>2. /\ worker' \in [Worker -> Goroutine]
      /\ \A v \in Worker :
            \/ worker'[v] = worker[v]
            \/ s \in Step /\ worker[v] = NoWorker /\ worker'[v] = Running(s)
  BY <1>1, AfterRuns
<1>3. \A v \in Worker : /\ worker'[v].step = 0 <=> worker'[v].result = "none"
                        /\ worker'[v].result # "running" => worker'[v].todo = <<>>
  BY <1>2, StepGoroutines DEF Workers
<1>. QED
  BY <1>2, <1>3 DEF Workers

\* A quiet step that neither moves on nor skips.
LEMMA StayingStep ==
    ASSUME InstallInv, host' = host, tunnel' = tunnel, missed' = missed, Workers', Screen',
           \A w \in Worker : Turned(w), skipped' = skipped, current' = current
    PROVE  InstallInv'
<1>1. SettledKept
  BY KeepsSettled
<1>2. DoneKept
  BY <1>1, KeepsDone
<1>3. Before(current)'
  <2>1. Before(current)
    BY DEF InstallInv
  <2>. QED
    BY <1>2, <2>1 DEF Before, DoneKept
<1>. QED
  BY <1>1, <1>2, <1>3, QuietStep

LEMMA Emptied ==
    ASSUME Workers, NEW w \in Worker, worker' = [worker EXCEPT ![w] = NoWorker]
    PROVE  Workers' /\ worker'[w] = NoWorker /\ \A v \in Worker : v # w => worker'[v] = worker[v]
<1>1. /\ worker' \in [Worker -> Goroutine] /\ worker'[w] = NoWorker
      /\ \A v \in Worker : v # w => worker'[v] = worker[v]
  BY StepGoroutines DEF Workers
<1>2. \A v \in Worker : /\ worker'[v].step = 0 <=> worker'[v].result = "none"
                        /\ worker'[v].result # "running" => worker'[v].todo = <<>>
  BY <1>1, StepGoroutines DEF Workers
<1>. QED
  BY <1>1, <1>2 DEF Workers

LEMMA Broken ==
    ASSUME Workers, NEW w \in Worker, worker[w].result = "running",
           worker' = [worker EXCEPT ![w].result = "error", ![w].todo = <<>>]
    PROVE  Workers' /\ Failed(w) /\ \A v \in Worker : v # w => worker'[v] = worker[v]
<1>1. worker[w] \in Goroutine /\ worker[w].step # 0
  BY DEF Workers
<1>2. worker'[w] = [worker[w] EXCEPT !.result = "error", !.todo = <<>>]
  <2>1. worker \in [Worker -> Goroutine]
    BY DEF Workers
  <2>. QED
    BY <2>1
<1>3. <<>> \in Seq(Command)
  BY NoneAndOne
<1>4. /\ worker'[w].step = worker[w].step /\ worker'[w].todo = <<>>
      /\ worker'[w].result = "error" /\ worker'[w] \in Goroutine
  <2>. DEFINE none == <<>>
              d == worker[w]
              e == [d EXCEPT !.result = "error", !.todo = none]
  <2>1. none \in Seq(Command) /\ d \in Goroutine
    BY <1>1, <1>3
  <2>2. worker'[w] = e
    BY <1>2
  <2>. HIDE DEF none, d
  <2>3. e \in Goroutine /\ e.step = d.step /\ e.todo = none /\ e.result = "error"
    BY <2>1 DEF Goroutine, Result
  <2>. HIDE DEF e
  <2>. QED
    BY <2>2, <2>3 DEF none, d
<1>5. \A v \in Worker : v # w => worker'[v] = worker[v]
  BY DEF Workers
<1>6. worker' \in [Worker -> Goroutine]
  BY <1>3, <1>4 DEF Workers, Goroutine, Result
<1>7. \A v \in Worker : /\ worker'[v].step = 0 <=> worker'[v].result = "none"
                        /\ worker'[v].result # "running" => worker'[v].todo = <<>>
  BY <1>1, <1>4, <1>5 DEF Workers
<1>. QED
  BY <1>4, <1>5, <1>6, <1>7 DEF Workers, Failed

-----------------------------------------------------------------------------
(* The actions.                                                            *)

LEMMA DropKeeps ==
    ASSUME InstallInv, NEW w \in Worker, Drop(w)
    PROVE  InstallInv'
<1>1. Workers /\ Screen
  BY DEF InstallInv, Typed
<1>2. Workers' /\ worker'[w] = NoWorker /\ \A v \in Worker : v # w => worker'[v] = worker[v]
  BY <1>1, Emptied DEF Drop
<1>3. \A v \in Worker : Turned(v)
  BY <1>2 DEF Turned
<1>4. Screen'
  BY <1>1 DEF Drop, Screen, wizard, bounds
<1>. QED
  BY <1>2, <1>3, <1>4, StayingStep DEF Drop, wizard

LEMMA PromptKeeps ==
    ASSUME InstallInv, NEW w \in Worker, Prompt(w)
    PROVE  InstallInv'
<1>1. Workers /\ Screen
  BY DEF InstallInv, Typed
<1>2. Workers' /\ worker'[w] = NoWorker /\ \A v \in Worker : v # w => worker'[v] = worker[v]
  BY <1>1, Emptied DEF Prompt
<1>3. \A v \in Worker : Turned(v)
  BY <1>2 DEF Turned
<1>4. Screen'
  BY <1>1 DEF Prompt, Screen, bounds
<1>. QED
  BY <1>2, <1>3, <1>4, StayingStep DEF Prompt

LEMMA FailKeeps ==
    ASSUME InstallInv, NEW w \in Worker, Fail(w)
    PROVE  InstallInv'
<1>1. Workers /\ Screen
  BY DEF InstallInv, Typed
<1>2. Workers' /\ Failed(w) /\ \A v \in Worker : v # w => worker'[v] = worker[v]
  BY <1>1, Broken DEF Fail
<1>3. \A v \in Worker : Turned(v)
  BY <1>2 DEF Turned
<1>4. Screen'
  <2>1. Budget \in Nat
    BY InstallAssumption
  <2>2. budget' \in 0..Budget
    <3>1. budget > 0 /\ budget' = budget - 1
      BY Zenon DEF Fail
    <3>. QED
      BY <1>1, <2>1, <3>1 DEF Screen
  <2>3. UNCHANGED <<open, current, waitKey, skipped, launches, retries>>
    BY DEF Fail, wizard
  <2>. QED
    BY <1>1, <2>2, <2>3 DEF Screen
<1>. QED
  BY <1>2, <1>3, <1>4, StayingStep DEF Fail, wizard

LEMMA CloseKeeps ==
    ASSUME InstallInv, Close \/ Leave \/ UNCHANGED vars
    PROVE  InstallInv'
<1>1. Workers /\ Screen
  BY DEF InstallInv, Typed
<1>2. /\ worker' = worker /\ host' = host /\ tunnel' = tunnel /\ missed' = missed
      /\ skipped' = skipped /\ current' = current
  BY DEF Close, Leave, vars, wizard, bounds
<1>3. Workers' /\ \A v \in Worker : Turned(v)
  BY <1>1, <1>2 DEF Workers, Turned
<1>4. Screen'
  <2>1. Budget \in Nat
    BY InstallAssumption
  <2>2. budget' \in 0..Budget
    BY <1>1, <2>1 DEF Close, Leave, vars, bounds, Screen
  <2>3. open' \in BOOLEAN /\ UNCHANGED <<current, waitKey, skipped, launches, retries>>
    BY <1>1 DEF Close, Leave, vars, wizard, bounds, Screen
  <2>. QED
    BY <1>1, <2>2, <2>3 DEF Screen
<1>. QED
  BY <1>2, <1>3, <1>4, StayingStep

LEMMA QuitKeeps ==
    ASSUME InstallInv, Quit
    PROVE  InstallInv'
<1>1. Workers /\ Screen
  BY DEF InstallInv, Typed
<1>2. \A v \in Worker : worker'[v] = NoWorker
  BY DEF Quit
<1>3. Workers'
  <2>1. worker' \in [Worker -> Goroutine]
    BY StepGoroutines DEF Quit
  <2>. QED
    BY <1>2, <2>1, StepGoroutines DEF Workers
<1>4. \A v \in Worker : Turned(v)
  BY <1>2 DEF Turned
<1>5. Screen'
  <2>1. Budget \in Nat
    BY InstallAssumption
  <2>2. budget' \in 0..Budget
    BY <1>1, <2>1 DEF Quit, Screen
  <2>3. open' \in BOOLEAN /\ UNCHANGED <<current, waitKey, skipped, launches, retries>>
    BY DEF Quit
  <2>. QED
    BY <1>1, <2>2, <2>3 DEF Screen
<1>. QED
  BY <1>3, <1>4, <1>5, StayingStep DEF Quit

LEMMA LaunchKeeps ==
    ASSUME InstallInv, Launch
    PROVE  InstallInv'
<1>1. Workers /\ Screen
  BY DEF InstallInv, Typed
<1>2. /\ Workers'
      /\ \A v \in Worker : \/ worker'[v] = worker[v]
                           \/ 1 \in Step /\ worker'[v] = Running(1)
  BY <1>1, JustLaunched DEF Launch
<1>3. \A s : s = 1 => Before(s)'
  BY Names DEF Before
<1>4. \A v \in Worker : Turned(v)
  BY <1>2, <1>3 DEF Turned, Launched
<1>5. host' = host /\ tunnel' = tunnel /\ missed' = missed /\ skipped' = skipped /\ current' = 1
  BY DEF Launch
<1>6. Screen'
  <2>1. MaxLaunches \in Nat
    BY InstallAssumption
  <2>2. launches' \in 0..MaxLaunches
    BY <1>1, <2>1 DEF Launch, Screen
  <2>3. /\ open' \in BOOLEAN /\ waitKey' \in BOOLEAN /\ current' = 1
        /\ UNCHANGED <<skipped, retries, budget>>
    BY DEF Launch
  <2>4. 1 \in 1..(Len(StepName) + 1)
    BY Names
  <2>. QED
    BY <1>1, <2>2, <2>3, <2>4 DEF Screen
<1>7. SettledKept
  BY <1>5, KeepsSettled
<1>8. DoneKept
  BY <1>5, <1>7, KeepsDone
<1>9. Before(current)'
  BY <1>5, Names DEF Before
<1>. QED
  BY <1>2, <1>4, <1>5, <1>6, <1>7, <1>8, <1>9, QuietStep

LEMMA RetryKeeps ==
    ASSUME InstallInv, Retry
    PROVE  InstallInv'
<1>1. Workers /\ Screen /\ Before(current)
  BY DEF InstallInv, Typed
<1>2. PICK s \in Nat \ {0} : s = current
  BY <1>1, Names DEF Screen
<1>3. Runs(worker, s)
  BY <1>2 DEF Retry
<1>4. /\ Workers'
      /\ \A v \in Worker : \/ worker'[v] = worker[v]
                           \/ s \in Step /\ worker'[v] = Running(s)
  BY <1>1, <1>3, JustLaunched
<1>5. host' = host /\ tunnel' = tunnel /\ missed' = missed /\ skipped' = skipped /\ current' = current
  BY DEF Retry
<1>6. Screen'
  <2>1. MaxRetries \in Nat
    BY InstallAssumption
  <2>2. retries' \in 0..MaxRetries
    BY <1>1, <2>1 DEF Retry, Screen
  <2>3. waitKey' \in BOOLEAN /\ UNCHANGED <<open, current, skipped, launches, budget>>
    BY DEF Retry
  <2>. QED
    BY <1>1, <2>2, <2>3 DEF Screen
<1>7. SettledKept
  BY <1>5, KeepsSettled
<1>8. DoneKept
  BY <1>5, <1>7, KeepsDone
<1>9. Before(s)'
  BY <1>1, <1>2, <1>8, KeepsBefore
<1>10. \A v \in Worker : Turned(v)
  BY <1>4, <1>9 DEF Turned, Launched
<1>. QED
  BY <1>4, <1>5, <1>6, <1>10, StayingStep

LEMMA SkipKeeps ==
    ASSUME InstallInv, Skip
    PROVE  InstallInv'
<1>1. Workers /\ Screen /\ Before(current)
  BY DEF InstallInv, Typed
<1>2. PICK s \in Step : s = current
  BY <1>1, Names DEF Screen, Skip
<1>3. s \in 1..8
  BY <1>2, Names
<1>4. s + 1 \in Nat \ {0} /\ s + 1 \in 1..9
  BY <1>3
<1>5. Runs(worker, s + 1)
  BY <1>2 DEF Skip
<1>6. /\ Workers'
      /\ \A v \in Worker : \/ worker'[v] = worker[v]
                           \/ s + 1 \in Step /\ worker'[v] = Running(s + 1)
  BY <1>1, <1>4, <1>5, JustLaunched
<1>7. /\ host' = host /\ tunnel' = tunnel /\ missed' = missed
      /\ skipped' = skipped \cup {s} /\ current' = s + 1
  BY <1>2 DEF Skip
<1>8. Screen'
  <2>1. current' \in 1..(Len(StepName) + 1)
    BY <1>4, <1>7, Names
  <2>2. skipped' \subseteq Step
    BY <1>1, <1>2, <1>7 DEF Screen
  <2>3. waitKey' \in BOOLEAN /\ UNCHANGED <<open, launches, retries, budget>>
    BY DEF Skip, bounds
  <2>. QED
    BY <1>1, <2>1, <2>2, <2>3 DEF Screen
<1>9. SettledKept
  BY <1>7, KeepsSettled
<1>10. DoneKept
  <2>1. \A r \in Step : r \in skipped => r \in skipped'
    BY <1>7
  <2>. QED
    BY <1>9, <2>1, KeepsDone
<1>11. \A r \in Step : r < s + 1 => Done(r)'
  <2>1. SUFFICES ASSUME NEW r \in Step, r < s + 1 PROVE Done(r)'
    OBVIOUS
  <2>2. r < s \/ r = s
    BY <1>3, <2>1, Names
  <2>3. CASE r < s
    BY <1>1, <1>2, <1>10, <2>3 DEF Before, DoneKept
  <2>4. CASE r = s
    BY <1>7, <2>4 DEF Done
  <2>. QED
    BY <2>2, <2>3, <2>4
<1>12. Before(s + 1)' /\ Before(current)'
  BY <1>7, <1>11 DEF Before
<1>13. \A v \in Worker : Turned(v)
  BY <1>6, <1>12 DEF Turned, Launched
<1>. QED
  BY <1>6, <1>7, <1>8, <1>9, <1>10, <1>12, <1>13, QuietStep

\* The result moves the wizard on only when the promise of the current step is kept,
\* whichever goroutine of whichever wizard ran it.
LEMMA AdvanceKeeps ==
    ASSUME InstallInv, NEW w \in Worker, Advance(w)
    PROVE  InstallInv'
<1>1. Workers /\ Screen /\ Before(current) /\ Good(w)
  BY DEF InstallInv, Typed
<1>2. /\ worker[w].result = "ok" /\ worker[w].step = current /\ worker[w].todo = <<>>
      /\ worker[w].step \in Step
  <2>1. worker[w].result = "ok" /\ worker[w].step = current
    BY DEF Advance, Ignored
  <2>2. worker[w] \in Goroutine /\ worker[w].todo = <<>> /\ worker[w].step # 0
    BY <1>1, <2>1 DEF Workers
  <2>. QED
    BY <2>1, <2>2 DEF Goroutine
<1>3. PICK s \in Step : s = current
  BY <1>2
<1>4. s \in 1..8
  BY <1>3, Names
<1>5. s + 1 \in Nat \ {0} /\ s + 1 \in 1..9
  BY <1>4
<1>6. Runs([worker EXCEPT ![w] = NoWorker], s + 1)
  BY <1>3 DEF Advance
<1>7. /\ Workers'
      /\ \A v \in Worker : \/ worker'[v] = worker[v]
                           \/ worker'[v] = NoWorker
                           \/ s + 1 \in Step /\ worker'[v] = Running(s + 1)
  BY <1>1, <1>2, <1>5, <1>6, Relaunched
<1>8. /\ host' = host /\ tunnel' = tunnel /\ missed' = missed /\ skipped' = skipped \ {s} /\ current' = s + 1
  BY <1>3 DEF Advance
<1>9. Screen'
  <2>1. current' \in 1..(Len(StepName) + 1)
    BY <1>5, <1>8, Names
  <2>2. skipped' \subseteq Step
    BY <1>1, <1>8 DEF Screen
  <2>3. UNCHANGED <<open, waitKey, launches, retries, budget>>
    BY DEF Advance, bounds
  <2>. QED
    BY <1>1, <2>1, <2>2, <2>3 DEF Screen
<1>10. SettledKept
  BY <1>8, KeepsSettled
<1>11. Done(s)'
  <2>1. ASSUME NEW f \in Promise[StepName[s]] PROVE f \in Settled'
    <3>1. f \in Settled \/ Yielded(worker[w].todo, f)
      BY <1>1, <1>2, <1>3, <2>1 DEF Good, Promising
    <3>2. ~Yielded(worker[w].todo, f)
      BY <1>2, NoneAndOne
    <3>. QED
      BY <1>10, <3>1, <3>2 DEF SettledKept
  <2>. QED
    BY <2>1 DEF Done
<1>12. DoneKept
  <2>1. \A r \in Step : r \in skipped => r \in skipped' \/ Done(r)'
    BY <1>8, <1>11
  <2>. QED
    BY <1>10, <2>1, KeepsDone
<1>13. \A r \in Step : r < s + 1 => Done(r)'
  <2>1. SUFFICES ASSUME NEW r \in Step, r < s + 1 PROVE Done(r)'
    OBVIOUS
  <2>2. r < s \/ r = s
    BY <1>4, <2>1, Names
  <2>3. CASE r < s
    BY <1>1, <1>3, <1>12, <2>3 DEF Before, DoneKept
  <2>4. CASE r = s
    BY <1>11, <2>4
  <2>. QED
    BY <2>2, <2>3, <2>4
<1>14. Before(s + 1)' /\ Before(current)'
  BY <1>8, <1>13 DEF Before
<1>15. \A v \in Worker : Turned(v)
  BY <1>7, <1>14 DEF Turned, Launched
<1>. QED
  BY <1>7, <1>8, <1>9, <1>10, <1>12, <1>14, <1>15, QuietStep

\* The step has run all its commands.
LEMMA EndsWell ==
    ASSUME InstallInv, NEW w \in Worker, worker[w].result = "running", worker[w].todo = <<>>,
           worker' = [worker EXCEPT ![w].result = "ok"],
           UNCHANGED <<host, tunnel, missed, wizard, bounds>>
    PROVE  InstallInv'
<1>1. Workers /\ Screen /\ Good(w)
  BY DEF InstallInv, Typed
<1>2. /\ host' = host /\ tunnel' = tunnel /\ missed' = missed /\ skipped' = skipped /\ current' = current
      /\ Screen'
  BY <1>1 DEF wizard, bounds, Screen
<1>3. worker[w] \in Goroutine /\ worker[w].step # 0
  BY <1>1 DEF Workers
<1>4. worker'[w] = [worker[w] EXCEPT !.result = "ok"]
  BY <1>1 DEF Workers
<1>5. /\ worker'[w].step = worker[w].step /\ worker'[w].todo = worker[w].todo
      /\ worker'[w].result = "ok" /\ worker'[w] \in Goroutine
  BY <1>3, <1>4 DEF Goroutine, Result
<1>6. \A v \in Worker : v # w => worker'[v] = worker[v]
  BY <1>1 DEF Workers
<1>7. worker' \in [Worker -> Goroutine]
  BY <1>1 DEF Workers, Goroutine, Result
<1>8. Workers'
  <2>1. \A v \in Worker : /\ worker'[v].step = 0 <=> worker'[v].result = "none"
                          /\ worker'[v].result # "running" => worker'[v].todo = <<>>
    BY <1>1, <1>3, <1>5, <1>6 DEF Workers
  <2>. QED
    BY <1>7, <2>1 DEF Workers
<1>9. SettledKept
  BY <1>2, KeepsSettled
<1>10. DoneKept
  BY <1>2, <1>9, KeepsDone
<1>11. Good(w)'
  <2>1. Promising(w)'
    BY <1>1, <1>5, <1>9 DEF Good, Promising, SettledKept
  <2>2. Before(worker[w].step)'
    BY <1>1, <1>5, <1>10 DEF Good, Before, DoneKept
  <2>3. Allowed(worker'[w].todo, worker'[w].step)
    BY <1>1, <1>5 DEF Good
  <2>. QED
    BY <2>1, <2>2, <2>3, <1>5 DEF Good, Before
<1>12. \A v \in Worker : Good(v)'
  <2>1. \A v \in Worker : Good(v)
    BY DEF InstallInv
  <2>. QED
    BY <1>6, <1>9, <1>10, <1>11, <2>1, GoodStays
<1>13. Before(current)'
  <2>1. Before(current)
    BY DEF InstallInv
  <2>. QED
    BY <1>2, <1>10, <2>1 DEF Before, DoneKept
<1>14. ("installed" \in host => \A s \in Step : Done(s))'
  <2>1. "installed" \in host => \A s \in Step : Done(s)
    BY DEF InstallInv
  <2>. QED
    BY <1>2, <1>10, <2>1 DEF DoneKept
<1>15. Typed'
  BY <1>2, <1>8 DEF InstallInv, Typed, Missed
<1>. QED
  BY <1>12, <1>13, <1>14, <1>15 DEF InstallInv

\* A command that the host or the account refuses.
LEMMA RefusedKeeps ==
    ASSUME InstallInv, NEW w \in Worker, worker[w].result = "running", worker[w].todo # <<>>,
           Refused(Head(worker[w].todo), host, tunnel),
           worker' = [worker EXCEPT ![w].result = "error", ![w].todo = <<>>],
           UNCHANGED <<host, tunnel, missed, wizard, bounds>>
    PROVE  InstallInv'
<1>1. Workers /\ Screen
  BY DEF InstallInv, Typed
<1>2. Workers' /\ Failed(w) /\ \A v \in Worker : v # w => worker'[v] = worker[v]
  BY <1>1, Broken
<1>3. \A v \in Worker : Turned(v)
  BY <1>2 DEF Turned
<1>4. Screen'
  BY <1>1 DEF Screen, wizard, bounds
<1>. QED
  BY <1>2, <1>3, <1>4, StayingStep DEF wizard

\* What a goroutine's command changes.
LEMMA CommandRuns ==
    ASSUME Workers, NEW w \in Worker, worker[w].result = "running", worker[w].todo # <<>>,
           Allowed(worker[w].todo, worker[w].step), NEW seen,
           NEW c, c = Head(worker[w].todo),
           worker' = [worker EXCEPT ![w].todo = Asks(c, seen, tunnel) \o Tail(@)]
    PROVE  /\ Workers' /\ \A v \in Worker : v # w => worker'[v] = worker[v]
           /\ worker'[w].step = worker[w].step /\ worker'[w].result = "running"
           /\ Allowed(worker'[w].todo, worker[w].step)
           /\ \A f : Yielded(worker[w].todo, f) =>
                        Yielded(worker'[w].todo, f) \/ f \in After(c, seen) \/ f \in Assumed(c, seen)
           /\ c = "set installed" => worker[w].step = 8
           /\ c \in {"ufw deny", "ufw enable"} => worker[w].step = 4
<1>1. worker \in [Worker -> Goroutine] /\ worker[w] \in Goroutine
  BY DEF Workers
<1>2. PICK q : q = worker[w].todo
  OBVIOUS
<1>3. PICK s : s = worker[w].step
  OBVIOUS
<1>4. PICK t : t = tunnel
  OBVIOUS
<1>5. PICK n : n = Asks(c, seen, t) \o Tail(q)
  OBVIOUS
<1>6. q \in Seq(Command) /\ q # <<>> /\ Allowed(q, s) /\ c = Head(q)
  BY <1>1, <1>2, <1>3 DEF Goroutine
<1>7. /\ c \in Command /\ n \in Seq(Command) /\ Allowed(n, s)
      /\ \A f : Yielded(q, f) =>
                   Yielded(n, f) \/ f \in After(c, seen) \/ f \in Assumed(c, seen)
      /\ c = "set installed" => s = 8
      /\ c \in {"ufw deny", "ufw enable"} => s = 4
  <2>1. PICK a : a = Asks(c, seen, t)
    OBVIOUS
  <2>2. PICK rest : rest = Tail(q)
    OBVIOUS
  <2>3. n = a \o rest
    BY <1>5, <2>1, <2>2
  <2>4. Continues(q, s, c, seen, n)
    BY <1>6, <2>1, <2>2, <2>3, NextCommands
  <2>. QED
    BY <2>4, Zenon DEF Continues
<1>8. worker' = [worker EXCEPT ![w].todo = n]
  BY <1>1, <1>2, <1>4, <1>5
<1>9. worker'[w] = [worker[w] EXCEPT !.todo = n] /\ \A v \in Worker : v # w => worker'[v] = worker[v]
  BY <1>1, <1>8
<1>10. /\ worker'[w].step = worker[w].step /\ worker'[w].result = "running"
       /\ worker'[w].todo = n /\ worker'[w] \in Goroutine
  BY <1>1, <1>7, <1>9 DEF Goroutine
<1>11. worker' \in [Worker -> Goroutine]
  BY <1>1, <1>7, <1>8 DEF Goroutine
<1>12. Workers'
  <2>1. \A v \in Worker : /\ worker'[v].step = 0 <=> worker'[v].result = "none"
                          /\ worker'[v].result # "running" => worker'[v].todo = <<>>
    BY <1>9, <1>10 DEF Workers
  <2>. QED
    BY <1>11, <2>1 DEF Workers
<1>. QED
  BY <1>2, <1>3, <1>7, <1>9, <1>10, <1>12

\* A command that is not refused, and sees at most what holds or is then taken for granted.
LEMMA CommandKeeps ==
    ASSUME InstallInv, NEW w \in Worker, worker[w].result = "running", worker[w].todo # <<>>,
           NEW c, c = Head(worker[w].todo), NEW seen,
           seen \subseteq host \cup Assumed(c, seen), Proceed(w, seen), Screen',
           skipped' = skipped, current' = current
    PROVE  InstallInv'
<1>1. Workers /\ Screen /\ host \subseteq Fact /\ tunnel \in Tunnel /\ Missed
  BY DEF InstallInv, Typed
<1>2. Good(w) /\ Before(current)
  BY DEF InstallInv
<1>3. /\ worker' = [worker EXCEPT ![w].todo = Asks(c, seen, tunnel) \o Tail(@)]
      /\ host' = After(c, host) /\ tunnel' = TunnelAfter(c, tunnel)
      /\ missed' = (missed \cup Assumed(c, seen)) \ host'
  BY Zenon DEF Proceed
<1>4. /\ Workers' /\ \A v \in Worker : v # w => worker'[v] = worker[v]
      /\ worker'[w].step = worker[w].step /\ worker'[w].result = "running"
      /\ Allowed(worker'[w].todo, worker[w].step)
      /\ \A f : Yielded(worker[w].todo, f) =>
                   Yielded(worker'[w].todo, f) \/ f \in After(c, seen) \/ f \in Assumed(c, seen)
      /\ c = "set installed" => worker[w].step = 8
  BY <1>1, <1>2, <1>3, CommandRuns DEF Good
<1>5. /\ host \subseteq host' /\ host' \subseteq Fact
      /\ "installed" \in host' => "installed" \in host \/ c = "set installed"
  <2>1. /\ host \subseteq After(c, host) /\ After(c, host) \subseteq Fact
        /\ "installed" \in After(c, host) => "installed" \in host \/ c = "set installed"
    BY <1>1, HostAfter
  <2>. QED
    BY <1>3, <2>1, Zenon
<1>6. tunnel' \in Tunnel
  BY <1>1, <1>3 DEF TunnelAfter, Tunnel
<1>7. Missed'
  BY <1>1, <1>3, AssumedFacts DEF Missed
<1>8. SettledKept
  BY <1>3, <1>5 DEF SettledKept, Settled
<1>9. DoneKept
  BY <1>8, KeepsDone
<1>10. \A f : f \in After(c, seen) \/ f \in Assumed(c, seen) => f \in Settled'
  <2>1. \A f : f \in Assumed(c, seen) => f \in Settled'
    BY <1>3 DEF Settled
  <2>2. ASSUME NEW f, f \in After(c, seen) PROVE f \in host' \/ f \in Assumed(c, seen)
    <3>1. f \in seen \/ f \in After(c, host)
      BY <2>2 DEF After
    <3>. QED
      BY <1>3, <1>5, <3>1
  <2>. QED
    BY <2>1, <2>2 DEF Settled
<1>11. Promising(w)'
  <2>1. ASSUME NEW f \in Promise[StepName[worker[w].step]]
        PROVE  f \in Settled' \/ Yielded(worker'[w].todo, f)
    <3>1. f \in Settled \/ Yielded(worker[w].todo, f)
      BY <1>2, <2>1 DEF Good, Promising
    <3>2. CASE f \in Settled
      BY <1>8, <3>2 DEF SettledKept
    <3>3. CASE Yielded(worker[w].todo, f)
      BY <1>4, <1>10, <3>3, Zenon
    <3>. QED
      BY <3>1, <3>2, <3>3
  <2>. QED
    BY <1>4, <2>1 DEF Promising
<1>12. Before(worker[w].step)'
  BY <1>2, <1>4, <1>9 DEF Good, Before, DoneKept
<1>13. \A v \in Worker : Good(v)'
  <2>1. Good(w)'
    BY <1>4, <1>11, <1>12 DEF Good, Before
  <2>2. \A v \in Worker : Good(v)
    BY DEF InstallInv
  <2>. QED
    BY <1>4, <1>8, <1>9, <2>1, <2>2, GoodStays
<1>14. ("installed" \in host => \A s \in Step : Done(s))'
  <2>1. SUFFICES ASSUME "installed" \in host', NEW s \in Step PROVE Done(s)'
    OBVIOUS
  <2>2. CASE "installed" \in host
    BY <1>9, <2>2 DEF InstallInv, DoneKept
  <2>3. CASE c = "set installed"
    <3>1. worker[w].step = 8 /\ s \in 1..8
      BY <1>4, <2>3, Names
    <3>2. CASE s < 8
      BY <1>2, <1>9, <3>1, <3>2 DEF Good, Before, DoneKept
    <3>3. CASE s = 8
      <4>1. Promise[StepName[s]] = {"installed"}
        <5>1. Promise["summary"] = {"installed"}
          BY DEF Promise
        <5>. QED
          BY <3>3, <5>1, Names
      <4>. QED
        BY <2>1, <4>1 DEF Done, Settled
    <3>. QED
      BY <3>1, <3>2, <3>3
  <2>. QED
    BY <1>5, <2>1, <2>2, <2>3
<1>15. Before(current)'
  BY <1>2, <1>9 DEF Before, DoneKept
<1>16. Typed'
  BY <1>4, <1>5, <1>6, <1>7 DEF Typed
<1>. QED
  BY <1>13, <1>14, <1>15, <1>16 DEF InstallInv

LEMMA WorkKeeps ==
    ASSUME InstallInv, NEW w \in Worker, Work(w)
    PROVE  InstallInv'
<1>1. worker[w].result = "running" /\ UNCHANGED <<wizard, bounds>>
  BY DEF Work
<1>2. CASE worker[w].todo = <<>>
  <2>1. worker' = [worker EXCEPT ![w].result = "ok"] /\ UNCHANGED <<host, tunnel, missed>>
    BY <1>2 DEF Work
  <2>. QED
    BY <1>1, <1>2, <2>1, EndsWell
<1>3. CASE worker[w].todo # <<>> /\ Refused(Head(worker[w].todo), host, tunnel)
  <2>1. /\ worker' = [worker EXCEPT ![w].result = "error", ![w].todo = <<>>]
        /\ UNCHANGED <<host, tunnel, missed>>
    BY <1>3, Zenon DEF Work
  <2>. QED
    BY <1>1, <1>3, <2>1, RefusedKeeps
<1>4. CASE worker[w].todo # <<>> /\ ~Refused(Head(worker[w].todo), host, tunnel)
  <2>1. Proceed(w, host)
    BY <1>4, Zenon DEF Work
  <2>2. Screen' /\ skipped' = skipped /\ current' = current
    BY <1>1 DEF InstallInv, Typed, Screen, wizard, bounds
  <2>. QED
    BY <1>1, <1>4, <2>1, <2>2, CommandKeeps
<1>. QED
  BY <1>2, <1>3, <1>4

LEMMA MisreadKeeps ==
    ASSUME InstallInv, NEW w \in Worker, Misread(w)
    PROVE  InstallInv'
<1>1. host \subseteq Fact /\ Screen
  BY DEF InstallInv, Typed
<1>2. PICK c : c = Head(worker[w].todo)
  OBVIOUS
<1>3. c \in Lenient /\ worker[w].todo # <<>> /\ worker[w].result = "running"
  BY <1>2 DEF Misread, At
<1>4. PICK seen : seen = Mistaken(c, host)
  OBVIOUS
<1>5. seen \subseteq host \cup Assumed(c, seen)
  BY <1>1, <1>3, <1>4, MistakenIsClose
<1>6. Proceed(w, seen)
  BY <1>2, <1>4, Zenon DEF Misread
<1>7. Screen' /\ skipped' = skipped /\ current' = current
  <2>1. Budget \in Nat
    BY InstallAssumption
  <2>2. budget' \in 0..Budget
    BY <1>1, <2>1 DEF Misread, Screen
  <2>3. UNCHANGED <<open, current, waitKey, skipped, launches, retries>>
    BY DEF Misread, wizard
  <2>. QED
    BY <1>1, <2>2, <2>3 DEF Screen
<1>. QED
  BY <1>2, <1>3, <1>5, <1>6, <1>7, CommandKeeps

LEMMA InitIsFine ==
    ASSUME Init
    PROVE  InstallInv
<1>1. host \in Hosts /\ host \subseteq Fact /\ tunnel \in Tunnel
  BY InstallAssumption DEF Init
<1>2. \A w \in Worker : worker[w] = NoWorker
  BY DEF Init
<1>3. Workers
  <2>1. worker \in [Worker -> Goroutine]
    BY StepGoroutines DEF Init
  <2>. QED
    BY <1>2, <2>1, StepGoroutines DEF Workers
<1>4. Screen
  <2>1. {MaxLaunches, MaxRetries, Budget} \subseteq Nat
    BY InstallAssumption
  <2>2. 1 \in 1..(Len(StepName) + 1)
    BY Names
  <2>3. 0 \in 0..MaxLaunches /\ 0 \in 0..MaxRetries /\ Budget \in 0..Budget
    BY <2>1
  <2>. QED
    BY <2>2, <2>3 DEF Init, Screen
<1>5. ASSUME NEW w \in Worker PROVE Good(w)
  <2>1. worker[w].step = 0 /\ worker[w].todo = <<>> /\ worker[w].result = "none"
    BY <1>2, StepGoroutines
  <2>2. Allowed(<<>>, 0)
    <3>1. \A x : ~Has(<<>>, x)
      BY NoneAndOne
    <3>. QED
      BY <3>1, Zenon DEF Allowed
  <2>3. \A r \in Step : ~(r < 0)
    BY Names
  <2>4. Allowed(worker[w].todo, worker[w].step)
    BY <2>1, <2>2
  <2>. QED
    BY <2>1, <2>3, <2>4 DEF Good, Promising, Before
<1>6. Missed
  BY DEF Init, Missed
<1>7. Before(current)
  BY Names DEF Init, Before
<1>8. "installed" \in host => \A s \in Step : Done(s)
  BY <1>1, InstallAssumption DEF Done, Settled
<1>. QED
  BY <1>1, <1>3, <1>4, <1>5, <1>6, <1>7, <1>8 DEF InstallInv, Typed

LEMMA InstallStep ==
    ASSUME InstallInv, [Next]_vars
    PROVE  InstallInv'
BY WorkKeeps, MisreadKeeps, FailKeeps, DropKeeps, PromptKeeps, AdvanceKeeps, LaunchKeeps, RetryKeeps,
   SkipKeeps, CloseKeeps, QuitKeeps DEF Next

THEOREM InstallInvariant == Spec => []InstallInv
<1>1. Init => InstallInv
  BY InitIsFine
<1>2. InstallInv /\ [Next]_vars => InstallInv'
  BY InstallStep
<1>. QED
  BY <1>1, <1>2, PTL DEF Spec

-----------------------------------------------------------------------------
(* The theorems.                                                           *)

\* The variables keep their types: a goroutine that has no step has nothing to do.
THEOREM InstallTypes == Spec => []TypeOK
<1>1. ASSUME InstallInv PROVE TypeOK
  <2>1. Workers /\ Screen /\ Missed /\ host \subseteq Fact /\ tunnel \in Tunnel
    BY <1>1 DEF InstallInv, Typed
  <2>2. ASSUME NEW w \in Worker
        PROVE  /\ worker[w].step \in {0} \cup Step
               /\ worker[w].result \in {"none", "running", "ok", "error"}
               /\ worker[w].step = 0 <=> worker[w] = NoWorker
    <3>1. worker[w] \in Goroutine
      BY <2>1 DEF Workers
    <3>2. worker[w].step = 0 <=> worker[w] = NoWorker
      BY <2>1, NoWorkerRests DEF Workers
    <3>. QED
      BY <3>1, <3>2 DEF Goroutine, Result
  <2>. QED
    BY <2>1, <2>2 DEF TypeOK, Screen, Missed
<1>. QED
  BY <1>1, InstallInvariant, PTL

\* A host that is marked as installed has everything that the steps promise, but for the
\* login and the effects of hardening that a step took for granted, or the administrator
\* skipped the step; whatever commands failed, whatever looks were misread, and whatever
\* wizards were opened, left and run at once.
THEOREM InstalledIsDone == Spec => []InstalledMeansDone
<1>1. ASSUME InstallInv PROVE InstalledMeansDone
  BY <1>1 DEF InstallInv, InstalledMeansDone, Done, Settled
<1>. QED
  BY <1>1, InstallInvariant, PTL

\* The firewall starts to keep everything out only when tailscale is logged in, or its
\* step took a status it could not read for a login, or the administrator skipped that
\* step; also when the command is that of an older wizard.
THEOREM AccessIsKept == Spec => AccessKept
<1>1. ASSUME InstallInv, [Next]_vars
      PROVE  [~Closed /\ Closed' => "loggedIn" \in host \cup missed \/ 2 \in skipped]_vars
  <2>1. SUFFICES ASSUME ~Closed, Closed'
                 PROVE  "loggedIn" \in host \cup missed \/ 2 \in skipped
    OBVIOUS
  <2>2. host' # host
    BY <2>1 DEF Closed
  <2>3. PICK w \in Worker : Work(w) \/ Misread(w)
    BY <1>1, <2>2 DEF Next, Fail, Drop, Prompt, Advance, Launch, Retry, Skip, Close, Leave,
                      Quit, vars
  <2>4. PICK c : c = Head(worker[w].todo)
    OBVIOUS
  <2>5. PICK seen : Proceed(w, seen)
    BY <2>2, <2>3, Zenon DEF Work, Misread
  <2>6. /\ worker[w].result = "running" /\ worker[w].todo # <<>> /\ host' = After(c, host)
        /\ worker' = [worker EXCEPT ![w].todo = Asks(c, seen, tunnel) \o Tail(@)]
    <3>1. worker[w].result = "running" /\ worker[w].todo # <<>>
      BY <2>2, <2>3 DEF Work, Misread, At
    <3>. QED
      BY <2>4, <2>5, <3>1, Zenon DEF Proceed
  <2>7. Workers /\ host \subseteq Fact /\ Good(w)
    BY <1>1 DEF InstallInv, Typed
  <2>8. c \in {"ufw deny", "ufw enable"} => worker[w].step = 4
    BY <2>4, <2>6, <2>7, CommandRuns DEF Good
  <2>9. c = "ufw deny" \/ c = "ufw enable"
    <3>1. /\ "firewall" \in After(c, host) => "firewall" \in host \/ c = "ufw enable"
          /\ "deny" \in After(c, host) => "deny" \in host \/ c = "ufw deny"
      BY <2>7, HostAfter
    <3>2. "firewall" \in host' /\ "deny" \in host'
      BY <2>1 DEF Closed
    <3>3. "firewall" \notin host \/ "deny" \notin host
      BY <2>1 DEF Closed
    <3>. QED
      BY <2>6, <3>1, <3>2, <3>3, Zenon
  <2>10. Done(2)
    <3>1. 2 \in Step /\ 2 < 4
      BY Names
    <3>. QED
      BY <2>7, <2>8, <2>9, <3>1 DEF Good, Before
  <2>11. "loggedIn" \in Promise[StepName[2]]
    <3>1. Promise["tailscale"] = {"tailscale", "loggedIn"}
      BY DEF Promise
    <3>. QED
      BY <3>1, Names
  <2>. QED
    BY <2>10, <2>11 DEF Done, Settled
<1>. QED
  BY <1>1, InstallInvariant, PTL DEF Spec, AccessKept
=============================================================================
