------------------------------- MODULE Install ------------------------------
(***************************************************************************)
(* The fresh-install wizard (internal/tui/wizard) over the host of module  *)
(* Provisioning.                                                           *)
(*                                                                         *)
(* Bubble Tea runs every step as a command in a goroutine of its own and   *)
(* gives its result back as a message.  The wizard tells the results apart *)
(* by the index of the step only, the root screen gives them to whichever  *)
(* wizard is on the screen, and the menu item opens a new wizard each time *)
(* it is chosen: the goroutines of an older wizard go on, their results    *)
(* count for the newer one, and one step may run twice at once.  A second  *)
(* backMsg of another screen takes the wizard from the screen; `a` and     *)
(* ctrl+c end the process with all its goroutines.                         *)
(***************************************************************************)
EXTENDS Provisioning, FiniteSets

CONSTANTS
    Worker,        \* goroutines that run steps
    Hosts,         \* the hosts an installation may start from
    Tunnels,       \* the tunnels the account may have before it
    MaxLaunches,   \* wizards in a behaviour
    MaxRetries,    \* retries in a behaviour
    Budget         \* failures of a command and quits in a behaviour

\* A host is marked as installed only if it is.
ASSUME InstallAssumption ==
    /\ Hosts \subseteq SUBSET Fact /\ Tunnels \subseteq Tunnel
    /\ \A h \in Hosts : "installed" \in h => \A s \in Step : Promise[StepName[s]] \subseteq h
    /\ {MaxLaunches, MaxRetries, Budget} \subseteq Nat

VARIABLES
    host,        \* the facts that hold on the host
    tunnel,      \* the tunnel of that name in the account
    worker,      \* worker[w]: the step a goroutine runs, what is left of it, its result
    open,        \* the wizard is on the screen
    current,     \* Model.current
    waitKey,     \* Model.waitKey
    skipped,     \* the steps skipped and not done since
    missed,      \* history: facts that a step went past though they did not hold, nor do now
    launches, retries, budget

wizard == <<open, current, waitKey, skipped>>
bounds == <<launches, retries, budget>>
vars == <<host, tunnel, worker, wizard, missed, bounds>>

NoWorker == [step |-> 0, todo |-> <<>>, result |-> "none"]
Running(s) == [step |-> s, todo |-> Commands[StepName[s]], result |-> "running"]

TypeOK ==
    /\ host \subseteq Fact /\ tunnel \in Tunnel
    /\ \A w \in Worker :
         /\ worker[w].step \in {0} \cup Step
         /\ worker[w].result \in {"none", "running", "ok", "error"}
         /\ worker[w].step = 0 <=> worker[w] = NoWorker
    /\ open \in BOOLEAN /\ waitKey \in BOOLEAN
    /\ current \in 1..(Len(StepName) + 1)
    /\ skipped \subseteq Step
    /\ missed \subseteq {"loggedIn", "sysctlLive", "procLive"} \ host
    /\ launches \in 0..MaxLaunches /\ retries \in 0..MaxRetries /\ budget \in 0..Budget

Init ==
    /\ host \in Hosts /\ tunnel \in Tunnels
    /\ worker = [w \in Worker |-> NoWorker]
    /\ open = FALSE /\ current = 1 /\ waitKey = FALSE /\ skipped = {}
    /\ missed = {}
    /\ launches = 0 /\ retries = 0 /\ budget = Budget

Free == {w \in Worker : worker[w] = NoWorker}
LastStep == Len(StepName)

\* runStep, in a free goroutine of workers w; nothing to run past the last step.
Runs(workers, s) ==
    IF s > LastStep THEN worker' = workers
    ELSE \E w \in {v \in Worker : workers[v] = NoWorker} :
             worker' = [workers EXCEPT ![w] = Running(s)]

-----------------------------------------------------------------------------
(* The goroutines.                                                         *)

\* A command that sees the host as `seen` runs: it may ask for others, and take
\* something for granted.
Proceed(w, seen) ==
    LET command == Head(worker[w].todo) IN
    /\ worker' = [worker EXCEPT ![w].todo = Asks(command, seen, tunnel) \o Tail(@)]
    /\ host' = After(command, host)
    /\ tunnel' = TunnelAfter(command, tunnel)
    /\ missed' = (missed \cup Assumed(command, seen)) \ host'

Work(w) ==
    /\ worker[w].result = "running"
    /\ IF worker[w].todo = <<>>
       THEN /\ worker' = [worker EXCEPT ![w].result = "ok"]
            /\ UNCHANGED <<host, tunnel, missed>>
       ELSE IF Refused(Head(worker[w].todo), host, tunnel)
            THEN /\ worker' = [worker EXCEPT ![w].result = "error", ![w].todo = <<>>]
                 /\ UNCHANGED <<host, tunnel, missed>>
            ELSE Proceed(w, host)
    /\ UNCHANGED <<wizard, bounds>>

At(w, commands) == worker[w].todo # <<>> /\ Head(worker[w].todo) \in commands

\* A look fails, and the step goes on as if it had seen what it did not.
Misread(w) ==
    /\ worker[w].result = "running" /\ At(w, Lenient)
    /\ budget > 0 /\ budget' = budget - 1
    /\ Proceed(w, Mistaken(Head(worker[w].todo), host))
    /\ UNCHANGED <<wizard, launches, retries>>

\* A command fails and the step returns its error.
Fail(w) ==
    /\ worker[w].result = "running" /\ worker[w].todo # <<>>
    /\ ~At(w, Lenient \ {"tailscale status"})
    /\ budget > 0 /\ budget' = budget - 1
    /\ worker' = [worker EXCEPT ![w].result = "error", ![w].todo = <<>>]
    /\ UNCHANGED <<host, tunnel, wizard, missed, launches, retries>>

-----------------------------------------------------------------------------
(* Model.Update on a stepResult.                                           *)

\* The result reaches no wizard, or one that is at another step.
Ignored(w) == ~open \/ worker[w].step # current

Drop(w) ==
    /\ worker[w].result \in {"ok", "error"} /\ Ignored(w)
    /\ worker' = [worker EXCEPT ![w] = NoWorker]
    /\ UNCHANGED <<host, tunnel, missed, wizard, bounds>>

Prompt(w) ==
    /\ worker[w].result = "error" /\ ~Ignored(w)
    /\ worker' = [worker EXCEPT ![w] = NoWorker]
    /\ waitKey' = TRUE
    /\ UNCHANGED <<host, tunnel, missed, open, current, skipped, bounds>>

\* A success moves on, also while a prompt for the same step is shown; the prompt
\* stays.
Advance(w) ==
    /\ worker[w].result = "ok" /\ ~Ignored(w)
    /\ current' = current + 1
    /\ skipped' = skipped \ {current}
    /\ Runs([worker EXCEPT ![w] = NoWorker], current + 1)
    /\ UNCHANGED <<host, tunnel, missed, open, waitKey, bounds>>

-----------------------------------------------------------------------------
(* The administrator.                                                      *)

\* MenuActionMsg: a new wizard at its first step, in place of the one there is.
Launch ==
    /\ launches < MaxLaunches /\ launches' = launches + 1
    /\ open' = TRUE /\ current' = 1 /\ waitKey' = FALSE
    /\ Runs(worker, 1)
    /\ UNCHANGED <<host, tunnel, skipped, missed, retries, budget>>

Retry ==
    /\ open /\ waitKey /\ current <= LastStep
    /\ retries < MaxRetries /\ retries' = retries + 1
    /\ waitKey' = FALSE
    /\ Runs(worker, current)
    /\ UNCHANGED <<host, tunnel, missed, open, current, skipped, launches, budget>>

\* Mutant: skipping a step does not move on.
SkipStays ==
    /\ open /\ waitKey /\ current <= LastStep
    /\ waitKey' = FALSE
    /\ skipped' = skipped \cup {current}
    /\ Runs(worker, current)
    /\ UNCHANGED <<host, tunnel, missed, open, current, bounds>>

\* Mutant: a prompt left over past the last step is still answered.
SkipPastEnd ==
    /\ open /\ waitKey
    /\ waitKey' = FALSE
    /\ skipped' = skipped \cup ({current} \cap Step)
    /\ current' = current + 1
    /\ Runs(worker, current + 1)
    /\ UNCHANGED <<host, tunnel, missed, open, bounds>>

Skip ==
    /\ open /\ waitKey /\ current <= LastStep
    /\ waitKey' = FALSE
    /\ skipped' = skipped \cup {current}
    /\ current' = current + 1
    /\ Runs(worker, current + 1)
    /\ UNCHANGED <<host, tunnel, missed, open, bounds>>

\* WizardDoneMsg.
Close ==
    /\ open /\ current > LastStep
    /\ open' = FALSE
    /\ UNCHANGED <<host, tunnel, worker, missed, current, waitKey, skipped, bounds>>

\* The backMsg of another screen arrives when the wizard is shown.
Leave ==
    /\ open /\ budget > 0 /\ budget' = budget - 1
    /\ open' = FALSE
    /\ UNCHANGED <<host, tunnel, worker, missed, current, waitKey, skipped, launches, retries>>

\* `a`, ctrl+c, or a key that answers a prompt left over past the last step, which
\* indexes the steps out of range: the program ends.
Quit ==
    /\ open /\ budget > 0 /\ budget' = budget - 1
    /\ open' = FALSE
    /\ worker' = [w \in Worker |-> NoWorker]
    /\ UNCHANGED <<host, tunnel, missed, current, waitKey, skipped, launches, retries>>

Next ==
    \/ \E w \in Worker : Work(w) \/ Misread(w) \/ Fail(w) \/ Drop(w) \/ Prompt(w) \/ Advance(w)
    \/ Launch \/ Retry \/ Skip \/ Close \/ Leave \/ Quit

Spec == Init /\ [][Next]_vars

\* Results are delivered, and a step whose commands have returned returns; the
\* commands have no timeout, and nothing says that they return.  The administrator answers
\* a prompt in the end, and MaxRetries says that the answer is not to retry for ever.
Fairness ==
    /\ \A w \in Worker : WF_vars(\/ worker[w].todo = <<>> /\ Work(w)
                                \/ Drop(w) \/ Prompt(w) \/ Advance(w))
    /\ WF_vars(Skip) /\ WF_vars(Close)

FairSpec == Spec /\ Fairness

-----------------------------------------------------------------------------
(* Properties.                                                             *)

\* When the installation is marked as completed, everything the steps promise
\* holds, or the step was skipped, whatever results of older wizards and of steps
\* run twice were taken for whose; apart from a login or the effect of a file of
\* hardening that a step took for granted.
InstalledMeansDone ==
    "installed" \in host =>
        \A s \in Step : s \in skipped \/ Promise[StepName[s]] \subseteq host \cup missed

\* The same of hardening, and of what is in effect: ApplySysctl and ApplyHidepid take a
\* file that is there for one that is in effect, also when the command that was to make
\* it effective failed and the step is retried.
HardeningInEffect ==
    "installed" \in host /\ 5 \notin skipped => {"sysctlLive", "procLive"} \subseteq host

Closed == {"firewall", "deny"} \subseteq host

\* The wizard never closes the firewall before the administrator has another way
\* in, unless that step was skipped, or took a status it could not read for a login; SSH
\* is not among the open ports.
AccessKept ==
    [][~Closed /\ Closed' => "loggedIn" \in host \cup missed \/ 2 \in skipped]_vars

\* The same without the second exception: the firewall of EnsureUFW closes only when
\* tailscale is logged in.
AccessAlwaysKept == [][~Closed /\ Closed' => "loggedIn" \in host \/ 2 \in skipped]_vars

\* A wizard that never ends waits for a command of the step it shows: no result is lost
\* that this step depends on, and no older goroutine holds the wizard up.
WizardEnds ==
    []<>~open \/ \E w \in Worker : <>[](open /\ worker[w].step = current /\ worker[w].todo # <<>>)
=============================================================================
