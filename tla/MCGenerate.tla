------------------------------ MODULE MCGenerate ------------------------------
(* Values for the constants of GenerateRun.                                   *)
EXTENDS GenerateRun

MCRows == <<"google", "mymemory">>

Verbs(rate, net, quota, auth, down) ==
    [onRateLimit |-> rate, onTransientFailure |-> net, onQuotaExceeded |-> quota,
     onAuthFailure |-> auth, onProviderUnavailable |-> down]

(* the defaults: single routing, two provider rows, so two attempts *)
DefaultPolicy ==
    [routing |-> "single", handoff |-> "auto", onIncompleteRun |-> "confirm", maxAttempts |-> 2,
     verb |-> Verbs("backoff", "retry", "fallback", "abort", "fallback")]

(* the defaults with the chain turned on *)
AutoPolicy == [DefaultPolicy EXCEPT !.routing = "auto"]

(* every failure that may ask asks; more attempts than providers *)
PromptPolicy ==
    [routing |-> "single", handoff |-> "auto", onIncompleteRun |-> "write", maxAttempts |-> 3,
     verb |-> Verbs("backoff", "retry", "prompt", "prompt", "fallback")]

(* a chain with handoffs, and nothing partial on disk *)
StrictPolicy ==
    [routing |-> "auto", handoff |-> "on", onIncompleteRun |-> "discard", maxAttempts |-> 3,
     verb |-> Verbs("backoff", "fallback", "prompt", "abort", "abort")]

MCPolicies == {DefaultPolicy, AutoPolicy, PromptPolicy, StrictPolicy}

FilePolicies == {AutoPolicy, StrictPolicy}

Doc(files, broken, a, b) == [files |-> files, broken |-> broken, leaf |-> <<a, b>>]
Empty == Doc({}, {}, "absent", "absent")
Full(a, b) == Doc({1, 2}, {}, a, b)
Half(a) == Doc({1}, {}, a, "absent")
Flat(a, b) == Doc({1}, {}, a, b)

(* nothing yet: both targets are translated from scratch *)
NewDocuments == {<<Empty, Empty>>}

(* one target, in the states a hand or an earlier run leaves it in *)
OldDocuments ==
    {<<d, Empty>> : d \in {Empty, Half("old"), Half("same"), Full("absent", "old"),
                           Full("same", "old"), Full("old", "old"), Full("leak", "old"),
                           Full("absent", "absent"), Doc({1, 2}, {1}, "absent", "old"),
                           Doc({1}, {1}, "absent", "absent")}}

FlatDocuments ==
    {<<d, Empty>> : d \in {Flat("absent", "absent"), Flat("old", "absent"),
                           Flat("same", "old"), Doc({1}, {1}, "absent", "absent")}}

(* one run over two new targets, which the host may abort *)
OneRun ==
    [targets |-> 2, runs |-> 1, policies |-> MCPolicies, hosts |-> {"tty", "pipe"},
     segments |-> 2, segmentOf |-> <<1, 2>>, flat |-> FALSE,
     commands |-> {"plain"}, documents |-> NewDocuments,
     aborts |-> TRUE, crashes |-> FALSE, fails |-> TRUE]

(* two runs in a row over one target, either of which may be killed *)
TwoRuns ==
    [OneRun EXCEPT !.targets = 1, !.runs = 2, !.policies = FilePolicies,
                   !.hosts = {"tty", "pipe", "yes"},
                   !.commands = {"plain", "force", "resume"}, !.documents = OldDocuments,
                   !.aborts = FALSE, !.crashes = TRUE, !.fails = FALSE]

(* the same in the flat layout, where a write may fail *)
FlatRuns ==
    [TwoRuns EXCEPT !.segments = 1, !.segmentOf = <<1, 1>>, !.flat = TRUE,
                    !.policies = {AutoPolicy}, !.hosts = {"tty", "pipe"},
                    !.documents = FlatDocuments, !.crashes = FALSE, !.fails = TRUE]

MCEnvironments == {OneRun, TwoRuns, FlatRuns}

=============================================================================
