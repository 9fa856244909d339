------------------------------ MODULE MCPolicy ------------------------------
(***************************************************************************)
(* Configurations that differ from each other in one or two respects; files *)
(* whose policies declare everything, the opposite, a little and nothing;   *)
(* and files that differ from an accepted one in one respect.               *)
(***************************************************************************)
EXTENDS Policy

\* Two spellings of one name, and another name.
Names == [n \in {"web", "WEB.", "tv"} |-> IF n = "tv" THEN "tv" ELSE "web"]

Rewrite(name, enabled) == [name |-> name, enabled |-> enabled]

Listing(url, enabled, updated) == [url |-> url, enabled |-> enabled, updated |-> updated]

Base ==
    [protection |-> TRUE, mode |-> "load_balance", upstreams |-> <<"x", "y">>,
     stats |-> [queries |-> 2, blocked |-> 1, clients |-> <<2, 1>>, latency |-> 3],
     filters |-> <<Listing("ads", TRUE, {4}), Listing("more", FALSE, {})>>,
     rewrites |-> <<Rewrite("web", TRUE), Rewrite("tv", FALSE)>>, on |-> TRUE]

Variants ==
    {Base,
     [Base EXCEPT !.protection = FALSE, !.stats.latency = 4],
     [Base EXCEPT !.mode = "", !.upstreams = <<"y", "x">>],
     [Base EXCEPT !.mode = "parallel", !.upstreams = <<"x">>],
     [Base EXCEPT !.stats.blocked = 3, !.rewrites = <<Rewrite(Blank, TRUE)>>],
     [Base EXCEPT !.filters = <<Listing("ads", TRUE, {3})>>],
     [Base EXCEPT !.filters = <<Listing("ads", FALSE, {4}), Listing("more", TRUE, {4})>>],
     [Base EXCEPT !.upstreams = <<"x", "x">>, !.filters = <<Listing("ads", TRUE, {})>>],
     [Base EXCEPT !.filters = <<Listing("more", TRUE, {4})>>, !.rewrites = <<>>],
     [Base EXCEPT !.filters = <<Listing("ads", TRUE, {4}), Listing("ads", FALSE, {4})>>],
     [Base EXCEPT !.rewrites = <<Rewrite("WEB.", TRUE), Rewrite("tv", FALSE)>>],
     [Base EXCEPT !.rewrites = <<Rewrite("web", FALSE), Rewrite("tv", TRUE)>>],
     [Base EXCEPT !.rewrites = <<Rewrite("web", TRUE), Rewrite("WEB.", FALSE)>>],
     [Base EXCEPT !.on = FALSE]}

Everything ==
    [protection |-> {TRUE}, mode |-> {"load_balance"}, upstreams |-> {<<"y", "x">>},
     filters |-> <<[url |-> "ads", enabled |-> TRUE, hours |-> {3}],
                   [url |-> "more", enabled |-> FALSE, hours |-> {}]>>,
     enabled |-> {TRUE}, required |-> <<Rewrite("WEB.", TRUE), Rewrite("tv", FALSE)>>]

Declarables ==
    {Everything,
     [Everything EXCEPT !.protection = {FALSE}, !.mode = {"parallel"}, !.enabled = {FALSE}],
     [Nothing EXCEPT !.required = <<Rewrite("web", TRUE)>>],
     [Nothing EXCEPT !.filters = <<[url |-> "more", enabled |-> TRUE, hours |-> {1}]>>]}

\* Policies that validation has to refuse.
Twice ==
    {[Nothing EXCEPT !.required = <<Rewrite("web", TRUE), Rewrite("WEB.", FALSE)>>],
     [Nothing EXCEPT !.filters = <<[url |-> "ads", enabled |-> FALSE, hours |-> {}],
                                   [url |-> "ads", enabled |-> TRUE, hours |-> {3}]>>],
     [Nothing EXCEPT !.mode = {Blank}], [Nothing EXCEPT !.mode = {""}]}

Https == [scheme |-> "https", loopback |-> FALSE, bare |-> TRUE]

Target(id, policy, profile) ==
    [id |-> id, name |-> id, auth |-> "basic", username |-> {"admin"}, password |-> {"/secret"},
     policy |-> policy, profile |-> profile, url |-> Https, insecure |-> FALSE]

File(p) ==
    [version |-> 1, statePath |-> "/state", retention |-> 21,
     requestTimeout |-> 5000, notificationTimeout |-> 15000, maxResponse |-> 4194304,
     lookback |-> 3600000, concurrency |-> 2, minimum |-> 1,
     requirement |-> "supported", allowUntested |-> FALSE,
     profiles |-> [id \in {"current"} |-> [runs |-> <<1, 4>>, durations |-> <<900>>]],
     policies |-> [id \in {"home"} |-> p],
     baseline |-> {}, provider |-> "disabled", pushover |-> {},
     targets |-> <<Target("one", {"home"}, "current")>>]

Baseline(ids) == [targets |-> ids, zone |-> "UTC", learning |-> 7, samples |-> 36]

\* Two targets in a group, with or without the same profile; nothing declared.
Pair(other) ==
    [File(Nothing) EXCEPT
        !.profiles = [id \in {"current", "slow"} |-> [runs |-> <<1, 4>>, durations |-> <<900>>]],
        !.targets = <<Target("one", {}, "current"), Target("two", {"home"}, other)>>,
        !.baseline = {Baseline(<<"one", "two">>)}]

\* Files of one declaration each; one for a group, and what must be refused.
FilesOf ==
    {File(p) : p \in Declarables \cup Twice}
      \cup {Pair("current"), Pair("slow"),
            [Pair("current") EXCEPT !.targets[2].id = "one"],
            [Pair("current") EXCEPT !.baseline = {Baseline(<<"one", "one">>)}],
            [Pair("current") EXCEPT !.baseline = {Baseline(<<"one", "three">>)}],
            [Pair("current") EXCEPT !.retention = 6],
            [Pair("current") EXCEPT !.minimum = 3],
            [Pair("current") EXCEPT !.targets[1].policy = {"away"}],
            [Pair("current") EXCEPT !.targets[1].profile = "away"],
            [Pair("current") EXCEPT !.targets[1].password = {}],
            [Pair("current") EXCEPT !.targets[1].url.scheme = "http"],
            [Pair("current") EXCEPT !.profiles["slow"].runs = <<0, 4>>],
            [Pair("current") EXCEPT !.concurrency = 0],
            [Pair("current") EXCEPT !.requirement = "untested"],
            [Pair("current") EXCEPT !.provider = "pushover"]}

Slugs == {"one", "two", "three", "home", "away", "current", "slow"}

=============================================================================
