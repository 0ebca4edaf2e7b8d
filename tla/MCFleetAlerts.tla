---------------------------- MODULE MCFleetAlerts ----------------------------
(* Instances of FleetAlerts for TLC. *)
EXTENDS FleetAlerts, TLC

CONSTANTS f1, a1, a2, x1

U(action, major) == [action |-> action, major |-> major]

\* A file on the old runner, with the new major of an action or with the old one.
OldAndNew == {[runs_on |-> {"ubuntu-22.04"}, uses |-> {U("upload", "v4")}],
              [runs_on |-> {"ubuntu-22.04"}, uses |-> {U("upload", "v3")}]}

\* One entry with a deadline and one without.
TheFeed == {[id |-> "runner", kind |-> "runner-label", target |-> "ubuntu-22.04",
             major |-> None, deadline |-> None],
            [id |-> "artifact", kind |-> "action-version", target |-> "upload",
             major |-> "v3", deadline |-> 1]}

V(pkg, range, ecosystem) == [pkg |-> pkg, range |-> range, ecosystem |-> ecosystem]

\* An advisory about an action in use and a package of another ecosystem, and its
\* revision, which gives the action two ranges.
Revised == {[id |-> "G1", severity |-> "high", vulns |-> vulns] : vulns \in
             {{V("upload", "< 4.1", "actions"), V("left", "< 2", "npm")},
              {V("upload", "< 4.1", "actions"), V("upload", ">= 3, < 3.2", "actions")}}}

Subscriptions == {EVENT_TYPES}
==============================================================================
