-------------------------- MODULE MCCapabilityGateway --------------------------
(* A small instance of the gateway: a side-effecting call that needs an       *)
(* approval below the bounded level, and a bounded number of crashes, so that *)
(* clients who retry can be expected to get an answer.                        *)
EXTENDS CapabilityGateway, TLC

CONSTANTS MaxCrashes, c1, i1, i2, p1, p2, p3, r1, w1, agent, alice

OneRun == r1 :> w1

WriteCap == [permission |-> "enabled", risk |-> "low", sideEffecting |-> TRUE,
             providers |-> {"writer", "reader"}, needsCredential |-> FALSE,
             credential |-> NoCredential, fields |-> {}]

WriteCall ==
    c1 :> [workspace |-> w1, run |-> r1, capability |-> "write", provider |-> "writer",
           requester |-> agent, byWorker |-> FALSE, actor |-> agent, risk |-> "low",
           sideEffecting |-> TRUE, credential |-> NoCredential, resource |-> <<>>]
WriteCaps == c1 :> WriteCap

World == [task |-> [workspace |-> w1, run |-> r1, assignee |-> agent,
                    capabilities |-> {"read", "write"}, grants |-> <<>>],
          available |-> {}, effectful |-> {},
          roleGrants |-> agent :> {"read", "write"}, workerGrants |-> agent :> {},
          enabledWorkers |-> {}, suspended |-> {},
          orgs |-> <<>>, defaultOrg |-> NoOrg]

\* The third process was started without the writer's provider.
UnequalServers == p1 :> {"writer", "reader"} @@ p2 :> {"writer", "reader"} @@ p3 :> {"reader"}

VARIABLE crashes

LiveNext ==
    \/ (Serve \/ Surroundings) /\ UNCHANGED crashes
    \/ /\ crashes < MaxCrashes
       /\ crashes' = crashes + 1
       /\ \E p \in Procs : Crash(p)

RetryInit == Init /\ crashes = 0

RetrySpec ==
    /\ RetryInit
    /\ [][LiveNext]_<<vars, crashes>>
    /\ EventLoopFairness /\ ClientsRetry
===============================================================================
