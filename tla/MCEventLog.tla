------------------------------- MODULE MCEventLog -------------------------------
(* What the organization records, and what the records are worth: one focus *)
(* for each of the modules, in which the others stand still.                   *)
(*   append     two processes append and a newer program migrates the file     *)
(*   anchor     an operator attests the head of a log that one process writes, *)
(*              while keys rotate, time passes and the file is damaged         *)
(*   decisions  an operator and an agent sign decisions                        *)
(*   gap, sweep, request, blockers   the daemon beats, beside operators: with a *)
(*              gap, with a sweep out of step, with a second request, with two  *)
(*              work items that are blocked                                     *)
EXTENDS EventChain, SignedDecisions, Heartbeat, TLC

CONSTANTS op, agent, w1, w2, c1, c2, r1, i1, a1, k1, o1, scan, sweep, digest, extra, q1, q2, q3, g1, g2

CONSTANT Foci
VARIABLE focus

Owners == 1 :> op @@ 2 :> op @@ 3 :> agent
From == 1 :> 0 @@ 2 :> 1 @@ 3 :> 0
Until == 1 :> 1 @@ 2 :> None @@ 3 :> None
TwoInputs == {[kind |-> Bare, run |-> r1, key |-> i1],
              [kind |-> "fact", run |-> None, key |-> None]}
Kinds == [c \in Cadences |-> IF c = scan THEN "learning_scan"
                             ELSE IF c = digest THEN "status_digest" ELSE "stale_approval_sweep"]
Seconds == [c \in Cadences |-> IF c = scan THEN 1 ELSE 2]

logVars == <<log, drafts, anchors, migrated, damaged, repinned>>

(* One append at a time, by one writer and of one kind. *)
OneByOne ==
    /\ drafts'[w2] = None
    /\ drafts[w1] # None => drafts'[w1] = None /\ log' # log
    /\ drafts'[w1] # None => drafts'[w1].row.kind = "fact" /\ drafts'[w1].row.at = now

(* One anchor at most has its row changed, in a file already damaged and while the keys of
   the anchors stand.  In a damaged file the registry and the clock stand still. *)
OneRepinned ==
    /\ Cardinality(repinned') <= 1
    /\ repinned' # repinned =>
          /\ damaged
          /\ \A a \in anchors : Stands(a.key) /\ WithinWindow(a.key, a.at)
    /\ damaged => UNCHANGED <<registryVars, sessions, now>>

(* The bounds of the foci on the daemon: a gap, or a second sweep, or a second request, or
   two blockers, seen by at most two scans that differ. *)
Beats == {"gap", "sweep", "request", "blockers"}
TwoBlockers ==
    /\ Pending' = {} /\ lost' = 0 /\ incidents'["missing_capability"] = {}
    /\ Cardinality(proposals') <= 2
OneMore ==
    /\ requests'[q3] # "resolved"
    /\ inbox' # inbox => \A n \in DOMAIN inbox' : inbox'[n] = "read" => n = q1
    /\ focus # "gap" => requests'[q3] = "absent" /\ \A n \in DOMAIN inbox' : inbox'[n] = "unread"
    /\ focus # "blockers" /\ incidents' # incidents =>
          /\ focus = "gap" /\ incidents'["repeated_blocker"] = {}
          /\ incidents'["missing_capability"] \subseteq {g1}
    /\ focus = "blockers" => TwoBlockers
    /\ focus # "sweep" => schedule'[extra] = Never
    /\ focus # "request" => requests'[q2] = "absent"

LogInit ==
    /\ focus \in Foci
    /\ ChainInit /\ rows = [o \in Objects |-> Undecided(o)] /\ BeatInit
    /\ focus # "append" => log = {}
    /\ focus \in {"append"} \cup Beats => keys = [k \in Keys |-> "absent"]
    /\ focus = "decisions" => keys = [k \in Keys |-> IF k = 2 THEN "absent" ELSE "active"]
    /\ focus = "anchor" => keys = [k \in Keys |-> IF k = 1 THEN "active" ELSE "absent"]

LogNext ==
    /\ UNCHANGED focus
    /\ \/ /\ focus = "append"
          /\ Appending \/ Migrate
          /\ UNCHANGED <<rows, beatVars>>
       \/ /\ focus = "anchor"
          /\ ChainNext
          /\ OneByOne
          /\ sessions' # sessions => sessions'[c1].principal = op
          /\ OneRepinned
          /\ keys'[3] = "absent"
          /\ UNCHANGED <<principals, migrated, rows, beatVars>>
       \/ /\ focus = "decisions"
          /\ DecisionsNext
          /\ principals'[agent] = "active" /\ keys'[3] = "active"
          /\ UNCHANGED <<logVars, beatVars>>
       \/ /\ focus \in Beats
          /\ BeatNext
          /\ OneMore
          /\ UNCHANGED <<signingVars, logVars, rows>>

(* BeatFairness, in the foci in which the daemon beats. *)
BeatingFairness ==
    /\ WF_beatVars(focus \in Beats /\ TimePasses1)
    /\ WF_beatVars(focus \in Beats /\ Wake) /\ SF_beatVars(focus \in Beats /\ Start)
    /\ SF_beatVars(focus \in Beats /\ BeatCommits)

LogSpec == LogInit /\ [][LogNext]_<<chainVars, rows, beatVars, focus>> /\ BeatingFairness
===============================================================================
