------------------------------- MODULE SpineProofs -------------------------------
(***************************************************************************)
(* What holds of the demo run for any number of processes that drive it,   *)
(* crashes and steps left out of the script.                               *)
(*                                                                         *)
(* Where a process stands in the script is no evidence of its own: another *)
(* process did part of what lies behind it, and a resume passes over what  *)
(* is below its floor.  SpineInv says what a position, a decision of the   *)
(* governed call, an approval and a checkpoint each vouch for: that the    *)
(* steps of the script below them are done.                                *)
(***************************************************************************)
EXTENDS Spine, ApprovalServiceProofs, WellFoundedInduction

-------------------------------------------------------------------------------
(* The script.                                                             *)

LEMMA TheScript ==
    /\ DOMAIN Script = 1..24
    /\ Script[1] = Record("run_started") /\ Script[2] = Record("work_created")
    /\ Script[3] = Record("coordinator_invoked") /\ Script[4] = Record("handoff_requested")
    /\ Script[5] = Make("task") /\ Script[6] = Record("handoff_to_researcher")
    /\ Script[7] = Record("researcher_invoked") /\ Script[8] = Do("invoke")
    /\ Script[9] = Mark("capability_called") /\ Script[10] = Make("file")
    /\ Script[11] = Make("effect") /\ Script[12] = Make("artifact")
    /\ Script[13] = Record("artifact_created") /\ Script[14] = Record("coordinator_finalized")
    /\ Script[15] = Make("researcher_memory") /\ Script[16] = Make("coordinator_memory")
    /\ Script[17] = Mark("individual_memory_written") /\ Script[18] = Do("propose")
    /\ Script[19] = Do("trace") /\ Script[20] = Mark("approval_resolved")
    /\ Script[21] = Do("ratify") /\ Script[22] = Mark("collective_memory_written")
    /\ Script[23] = Do("finish") /\ Script[24] = Do("complete")
BY DEF Script

LEMMA TwentyFour ==
    ASSUME NEW i \in 1..24
    PROVE  \/ i = 1 \/ i = 2 \/ i = 3 \/ i = 4 \/ i = 5 \/ i = 6 \/ i = 7 \/ i = 8 \/ i = 9
           \/ i = 10 \/ i = 11 \/ i = 12 \/ i = 13 \/ i = 14 \/ i = 15 \/ i = 16 \/ i = 17
           \/ i = 18 \/ i = 19 \/ i = 20 \/ i = 21 \/ i = 22 \/ i = 23 \/ i = 24
OBVIOUS

\* Which step is where.
LEMMA StepKinds ==
    ASSUME NEW i \in 1..24
    PROVE  /\ Script[i].do \in {"record", "mark", "make", "invoke", "propose", "trace",
                                "ratify", "finish", "complete"}
           /\ Script[i].do = "invoke" <=> i = 8
           /\ Script[i].do = "propose" <=> i = 18
           /\ Script[i].do = "trace" <=> i = 19
           /\ Script[i].do = "ratify" <=> i = 21
           /\ Script[i].do = "finish" <=> i = 23
           /\ Script[i].do = "complete" <=> i = 24
           /\ Script[i].do = "record" => i < 15
           /\ Script[i].do \in {"record", "mark"} => Script[i].what \in Nodes
           /\ Script[i].do = "make" => Script[i].what \notin {"collective", "work_done"}
           /\ i \in {8, 18, 19, 21, 23, 24} => Script[i].what = None
           /\ DOMAIN Script = 1..24
BY TheScript, TwentyFour DEF Record, Mark, Make, Do, Nodes

LEMMA KeptSteps == Kept \subseteq 1..24 /\ {8, 18, 19, 21, 23, 24} \subseteq Kept
BY StepKinds, SpineAssumption DEF Kept

\* The rank of a step's node in the order of nodes, 0 where the step has none.
Rank == <<1, 2, 3, 4, 0, 5, 6, 0, 9, 0, 0, 0, 10, 11, 0, 0, 12, 0, 0, 8, 0, 13, 0, 0>>

LEMMA TheOrder ==
    /\ DOMAIN NodeOrder = 1..15
    /\ NodeOrder[1] = "run_started" /\ NodeOrder[2] = "work_created"
    /\ NodeOrder[3] = "coordinator_invoked" /\ NodeOrder[4] = "handoff_requested"
    /\ NodeOrder[5] = "handoff_to_researcher" /\ NodeOrder[6] = "researcher_invoked"
    /\ NodeOrder[7] = "approval_requested" /\ NodeOrder[8] = "approval_resolved"
    /\ NodeOrder[9] = "capability_called" /\ NodeOrder[10] = "artifact_created"
    /\ NodeOrder[11] = "coordinator_finalized" /\ NodeOrder[12] = "individual_memory_written"
    /\ NodeOrder[13] = "collective_memory_written" /\ NodeOrder[14] = "work_completed"
    /\ NodeOrder[15] = "run_completed"
BY DEF NodeOrder

LEMMA OrderDistinct ==
    ASSUME NEW i \in 1..15, NEW j \in 1..15, NodeOrder[i] = NodeOrder[j]
    PROVE  i = j
<1>1. \A k \in 1..15 : \/ k = 1 \/ k = 2 \/ k = 3 \/ k = 4 \/ k = 5 \/ k = 6 \/ k = 7 \/ k = 8
                       \/ k = 9 \/ k = 10 \/ k = 11 \/ k = 12 \/ k = 13 \/ k = 14 \/ k = 15
  OBVIOUS
<1> QED BY <1>1, TheOrder

\* Of two nodes of the order, which comes first.
LEMMA OrderOfNodes ==
    ASSUME NEW i \in 1..15, NEW j \in 1..15
    PROVE  BeforeFloor(NodeOrder[j], NodeOrder[i]) <=> i < j
BY OrderDistinct, TheOrder DEF BeforeFloor

LEMMA RankOfStep ==
    ASSUME NEW i \in 1..24, Script[i].do \in {"record", "mark"}
    PROVE  Rank[i] \in 1..15 /\ Script[i].what = NodeOrder[Rank[i]]
<1>1. /\ Rank[1] = 1 /\ Rank[2] = 2 /\ Rank[3] = 3 /\ Rank[4] = 4 /\ Rank[6] = 5 /\ Rank[7] = 6
      /\ Rank[9] = 9 /\ Rank[13] = 10 /\ Rank[14] = 11 /\ Rank[17] = 12 /\ Rank[20] = 8
      /\ Rank[22] = 13
  BY DEF Rank
<1> QED BY <1>1, TheScript, TheOrder, TwentyFour DEF Record, Mark, Make, Do

\* A node that comes before the node of a step belongs to an earlier step.
LEMMA BeforeStep ==
    ASSUME NEW i \in 1..24, Script[i].do = "record",
           NEW j \in 1..24, Script[j].do \in {"record", "mark"},
           BeforeFloor(Script[j].what, Script[i].what)
    PROVE  i < j
<1>1. /\ Rank[1] = 1 /\ Rank[2] = 2 /\ Rank[3] = 3 /\ Rank[4] = 4 /\ Rank[6] = 5 /\ Rank[7] = 6
      /\ Rank[9] = 9 /\ Rank[13] = 10 /\ Rank[14] = 11 /\ Rank[17] = 12 /\ Rank[20] = 8
      /\ Rank[22] = 13
  BY DEF Rank
<1>2. Rank[i] < Rank[j]
  BY RankOfStep, OrderOfNodes
<1>3. i \in {1, 2, 3, 4, 6, 7, 13, 14} /\ j \in {1, 2, 3, 4, 6, 7, 9, 13, 14, 17, 20, 22}
  <2>1. \A k \in 1..24 : /\ Script[k].do = "record" => k \in {1, 2, 3, 4, 6, 7, 13, 14}
                         /\ Script[k].do = "mark" => k \in {9, 17, 20, 22}
    BY TheScript, TwentyFour DEF Record, Mark, Make, Do
  <2> QED BY <2>1
<1> QED BY <1>1, <1>2, <1>3

\* A node that comes before the nodes of an approval, or before the capability call,
\* belongs to a step before the call.
LEMMA BeforeCall ==
    ASSUME NEW i \in 1..24, Script[i].do = "record",
           NEW node \in {"approval_requested", "approval_resolved", "capability_called"},
           BeforeFloor(node, Script[i].what)
    PROVE  i < 8
<1>1. Rank[i] < 9
  BY RankOfStep, OrderOfNodes, TheOrder
<1>2. Rank[13] = 10 /\ Rank[14] = 11
  BY DEF Rank
<1>3. i \in {1, 2, 3, 4, 6, 7, 13, 14}
  BY TheScript, TwentyFour DEF Record, Mark, Make, Do
<1> QED BY <1>1, <1>2, <1>3

\* The step whose node the order puts after the resolution of an approval comes after
\* the call.
LEMMA PastApproval ==
    ASSUME NEW j \in 1..24, Script[j].do \in {"record", "mark"},
           BeforeFloor(Script[j].what, "approval_resolved")
    PROVE  8 < j
<1>1. 8 < Rank[j]
  BY RankOfStep, OrderOfNodes, TheOrder
<1>2. /\ Rank[1] = 1 /\ Rank[2] = 2 /\ Rank[3] = 3 /\ Rank[4] = 4 /\ Rank[6] = 5 /\ Rank[7] = 6
      /\ Rank[5] = 0 /\ Rank[8] = 0
  BY DEF Rank
<1> QED BY <1>1, <1>2

LEMMA ApprovalNodes ==
    /\ ~ BeforeFloor("approval_requested", "approval_resolved")
    /\ ~ BeforeFloor("approval_resolved", "approval_resolved")
BY OrderOfNodes, TheOrder

\* A floor the order does not know is above nothing.
LEMMA NoFloor ==
    ASSUME NEW floor \in {None, "approval_rejected", "approval_skipped", "capability_failed"},
           NEW node
    PROVE  ~ BeforeFloor(floor, node)
<1>1. \A j \in 1..15 : \/ j = 1 \/ j = 2 \/ j = 3 \/ j = 4 \/ j = 5 \/ j = 6 \/ j = 7 \/ j = 8
                       \/ j = 9 \/ j = 10 \/ j = 11 \/ j = 12 \/ j = 13 \/ j = 14 \/ j = 15
  OBVIOUS
<1>2. \A j \in 1..15 : NodeOrder[j] # None
  BY NodesAssumption, TheOrder
<1>3. \A j \in 1..15 :
          NodeOrder[j] \notin {"approval_rejected", "approval_skipped", "capability_failed"}
  BY <1>1, TheOrder
<1> QED BY <1>2, <1>3, TheOrder DEF BeforeFloor

\* After finds the next step the script keeps.
LEMMA NextKept ==
    ASSUME NEW i \in 0..23
    PROVE  /\ After(i) \in Kept /\ i < After(i)
           /\ \A k \in Kept : k < After(i) => k <= i
<1> DEFINE R == OpToRel(<, Nat)
           S == {j \in Kept : i < j}
<1>1. IsWellFoundedOn(R, Nat)
  BY NatLessThanWellFounded
<1>2. S \subseteq Nat /\ S # {}
  <2>1. \A j \in Kept : j \in 1..24
    BY KeptSteps
  <2>2. 24 \in Kept
    BY KeptSteps
  <2>3. 24 \in S
    BY <2>2
  <2> QED BY <2>1, <2>3
<1>3. PICK x \in S : \A y \in S : ~(<<y, x>> \in R)
  <2> HIDE DEF R, S
  <2> QED BY <1>1, <1>2, WFMin
<1>4. \A y \in S : x <= y
  <2>1. \A y \in S : ~(y < x)
    BY <1>2, <1>3 DEF OpToRel
  <2> QED BY <1>2, <2>1
<1>5. \E j \in Kept : i < j /\ \A k \in Kept : i < k => j <= k
  BY <1>4
<1>6. After(i) \in Kept /\ i < After(i) /\ \A k \in Kept : i < k => After(i) <= k
  BY <1>5 DEF After
<1>7. \A k \in Kept : k \in 1..24
  BY KeptSteps
<1> QED
  <2> HIDE DEF S, R
  <2> QED BY <1>6, <1>7

LEMMA ResumeFromTrace == ResumeDemo = After(19)
<1>1. \A i \in DOMAIN Script : Script[i].do = "trace" <=> i = 19
  BY StepKinds, TheScript
<1> QED BY <1>1, TheScript DEF ResumeDemo, Position

-------------------------------------------------------------------------------
(* The invariant.                                                          *)

\* What the step at a position leaves behind.
Done(i) ==
    LET step == Script[i] IN
    CASE step.do = "record" -> step.what \in recorded
      [] step.do = "make" -> step.what \in products
      [] step.do = "invoke" -> lookup.outcome = "ok"
      [] step.do = "propose" -> candidate # "absent"
      [] step.do = "ratify" -> candidate = "ratified" /\ "collective" \in products
      [] step.do = "finish" -> "work_done" \in products
      [] OTHER -> TRUE
DoneBelow(i) == \A j \in Kept : j < i => Done(j)

\* What a resume from a node may take for granted.
FloorKept(floor) == \A node \in RecordedNodes : BeforeFloor(floor, node) => node \in recorded
Vouched(node) ==
    /\ FloorKept(node)
    /\ BeforeFloor(node, "approval_resolved") => lookup.outcome = "ok"

\* A process at a position found all below it done; if it read a run that was over,
\* the run is over as it read it.
DriverInv(d) ==
    LET driver == drivers[d] IN
    /\ driver.at # "idle" => Status # "absent"
    /\ driver.at = "dispatch" => driver.view \in Views
    /\ driver.at \in {"script", "awaiting"} =>
           /\ driver.pos \in {0} \cup Kept
           /\ DoneBelow(driver.pos)
           /\ driver.pos = 0 => lookup.decided
           /\ (driver.view # None /\ driver.view.status \in Terminal) =>
                  driver.view.status = Status
    /\ driver.at = "awaiting" => lookup.intended /\ Step(d).do = "invoke"
    /\ FloorKept(driver.floor)

\* The governed call was decided where the script has it, and goes ahead only on
\* nobody's asking or on an approval.
LookupInv ==
    /\ \A a \in Approvals \ {LookupApproval, PromotionApproval} : approvals[a].status = "absent"
    /\ approvals[LookupApproval].status # "absent" => lookup.decided
    /\ lookup.decided => Status # "absent" /\ DoneBelow(8)
    /\ lookup.intended \/ lookup.outcome = "ok" =>
           /\ lookup.decided
           /\ approvals[LookupApproval].status \in {"absent", "approved"}

\* The promotion was proposed after all before it, nothing was made of it without
\* its approval, and a run whose promotion can still be approved has not failed.
PromotionInv ==
    LET verdict == approvals[PromotionApproval].status IN
    /\ verdict # "absent" <=> candidate # "absent"
    /\ candidate # "absent" => DoneBelow(18)
    /\ (candidate = "ratified" \/ products \cap {"collective", "work_done"} # {}) =>
           verdict = "approved"
    /\ Status = "failed" => verdict \in {"absent", "rejected"}

\* The checkpoint vouches for what a resume from it passes over, and a completed run
\* for the whole script.
RunInv ==
    /\ Vouched(checkpoint[Run].node)
    /\ Status = "completed" => DoneBelow(25)

SpineInv ==
    /\ SpineTypeOK
    /\ \A d \in Drivers : DriverInv(d)
    /\ LookupInv
    /\ PromotionInv
    /\ RunInv

-------------------------------------------------------------------------------
(* What every step of the spine keeps.                                     *)

\* What is done stays done, a run once created stays and is over for good, and a call
\* once decided or intended stays so.
Evolves ==
    /\ recorded \subseteq recorded' /\ products \subseteq products'
    /\ lookup.outcome = "ok" => lookup'.outcome = "ok"
    /\ candidate # "absent" => candidate' # "absent"
    /\ candidate = "ratified" => candidate' = "ratified"
    /\ lookup.decided => lookup'.decided
    /\ lookup.intended => lookup'.intended
    /\ Status # "absent" => Status' # "absent"
    /\ Status \in Terminal => Status' = Status

LEMMA DoneStays ==
    ASSUME Evolves, NEW i \in Kept, Done(i)
    PROVE  Done(i)'
<1>1. Script[i].do \in {"record", "mark", "make", "invoke", "propose", "trace",
                        "ratify", "finish", "complete"}
  BY StepKinds, KeptSteps
<1> QED BY <1>1 DEF Evolves, Done

LEMMA DoneBelowStays ==
    ASSUME Evolves, NEW i, DoneBelow(i)
    PROVE  DoneBelow(i)'
BY DoneStays DEF DoneBelow

LEMMA FloorStays ==
    ASSUME Evolves, NEW floor
    PROVE  /\ FloorKept(floor) => FloorKept(floor)'
           /\ Vouched(floor) => Vouched(floor)'
BY DEF Evolves, FloorKept, Vouched

\* A process that does not move keeps its word.
LEMMA DriverStays ==
    ASSUME Evolves, NEW d, DriverInv(d), drivers'[d] = drivers[d]
    PROVE  DriverInv(d)'
<1>1. Step(d)' = Step(d)
  BY DEF Step
<1>2. FloorKept(drivers[d].floor)'
  BY FloorStays DEF DriverInv
<1>3. DoneBelow(drivers[d].pos) => DoneBelow(drivers[d].pos)'
  BY DoneBelowStays
<1> QED BY <1>1, <1>2, <1>3 DEF DriverInv, Evolves

LEMMA OneDriverMoves ==
    ASSUME SpineInv, Evolves, NEW d \in Drivers, DriverInv(d)',
           \A e \in Drivers \ {d} : drivers'[e] = drivers[e]
    PROVE  \A e \in Drivers : DriverInv(e)'
<1> SUFFICES ASSUME NEW e \in Drivers, e # d PROVE DriverInv(e)'
  OBVIOUS
<1> QED BY DriverStays DEF SpineInv

LEMMA LookupStays ==
    ASSUME LookupInv, Evolves, UNCHANGED approvals,
           lookup'.decided => lookup.decided,
           lookup'.intended \/ lookup'.outcome = "ok" => lookup.intended \/ lookup.outcome = "ok"
    PROVE  LookupInv'
<1>1. DoneBelow(8) => DoneBelow(8)'
  BY DoneBelowStays
<1> QED BY <1>1 DEF LookupInv, Evolves

LEMMA PromotionStays ==
    ASSUME PromotionInv, Evolves,
           approvals'[PromotionApproval].status = approvals[PromotionApproval].status,
           candidate' = candidate,
           products' \cap {"collective", "work_done"} \subseteq products,
           Status' = "failed" =>
               Status = "failed" \/ approvals[PromotionApproval].status \in {"absent", "rejected"}
    PROVE  PromotionInv'
<1>1. DoneBelow(18) => DoneBelow(18)'
  BY DoneBelowStays
<1> QED BY <1>1 DEF PromotionInv

LEMMA RunStays ==
    ASSUME SpineInv, Evolves,
           \E node \in Nodes : Vouched(node) /\ checkpoint'[Run].node = node,
           Status' = "completed" => Status = "completed"
    PROVE  RunInv'
<1>1. DoneBelow(25) => DoneBelow(25)'
  BY DoneBelowStays
<1> QED BY <1>1, FloorStays DEF SpineInv, RunInv

-------------------------------------------------------------------------------
(* What a position and an approval vouch for.                              *)

LEMMA RecordsAreSteps ==
    ASSUME NEW node \in RecordedNodes
    PROVE  \E i \in Kept : Script[i].do = "record" /\ Script[i].what = node
BY DEF RecordedNodes

LEMMA StepVouches ==
    ASSUME NEW j \in Kept, Script[j].do \in {"record", "mark"}, DoneBelow(j)
    PROVE  Vouched(Script[j].what)
<1>1. ASSUME NEW node \in RecordedNodes, BeforeFloor(Script[j].what, node)
      PROVE  node \in recorded
  <2>1. PICK i \in Kept : Script[i].do = "record" /\ Script[i].what = node
    BY RecordsAreSteps
  <2>2. i < j
    BY <1>1, <2>1, BeforeStep, KeptSteps
  <2> QED BY <2>1, <2>2 DEF DoneBelow, Done
<1>2. ASSUME BeforeFloor(Script[j].what, "approval_resolved")
      PROVE  lookup.outcome = "ok"
  <2>1. 8 < j /\ 8 \in Kept /\ Script[8].do = "invoke"
    BY <1>2, PastApproval, KeptSteps, StepKinds
  <2> QED BY <2>1 DEF DoneBelow, Done
<1> QED BY <1>1, <1>2 DEF Vouched, FloorKept

LEMMA CallVouches ==
    ASSUME DoneBelow(8)
    PROVE  /\ Vouched("approval_requested") /\ Vouched("approval_resolved")
           /\ FloorKept("capability_called")
<1>1. ASSUME NEW floor \in {"approval_requested", "approval_resolved", "capability_called"},
             NEW node \in RecordedNodes, BeforeFloor(floor, node)
      PROVE  node \in recorded
  <2>1. PICK i \in Kept : Script[i].do = "record" /\ Script[i].what = node
    BY RecordsAreSteps
  <2>2. i < 8
    BY <1>1, <2>1, BeforeCall, KeptSteps
  <2> QED BY <2>1, <2>2 DEF DoneBelow, Done
<1> QED BY <1>1, ApprovalNodes DEF Vouched, FloorKept

LEMMA EndVouches ==
    ASSUME DoneBelow(23), NEW floor
    PROVE  Vouched(floor)
<1>1. ASSUME NEW node \in RecordedNodes
      PROVE  node \in recorded
  <2>1. PICK i \in Kept : Script[i].do = "record" /\ Script[i].what = node
    BY RecordsAreSteps
  <2>2. i < 23
    BY <2>1, StepKinds, KeptSteps
  <2> QED BY <2>1, <2>2 DEF DoneBelow, Done
<1>2. lookup.outcome = "ok"
  <2>1. 8 < 23 /\ 8 \in Kept /\ Script[8].do = "invoke"
    BY KeptSteps, StepKinds
  <2> QED BY <2>1 DEF DoneBelow, Done
<1> QED BY <1>1, <1>2 DEF Vouched, FloorKept

LEMMA NowhereVouches ==
    ASSUME NEW floor \in {None, "approval_rejected", "approval_skipped", "capability_failed"}
    PROVE  Vouched(floor)
BY NoFloor DEF Vouched, FloorKept

LEMMA LowerBelow ==
    ASSUME NEW i \in 0..25, NEW j \in 0..25, i <= j, DoneBelow(j)
    PROVE  DoneBelow(i)
<1> SUFFICES ASSUME NEW k \in Kept, k < i PROVE Done(k)
  BY DEF DoneBelow
<1>1. k \in 1..24
  BY KeptSteps
<1>2. k < j
  BY <1>1
<1> QED BY <1>2 DEF DoneBelow

\* An approval stands for all that precedes the call; the promotion's stands for the
\* call's success as well.
LEMMA ApprovalVouches ==
    ASSUME SpineInv, NEW a \in Approvals, approvals[a].status # "absent"
    PROVE  DoneBelow(8) /\ Status # "absent" /\ a \in {LookupApproval, PromotionApproval}
<1>1. a \in {LookupApproval, PromotionApproval}
  BY DEF SpineInv, LookupInv
<1>2. CASE a = LookupApproval
  BY <1>2 DEF SpineInv, LookupInv
<1>3. CASE a = PromotionApproval
  <2>1. DoneBelow(18)
    BY <1>3 DEF SpineInv, PromotionInv
  <2>2. DoneBelow(8)
    BY <2>1, LowerBelow
  <2>3. 8 < 18 /\ 8 \in Kept /\ Script[8].do = "invoke"
    BY KeptSteps, StepKinds
  <2>4. lookup.outcome = "ok"
    BY <2>1, <2>3 DEF DoneBelow, Done
  <2> QED BY <1>1, <2>2, <2>4 DEF SpineInv, LookupInv
<1> QED BY <1>1, <1>2, <1>3

LEMMA ProposedAfterCall ==
    ASSUME SpineInv, candidate # "absent" \/ approvals[PromotionApproval].status # "absent"
    PROVE  lookup.outcome = "ok"
<1>1. DoneBelow(18)
  BY DEF SpineInv, PromotionInv
<1>2. 8 < 18 /\ 8 \in Kept /\ Script[8].do = "invoke"
  BY KeptSteps, StepKinds
<1> QED BY <1>1, <1>2 DEF DoneBelow, Done

-------------------------------------------------------------------------------
(* Moves of a process.                                                     *)

DriverRow == [at : Places, pos : {0} \cup DOMAIN Script, floor : Nodes, view : Views \cup {None}]

\* Only process d moves.
Moves(d) ==
    /\ drivers' \in [Drivers -> DriverRow]
    /\ \A e \in Drivers \ {d} : drivers'[e] = drivers[e]

LEMMA DriverTyped ==
    ASSUME SpineTypeOK, NEW d \in Drivers
    PROVE  /\ drivers \in [Drivers -> DriverRow] /\ drivers[d] \in DriverRow
           /\ drivers[d].at \in Places /\ drivers[d].pos \in {0} \cup 1..24
           /\ drivers[d].floor \in Nodes /\ drivers[d].view \in Views \cup {None}
BY StepKinds DEF SpineTypeOK, DriverRow

LEMMA Leaves ==
    ASSUME SpineTypeOK, NEW d \in Drivers, Leave(d)
    PROVE  Moves(d) /\ DriverInv(d)'
<1>1. Idle \in DriverRow
  BY DEF Idle, DriverRow, Places, Nodes
<1>2. drivers' = [drivers EXCEPT ![d] = Idle]
  BY DEF Leave
<1>3. drivers'[d] = Idle /\ Moves(d)
  BY <1>1, <1>2, DriverTyped DEF Moves
<1>4. FloorKept(None)'
  BY NoFloor DEF FloorKept
<1> QED BY <1>3, <1>4 DEF DriverInv, Idle

LEMMA Goes ==
    ASSUME SpineTypeOK, NEW d \in Drivers, NEW at \in Places, NEW pos \in {0} \cup 1..24,
           NEW floor \in Nodes, NEW view \in Views \cup {None}, GoTo(d, at, pos, floor, view)
    PROVE  /\ Moves(d)
           /\ drivers'[d].at = at /\ drivers'[d].pos = pos
           /\ drivers'[d].floor = floor /\ drivers'[d].view = view
<1> DEFINE row == [at |-> at, pos |-> pos, floor |-> floor, view |-> view]
<1>1. row \in DriverRow
  BY StepKinds DEF DriverRow
<1>2. drivers' = [drivers EXCEPT ![d] = row]
  BY DEF GoTo
<1>3. drivers'[d] = row /\ Moves(d)
  BY <1>1, <1>2, DriverTyped DEF Moves
<1> QED BY <1>3

\* A process that enters the script from its beginning.
LEMMA Enters ==
    ASSUME SpineTypeOK, NEW d \in Drivers, NEW floor \in Nodes, FloorKept(floor),
           Evolves, Status' # "absent", GoTo(d, "script", After(0), floor, Running)
    PROVE  Moves(d) /\ DriverInv(d)'
<1>1. After(0) \in Kept /\ After(0) \in 1..24 /\ \A k \in Kept : ~(k < After(0))
  <2>1. After(0) \in Kept /\ \A k \in Kept : k < After(0) => k <= 0
    BY NextKept
  <2>2. \A k \in Kept : k \in 1..24
    BY KeptSteps
  <2> QED BY <2>1, <2>2
<1>2. Running \in Views /\ Running.status = "running"
  BY DEF Running, Views, RunStatus
<1>3. /\ Moves(d)
      /\ drivers'[d].at = "script" /\ drivers'[d].pos = After(0)
      /\ drivers'[d].floor = floor /\ drivers'[d].view = Running
  BY <1>1, <1>2, Goes DEF Places
<1>4. FloorKept(floor)'
  BY FloorStays
<1>5. DoneBelow(After(0))'
  BY <1>1 DEF DoneBelow
<1>6. Running.status \notin Terminal
  BY <1>2 DEF Terminal
<1>7. After(0) # 0
  BY <1>1
<1> QED BY <1>1, <1>3, <1>4, <1>5, <1>6, <1>7 DEF DriverInv

\* Where a process that is in the script stands.
LEMMA Stands ==
    ASSUME SpineInv, NEW d \in Drivers, drivers[d].at \in {"script", "awaiting"}
    PROVE  /\ drivers[d].pos \in {0} \cup Kept /\ drivers[d].pos \in 0..24
           /\ DoneBelow(drivers[d].pos)
           /\ Status # "absent"
           /\ drivers[d].pos = 0 => /\ Step(d).do = "invoke" /\ Step(d).what = None
                                    /\ lookup.decided
           /\ drivers[d].pos # 0 => drivers[d].pos \in Kept /\ Step(d) = Script[drivers[d].pos]
<1>1. DriverInv(d)
  BY DEF SpineInv
<1>2. drivers[d].pos \in {0} \cup Kept /\ drivers[d].pos \in 0..24
  <2>1. drivers[d].pos \in {0} \cup Kept
    BY <1>1 DEF DriverInv
  <2>2. \A k \in Kept : k \in 1..24
    BY KeptSteps
  <2> QED BY <2>1, <2>2
<1>3. drivers[d].pos = 0 => Step(d) = Do("invoke") /\ lookup.decided
  BY <1>1 DEF DriverInv, Step
<1>4. drivers[d].pos # 0 => Step(d) = Script[drivers[d].pos]
  BY DEF Step
<1>5. DoneBelow(drivers[d].pos) /\ Status # "absent"
  BY <1>1 DEF DriverInv
<1>6. Do("invoke").do = "invoke" /\ Do("invoke").what = None
  BY DEF Do
<1> QED BY <1>2, <1>3, <1>4, <1>5, <1>6

\* The one step of a kind is at its place.
LEMMA StandsAt ==
    ASSUME SpineInv, NEW d \in Drivers, drivers[d].at \in {"script", "awaiting"}
    PROVE  /\ Step(d).do = "invoke" => drivers[d].pos \in {0, 8}
           /\ Step(d).do = "propose" => drivers[d].pos = 18
           /\ Step(d).do = "trace" => drivers[d].pos = 19
           /\ Step(d).do = "ratify" => drivers[d].pos = 21
           /\ Step(d).do = "finish" => drivers[d].pos = 23
           /\ Step(d).do = "complete" => drivers[d].pos = 24
           /\ Step(d).do \in {"record", "mark", "make"} =>
                  drivers[d].pos \in Kept /\ Step(d) = Script[drivers[d].pos]
<1> DEFINE i == drivers[d].pos
<1>1. CASE i = 0
  BY <1>1, Stands
<1>2. CASE i # 0
  <2>1. i \in Kept /\ i \in 1..24 /\ Step(d) = Script[i]
    BY <1>2, Stands, KeptSteps
  <2> QED BY <2>1, StepKinds
<1> QED BY <1>1, <1>2

\* A process that has done its step goes on to the next.
LEMMA Advances ==
    ASSUME SpineInv, Evolves, NEW d \in Drivers, drivers[d].at \in {"script", "awaiting"},
           NEW i \in 0..23, i = drivers[d].pos, i # 0 => Done(i)', Advance(d)
    PROVE  Moves(d) /\ DriverInv(d)'
<1> DEFINE view == IF Step(d).what = "collective_memory_written" THEN drivers[d].view ELSE None
           row == [at |-> "script", pos |-> After(i), floor |-> drivers[d].floor, view |-> view]
<1>0. DriverInv(d) /\ SpineTypeOK
  BY DEF SpineInv
<1>1. After(i) \in Kept /\ After(i) \in 1..24 /\ i < After(i)
      /\ \A k \in Kept : k < After(i) => k <= i
  <2>1. \A k \in Kept : k \in 1..24
    BY KeptSteps
  <2> QED BY <2>1, NextKept
<1>2. row \in DriverRow
  BY <1>0, <1>1, DriverTyped, StepKinds DEF DriverRow, Places
<1>3. /\ drivers' = [drivers EXCEPT ![d] = drivers'[d]]
      /\ drivers'[d] = [drivers[d] EXCEPT !.at = "script", !.pos = After(i), !.view = view]
  BY <1>0, DriverTyped DEF Advance
<1>4. drivers'[d] = row /\ Moves(d)
  <2>1. drivers'[d] = row
    BY <1>0, <1>3, DriverTyped DEF DriverRow
  <2> HIDE DEF row
  <2> QED BY <1>0, <1>2, <1>3, <2>1, DriverTyped DEF Moves
<1>5. DoneBelow(After(i))'
  <2>1. DoneBelow(i)'
    BY Stands, DoneBelowStays
  <2>2. ASSUME NEW k \in Kept, k < After(i) PROVE Done(k)'
    <3>1. k <= i /\ k \in 1..24
      BY <1>1, <2>2, KeptSteps
    <3>2. CASE k = i
      BY <3>1, <3>2
    <3>3. CASE k < i
      BY <2>1, <3>3 DEF DoneBelow
    <3> QED BY <3>1, <3>2, <3>3
  <2> QED BY <2>2 DEF DoneBelow
<1>f. PICK floor : floor = drivers[d].floor
  OBVIOUS
<1>6. FloorKept(floor)'
  BY <1>0, <1>f, FloorStays DEF DriverInv
<1>7. Status' # "absent"
  BY Stands DEF Evolves
<1>8. (view # None /\ view.status \in Terminal) => view.status = Status'
  BY <1>0 DEF DriverInv, Evolves
<1>9. After(i) # 0
  BY <1>1
<1> HIDE DEF view
<1> QED BY <1>1, <1>4, <1>5, <1>f, <1>6, <1>7, <1>8, <1>9 DEF DriverInv

-------------------------------------------------------------------------------
(* Moves of the run.                                                       *)

\* The run takes a status, its latest checkpoint a node, and a run that is over keeps
\* its own.
RunStep(status, node) ==
    /\ TypeOK'
    /\ Status' = status /\ checkpoint'[Run].node = node
    /\ status # "absent" \/ Status = "absent"
    /\ Status \in Terminal => status = Status

LEMMA RunTyped ==
    ASSUME TypeOK
    PROVE  /\ runs[Run] \in RunRow /\ Status \in RunStatus \cup {"absent"}
           /\ checkpoint[Run].node \in Nodes
           /\ runs[Run].ptr \in Approvals \cup {None}
           /\ \A status : KeptPtr(status) \in Approvals \cup {None}
           /\ Run \in Runs
BY SpineAssumption DEF TypeOK, StoreTypeOK, CheckpointTypeOK, RunRow, Status, KeptPtr

LEMMA RunSame ==
    ASSUME TypeOK, RunUnchanged, QueueUnchanged
    PROVE  RunStep(Status, checkpoint[Run].node) /\ View' = View
BY DEF RunStep, TypeOK, StoreTypeOK, SignedTypeOK, AppliedTypeOK, CheckpointTypeOK,
       RunUnchanged, QueueUnchanged, Status, View

LEMMA AllSame ==
    ASSUME TypeOK, UNCHANGED vars
    PROVE  RunStep(Status, checkpoint[Run].node) /\ RunUnchanged /\ QueueUnchanged
BY RunSame DEF vars, RunUnchanged, QueueUnchanged

LEMMA Checkpointed ==
    ASSUME TypeOK, NEW node \in Nodes, NEW ptr \in Approvals \cup {None},
           Checkpoint(Run, node, ptr)
    PROVE  CheckpointTypeOK' /\ checkpoint'[Run].node = node
<1>1. CheckpointTypeOK'
  BY RunTyped, CheckpointKept DEF TypeOK
<1>2. checkpoint' = [checkpoint EXCEPT ![Run] = [node |-> node, ptr |-> ptr]]
  BY DEF Checkpoint
<1>3. checkpoint'[Run] = [node |-> node, ptr |-> ptr]
  BY <1>2, RunTyped DEF TypeOK, CheckpointTypeOK
<1> QED BY <1>1, <1>3

LEMMA Written ==
    ASSUME TypeOK, NEW status \in RunStatus, NEW node \in Nodes,
           NEW ptr \in Approvals \cup {None}, SetRunStatus(approvals, Run, status, node, ptr),
           QueueUnchanged
    PROVE  /\ UNCHANGED checkpoint => RunStep(status, checkpoint[Run].node)
           /\ Checkpoint(Run, node, ptr) => RunStep(status, node)
<1>1. /\ runs' \in [Runs -> RunRow] /\ locks' \in [Workspaces -> Runs \cup {None}]
      /\ Status' = status /\ (Status \in Terminal => status = Status)
  <2>1. Run \in Runs /\ StoreTypeOK
    BY RunTyped DEF TypeOK
  <2>2. runs' \in [Runs -> RunRow] /\ locks' \in [Workspaces -> Runs \cup {None}]
    BY <2>1, RunMoveOK
  <2> QED BY <2>1, <2>2, RunMoved DEF Status
<1>2. StoreTypeOK' /\ SignedTypeOK' /\ AppliedTypeOK'
  BY <1>1 DEF TypeOK, StoreTypeOK, SignedTypeOK, AppliedTypeOK, QueueUnchanged
<1>3. status # "absent"
  BY DEF RunStatus, Terminal
<1>4. ASSUME UNCHANGED checkpoint PROVE RunStep(status, checkpoint[Run].node)
  BY <1>1, <1>2, <1>3, <1>4 DEF RunStep, TypeOK, CheckpointTypeOK
<1>5. ASSUME Checkpoint(Run, node, ptr) PROVE RunStep(status, node)
  BY <1>1, <1>2, <1>3, <1>5, Checkpointed DEF RunStep, TypeOK
<1> QED BY <1>4, <1>5

LEMMA NodeWritten ==
    ASSUME TypeOK, NEW status \in RunStatus, NEW node \in Nodes, WriteNode(status, node),
           QueueUnchanged
    PROVE  RunStep(status, node)
<1>1. KeptPtr(status) \in Approvals \cup {None}
  BY RunTyped
<1> QED BY <1>1, Written DEF WriteNode

LEMMA CheckpointWritten ==
    ASSUME TypeOK, NEW node \in Nodes, NEW ptr \in Approvals \cup {None},
           Checkpoint(Run, node, ptr), UNCHANGED <<runs, locks>>, QueueUnchanged
    PROVE  RunStep(Status, node)
BY Checkpointed DEF RunStep, TypeOK, StoreTypeOK, SignedTypeOK, AppliedTypeOK,
       QueueUnchanged, Status

LEMMA RunFailed ==
    ASSUME TypeOK, NEW node \in Nodes, FailRun(node), QueueUnchanged
    PROVE  RunStep(Status, checkpoint[Run].node) \/ RunStep("failed", node)
<1>1. "failed" \in RunStatus
  BY DEF RunStatus, Terminal
<1> QED BY <1>1, NodeWritten, RunSame DEF FailRun

LEMMA RunEvolves ==
    ASSUME NEW status, NEW node, RunStep(status, node)
    PROVE  UNCHANGED durable => Evolves
BY DEF RunStep, Evolves, durable

\* A step that leaves the products of the run alone keeps the invariant if the run it
\* writes is vouched for.
LEMMA QuietStep ==
    ASSUME SpineInv, NEW d \in Drivers, Moves(d), DriverInv(d)',
           UNCHANGED <<durable, approvals>>, crashes' \in 0 .. MaxCrashes,
           NEW status, NEW node \in Nodes, RunStep(status, node), Vouched(node),
           status = "completed" => Status = "completed" \/ DoneBelow(25),
           status = "failed" =>
               Status = "failed" \/ approvals[PromotionApproval].status \in {"absent", "rejected"}
    PROVE  SpineInv'
<1>1. Evolves
  BY RunEvolves DEF durable
<1>2. SpineTypeOK'
  BY DEF SpineInv, SpineTypeOK, RunStep, Moves, DriverRow, durable
<1>3. \A e \in Drivers : DriverInv(e)'
  BY <1>1, OneDriverMoves DEF Moves
<1>4. LookupInv'
  BY <1>1, LookupStays DEF SpineInv, durable
<1>5. Status' = status /\ checkpoint'[Run].node = node
  BY DEF RunStep
<1>6. PromotionInv'
  BY <1>1, <1>5, PromotionStays DEF SpineInv, durable
<1>7. RunInv'
  <2>1. Vouched(node)'
    BY <1>1, FloorStays
  <2>2. DoneBelow(25) => DoneBelow(25)'
    BY <1>1, DoneBelowStays
  <2> QED BY <1>5, <2>1, <2>2 DEF SpineInv, RunInv
<1> QED BY <1>2, <1>3, <1>4, <1>6, <1>7 DEF SpineInv

\* So does one that leaves the run alone too.
LEMMA StillStep ==
    ASSUME SpineInv, NEW d \in Drivers, Moves(d), DriverInv(d)', UNCHANGED durable,
           RunUnchanged, QueueUnchanged, crashes' \in 0 .. MaxCrashes
    PROVE  SpineInv'
<1>1. RunStep(Status, checkpoint[Run].node)
  BY RunSame DEF SpineInv, SpineTypeOK
<1>2. checkpoint[Run].node \in Nodes /\ Vouched(checkpoint[Run].node)
  BY RunTyped DEF SpineInv, SpineTypeOK, RunInv
<1>3. UNCHANGED <<durable, approvals>>
  BY DEF QueueUnchanged
<1> QED BY <1>1, <1>2, <1>3, QuietStep

-------------------------------------------------------------------------------
(* Entering the run.                                                       *)

\* A process that is about to read or to begin the run, and has passed over nothing.
LEMMA Waits ==
    ASSUME SpineTypeOK, NEW d \in Drivers, NEW at \in {"begin", "dispatch", "floor"},
           NEW floor \in Nodes, FloorKept(floor), Evolves, Status' # "absent",
           NEW view \in Views \cup {None}, at = "dispatch" => view \in Views,
           GoTo(d, at, 0, floor, view)
    PROVE  Moves(d) /\ DriverInv(d)'
<1>1. /\ Moves(d)
      /\ drivers'[d].at = at /\ drivers'[d].floor = floor /\ drivers'[d].view = view
  BY Goes DEF Places
<1>2. FloorKept(floor)'
  BY FloorStays
<1> QED BY <1>1, <1>2 DEF DriverInv

LEMMA NoneFloor == FloorKept(None) /\ None \in Nodes /\ None \in Views \cup {None}
BY NowhereVouches DEF Vouched, Nodes

LEMMA ViewTyped ==
    ASSUME TypeOK, Status # "absent"
    PROVE  View \in Views /\ View.status = Status /\ Status \in RunStatus
BY RunTyped DEF View, Views, Status

LEMMA StartKeeps ==
    ASSUME SpineInv, NEW d \in Drivers, Start(d)
    PROVE  SpineInv'
<1>0. /\ SpineTypeOK /\ TypeOK /\ crashes' \in 0 .. MaxCrashes /\ UNCHANGED durable
      /\ Vouched(checkpoint[Run].node) /\ checkpoint[Run].node \in Nodes
  BY RunTyped DEF SpineInv, SpineTypeOK, RunInv, Start
<1>1. CASE StartRun(Run) /\ GoTo(d, "begin", 0, None, None)
  <2>1. /\ Status = "absent" /\ Status' = "queued" /\ checkpoint' = checkpoint
        /\ approvals' = approvals
    BY <1>0, <1>1, RunTyped DEF StartRun, CreateRun, Status, TypeOK, StoreTypeOK
  <2>2. TypeOK'
    BY <1>0, <1>1, RunTyped, TypePreserved DEF Next, DriveSteps
  <2>3. RunStep("queued", checkpoint[Run].node)
    BY <2>1, <2>2 DEF RunStep, Terminal
  <2>4. Evolves
    BY <1>0, <2>3, RunEvolves
  <2>5. Moves(d) /\ DriverInv(d)'
    BY <1>0, <1>1, <2>1, <2>4, Waits, NoneFloor
  <2> QED BY <1>0, <2>1, <2>3, <2>5, QuietStep
<1>2. CASE UNCHANGED vars /\ Status = "queued" /\ GoTo(d, "begin", 0, None, None)
  <2>1. RunStep(Status, checkpoint[Run].node) /\ RunUnchanged /\ QueueUnchanged
    BY <1>0, <1>2, AllSame
  <2>2. Evolves /\ Status' # "absent"
    BY <1>0, <1>2, <2>1, RunEvolves DEF RunStep
  <2>3. Moves(d) /\ DriverInv(d)'
    BY <1>0, <1>2, <2>2, Waits, NoneFloor
  <2> QED BY <1>0, <2>1, <2>3, StillStep
<1>3. CASE UNCHANGED vars /\ Status = "running" /\ GoTo(d, "script", After(0), None, Running)
  <2>1. RunStep(Status, checkpoint[Run].node) /\ RunUnchanged /\ QueueUnchanged
    BY <1>0, <1>3, AllSame
  <2>2. Evolves /\ Status' # "absent"
    BY <1>0, <1>3, <2>1, RunEvolves DEF RunStep
  <2>3. Moves(d) /\ DriverInv(d)'
    BY <1>0, <1>3, <2>2, Enters, NoneFloor
  <2> QED BY <1>0, <2>1, <2>3, StillStep
<1> QED BY <1>1, <1>2, <1>3 DEF Start

\* Setting the run to running, at its start or back to its checkpoint, and entering it.
LEMMA RunningKeeps ==
    ASSUME SpineInv, NEW d \in Drivers, NEW node \in Nodes, NEW floor \in Nodes,
           FloorKept(floor), UNCHANGED checkpoint, QueueUnchanged, UNCHANGED <<durable, crashes>>,
           \/ /\ SetRunStatus(approvals, Run, "running", node, None)
              /\ GoTo(d, "script", After(0), floor, Running)
           \/ UNCHANGED <<runs, locks>> /\ Leave(d)
    PROVE  SpineInv'
<1>0. /\ SpineTypeOK /\ TypeOK /\ crashes' \in 0 .. MaxCrashes /\ UNCHANGED <<durable, approvals>>
      /\ Vouched(checkpoint[Run].node) /\ checkpoint[Run].node \in Nodes
  BY RunTyped DEF SpineInv, SpineTypeOK, RunInv, QueueUnchanged, durable
<1>1. CASE /\ SetRunStatus(approvals, Run, "running", node, None)
           /\ GoTo(d, "script", After(0), floor, Running)
  <2>1. RunStep("running", checkpoint[Run].node)
    <3>1. "running" \in RunStatus
      BY DEF RunStatus
    <3> QED BY <1>0, <1>1, <3>1, Written
  <2>2. Evolves /\ Status' # "absent"
    BY <1>0, <2>1, RunEvolves DEF RunStep, durable
  <2>3. Moves(d) /\ DriverInv(d)'
    BY <1>0, <1>1, <2>2, Enters
  <2> QED BY <1>0, <2>1, <2>3, QuietStep
<1>2. CASE UNCHANGED <<runs, locks>> /\ Leave(d)
  <2>1. RunUnchanged /\ UNCHANGED durable
    BY <1>2 DEF RunUnchanged
  <2> QED BY <1>0, <1>2, <2>1, Leaves, StillStep
<1> QED BY <1>1, <1>2

LEMMA BeginKeeps ==
    ASSUME SpineInv, NEW d \in Drivers, Begin(d)
    PROVE  SpineInv'
<1>1. "run_started" \in Nodes
  BY DEF Nodes
<1> QED BY <1>1, NoneFloor, RunningKeeps DEF Begin

LEMMA SetFloorKeeps ==
    ASSUME SpineInv, NEW d \in Drivers, SetFloor(d)
    PROVE  SpineInv'
<1>1. FloorKept(drivers[d].floor) /\ drivers[d].floor \in Nodes
  BY DriverTyped DEF SpineInv, DriverInv
<1> QED BY <1>1, RunningKeeps DEF SetFloor

LEMMA ResumeKeeps ==
    ASSUME SpineInv, NEW d \in Drivers, Resume(d)
    PROVE  SpineInv'
<1>0. /\ SpineTypeOK /\ TypeOK /\ crashes' \in 0 .. MaxCrashes /\ UNCHANGED durable
      /\ UNCHANGED vars
  BY DEF SpineInv, SpineTypeOK, Resume
<1>1. RunStep(Status, checkpoint[Run].node) /\ RunUnchanged /\ QueueUnchanged
  BY <1>0, AllSame
<1>2. Status # "absent"
  BY DEF Resume
<1>3. Evolves /\ Status' # "absent"
  BY <1>0, <1>1, <1>2, RunEvolves DEF RunStep
<1>4. View \in Views
  BY <1>0, <1>2, ViewTyped
<1>5. Moves(d) /\ DriverInv(d)'
  BY <1>0, <1>3, <1>4, Waits, NoneFloor DEF Resume
<1> QED BY <1>0, <1>1, <1>5, StillStep

\* A process that leaves after what it wrote of the run.
LEMMA LeavingStep ==
    ASSUME SpineInv, NEW d \in Drivers, Leave(d), QueueUnchanged, UNCHANGED <<durable, crashes>>,
           NEW status, NEW node \in Nodes, RunStep(status, node), Vouched(node),
           status = "completed" => Status = "completed" \/ DoneBelow(25),
           status = "failed" =>
               Status = "failed" \/ approvals[PromotionApproval].status \in {"absent", "rejected"}
    PROVE  SpineInv'
<1>1. Moves(d) /\ DriverInv(d)'
  BY Leaves DEF SpineInv
<1>2. UNCHANGED <<durable, approvals>> /\ crashes' \in 0 .. MaxCrashes
  BY DEF QueueUnchanged, SpineInv, SpineTypeOK
<1> QED BY <1>1, <1>2, QuietStep

\* A process that leaves and writes nothing.
LEMMA LeavingStill ==
    ASSUME SpineInv, NEW d \in Drivers, Leave(d), RunUnchanged, QueueUnchanged,
           UNCHANGED durable, crashes' \in 0 .. MaxCrashes
    PROVE  SpineInv'
BY Leaves, StillStep DEF SpineInv

LEMMA FailingStep ==
    ASSUME SpineInv, NEW d \in Drivers, Leave(d), QueueUnchanged, UNCHANGED <<durable, crashes>>,
           NEW node \in {"approval_rejected", "capability_failed"}, FailRun(node),
           approvals[PromotionApproval].status \in {"absent", "rejected"}
    PROVE  SpineInv'
<1>0. /\ TypeOK /\ Vouched(checkpoint[Run].node) /\ checkpoint[Run].node \in Nodes
      /\ node \in Nodes /\ Vouched(node)
  BY RunTyped, NowhereVouches DEF SpineInv, SpineTypeOK, RunInv, Nodes
<1>1. RunStep(Status, checkpoint[Run].node) \/ RunStep("failed", node)
  BY <1>0, RunFailed
<1>2. CASE RunStep(Status, checkpoint[Run].node)
  BY <1>0, <1>2, LeavingStep
<1>3. CASE RunStep("failed", node)
  BY <1>0, <1>3, LeavingStep
<1> QED BY <1>1, <1>2, <1>3

\* A process that checkpoints the approval it waits for, and leaves.
LEMMA WaitingStep ==
    ASSUME SpineInv, NEW d \in Drivers, Leave(d), QueueUnchanged, UNCHANGED <<durable, crashes>>,
           DoneBelow(8), UNCHANGED <<runs, locks>>, NEW ptr \in Approvals \cup {None},
           Checkpoint(Run, "approval_requested", ptr)
    PROVE  SpineInv'
<1>1. TypeOK /\ "approval_requested" \in Nodes /\ Vouched("approval_requested")
  BY CallVouches DEF SpineInv, SpineTypeOK, Nodes
<1>2. RunStep(Status, "approval_requested")
  BY <1>1, CheckpointWritten
<1> QED BY <1>1, <1>2, LeavingStep

LEMMA PromotedPosition ==
    ASSUME SpineInv, approvals[PromotionApproval].status # "absent"
    PROVE  /\ ResumeDemo \in Kept /\ ResumeDemo \in 1..24
           /\ DoneBelow(ResumeDemo)
<1>1. DoneBelow(18) /\ candidate # "absent"
  BY DEF SpineInv, PromotionInv
<1>2. Done(18) /\ Done(19)
  <2>1. Script[18].do = "propose" /\ Script[19].do = "trace"
    BY StepKinds
  <2> QED BY <1>1, <2>1 DEF Done
<1>3. /\ ResumeDemo \in Kept
      /\ \A k \in Kept : k < ResumeDemo => k <= 19
  BY ResumeFromTrace, NextKept
<1>4. \A k \in Kept : k \in 1..24
  BY KeptSteps
<1>5. \A k \in Kept : k < ResumeDemo => Done(k)
  <2> SUFFICES ASSUME NEW k \in Kept, k < ResumeDemo PROVE Done(k)
    OBVIOUS
  <2>1. k < 18 \/ k = 18 \/ k = 19
    BY <1>3, <1>4
  <2> QED BY <2>1, <1>1, <1>2 DEF DoneBelow
<1> QED BY <1>3, <1>4, <1>5 DEF DoneBelow

LEMMA DispatchPromotionKeeps ==
    ASSUME SpineInv, NEW d \in Drivers, drivers[d].at = "dispatch", DispatchPromotion(d),
           approvals[PromotionApproval].status # "absent",
           QueueUnchanged, UNCHANGED <<durable, crashes>>
    PROVE  SpineInv'
<1> DEFINE verdict == approvals[PromotionApproval].status
<1>0. /\ SpineTypeOK /\ TypeOK /\ crashes' \in 0 .. MaxCrashes /\ UNCHANGED durable
      /\ drivers[d].view \in Views /\ Status # "absent"
  BY DEF SpineInv, SpineTypeOK, DriverInv
<1>1. DoneBelow(8)
  BY ApprovalVouches, SpineAssumption
<1>2. CASE verdict = "approved" /\ Status \in Terminal
  BY <1>0, <1>2, LeavingStill DEF DispatchPromotion
<1>3. CASE verdict = "approved" /\ Status \notin Terminal
  <2>1. GoTo(d, "script", ResumeDemo, None, View) /\ RunUnchanged
    BY <1>3 DEF DispatchPromotion
  <2>2. ResumeDemo \in Kept /\ ResumeDemo \in 1..24 /\ DoneBelow(ResumeDemo)
    BY PromotedPosition
  <2>3. View \in Views /\ View.status = Status
    BY <1>0, ViewTyped
  <2>4. /\ Moves(d)
        /\ drivers'[d].at = "script" /\ drivers'[d].pos = ResumeDemo
        /\ drivers'[d].floor = None /\ drivers'[d].view = View
    BY <1>0, <2>1, <2>2, <2>3, Goes, NoneFloor DEF Places
  <2>5. RunStep(Status, checkpoint[Run].node)
    BY <1>0, <2>1, RunSame
  <2>6. Evolves /\ Status' = Status
    BY <1>0, <2>5, RunEvolves DEF RunStep
  <2>7. DoneBelow(ResumeDemo)' /\ FloorKept(None)'
    <3>1. PICK i \in 1..24 : i = ResumeDemo
      BY <2>2
    <3>2. DoneBelow(i)'
      BY <2>2, <2>6, <3>1, DoneBelowStays
    <3> QED BY <2>6, <3>1, <3>2, FloorStays, NoneFloor
  <2>8. DriverInv(d)'
    BY <1>0, <1>3, <2>2, <2>3, <2>4, <2>6, <2>7 DEF DriverInv
  <2> QED BY <1>0, <2>1, <2>4, <2>8, StillStep
<1>4. CASE verdict = "rejected"
  BY <1>4, FailingStep DEF DispatchPromotion
<1>5. CASE verdict = "pending" /\ drivers[d].view.status = "running"
  <2>1. Leave(d)
    BY <1>5 DEF DispatchPromotion
  <2>2. \/ /\ SetRunStatus(approvals, Run, "suspended_approval", "approval_requested",
                            PromotionApproval)
           /\ Checkpoint(Run, "approval_requested", PromotionApproval)
        \/ RunUnchanged
    BY <1>5 DEF DispatchPromotion
  <2>3. CASE /\ SetRunStatus(approvals, Run, "suspended_approval", "approval_requested",
                            PromotionApproval)
             /\ Checkpoint(Run, "approval_requested", PromotionApproval)
    <3>1. /\ "suspended_approval" \in RunStatus /\ "approval_requested" \in Nodes
          /\ PromotionApproval \in Approvals \cup {None}
      BY SpineAssumption DEF RunStatus, Nodes
    <3>2. RunStep("suspended_approval", "approval_requested")
      BY <1>0, <2>3, <3>1, Written
    <3> QED BY <1>1, <2>1, <3>1, <3>2, LeavingStep, CallVouches
  <2>4. CASE RunUnchanged
    BY <1>0, <2>1, <2>4, LeavingStill
  <2> QED BY <2>2, <2>3, <2>4
<1>6. CASE verdict = "pending" /\ drivers[d].view.status # "running"
  <2>1. /\ Leave(d) /\ UNCHANGED <<runs, locks>>
        /\ Checkpoint(Run, "approval_requested", drivers[d].view.ptr)
    BY <1>6 DEF DispatchPromotion
  <2>2. drivers[d].view.ptr \in Approvals \cup {None}
    BY <1>0 DEF Views
  <2> QED BY <1>1, <2>1, <2>2, WaitingStep
<1> QED BY <1>2, <1>3, <1>4, <1>5, <1>6 DEF DispatchPromotion

\* A process that enters at the approved call.
LEMMA EntersAtCall ==
    ASSUME SpineInv, NEW d \in Drivers, approvals[LookupApproval].status # "absent",
           GoTo(d, "script", 0, "capability_called", None),
           RunUnchanged, QueueUnchanged, UNCHANGED <<durable, crashes>>
    PROVE  SpineInv'
<1>0. /\ SpineTypeOK /\ TypeOK /\ crashes' \in 0 .. MaxCrashes /\ UNCHANGED durable
  BY DEF SpineInv, SpineTypeOK
<1>1. DoneBelow(8) /\ lookup.decided /\ Status # "absent"
  BY ApprovalVouches, SpineAssumption DEF SpineInv, LookupInv
<1>2. FloorKept("capability_called") /\ "capability_called" \in Nodes
  BY <1>1, CallVouches DEF Nodes
<1>3. /\ Moves(d)
      /\ drivers'[d].at = "script" /\ drivers'[d].pos = 0
      /\ drivers'[d].floor = "capability_called" /\ drivers'[d].view = None
  BY <1>0, <1>2, Goes, NoneFloor DEF Places
<1>4. RunStep(Status, checkpoint[Run].node)
  BY <1>0, RunSame
<1>5. Evolves /\ Status' = Status /\ lookup' = lookup
  BY <1>0, <1>4, RunEvolves DEF RunStep, durable
<1>6. FloorKept("capability_called")' /\ DoneBelow(0)'
  <2>1. \A k \in Kept : k \in 1..24
    BY KeptSteps
  <2> QED BY <1>2, <1>5, <2>1, FloorStays DEF DoneBelow
<1>7. DriverInv(d)'
  BY <1>1, <1>3, <1>5, <1>6 DEF DriverInv
<1> QED BY <1>0, <1>3, <1>7, StillStep

LEMMA ResumeLookupKeeps ==
    ASSUME SpineInv, NEW d \in Drivers, ResumeLookup(d)
    PROVE  SpineInv'
<1>1. RunUnchanged /\ QueueUnchanged
  BY AllSame DEF SpineInv, SpineTypeOK, ResumeLookup
<1> QED BY <1>1, EntersAtCall DEF ResumeLookup

LEMMA DispatchLookupKeeps ==
    ASSUME SpineInv, NEW d \in Drivers, drivers[d].at = "dispatch", DispatchLookup(d),
           approvals[PromotionApproval].status = "absent",
           QueueUnchanged, UNCHANGED <<durable, crashes>>
    PROVE  SpineInv'
<1> DEFINE view == drivers[d].view
           verdict == approvals[LookupApproval].status
           floor == checkpoint[Run].node
<1>0. /\ SpineTypeOK /\ TypeOK /\ crashes' \in 0 .. MaxCrashes /\ UNCHANGED durable
      /\ view \in Views /\ Status # "absent"
      /\ Vouched(floor) /\ floor \in Nodes /\ FloorKept(floor)
  BY RunTyped DEF SpineInv, SpineTypeOK, DriverInv, RunInv, Vouched
<1>1. CASE view.status = "running" /\ RunUnchanged
  <2>1. RunStep(Status, floor)
    BY <1>0, <1>1, RunSame
  <2>2. Evolves /\ Status' # "absent"
    BY <1>0, <2>1, RunEvolves DEF RunStep
  <2>3. CASE GoTo(d, "script", After(0), None, Running)
    BY <1>0, <1>1, <2>2, <2>3, Enters, NoneFloor, StillStep
  <2>4. CASE GoTo(d, "floor", 0, floor, None)
    <3>1. Moves(d) /\ DriverInv(d)'
      BY <1>0, <2>2, <2>4, Waits, NoneFloor
    <3> QED BY <1>0, <1>1, <3>1, StillStep
  <2> QED BY <1>1, <2>3, <2>4 DEF DispatchLookup
<1>2. CASE verdict = "approved" /\ GoTo(d, "script", 0, "capability_called", None) /\ RunUnchanged
  BY <1>2, EntersAtCall
<1>3. CASE FailRun("approval_rejected") /\ Leave(d)
  BY <1>3, FailingStep
<1>4. CASE /\ verdict = "pending" /\ Leave(d) /\ UNCHANGED <<runs, locks>>
           /\ Checkpoint(Run, "approval_requested", view.ptr)
  <2>1. view.ptr \in Approvals \cup {None}
    BY <1>0 DEF Views
  <2>2. DoneBelow(8)
    BY <1>4, ApprovalVouches, SpineAssumption
  <2> QED BY <1>4, <2>1, <2>2, WaitingStep
<1>5. \/ view.status = "running" /\ RunUnchanged
      \/ verdict = "approved" /\ GoTo(d, "script", 0, "capability_called", None) /\ RunUnchanged
      \/ FailRun("approval_rejected") /\ Leave(d)
      \/ /\ verdict = "pending" /\ Leave(d) /\ UNCHANGED <<runs, locks>>
         /\ Checkpoint(Run, "approval_requested", view.ptr)
  BY DEF DispatchLookup
<1> QED BY <1>1, <1>2, <1>3, <1>4, <1>5

LEMMA DispatchKeeps ==
    ASSUME SpineInv, NEW d \in Drivers, Dispatch(d)
    PROVE  SpineInv'
BY DispatchPromotionKeeps, DispatchLookupKeeps DEF Dispatch

LEMMA CrashKeeps ==
    ASSUME SpineInv, NEW d \in Drivers, Crash(d)
    PROVE  SpineInv'
<1>1. RunUnchanged /\ QueueUnchanged /\ UNCHANGED durable
  BY AllSame DEF SpineInv, SpineTypeOK, Crash
<1>2. crashes' \in 0 .. MaxCrashes
  BY SpineAssumption DEF SpineInv, SpineTypeOK, Crash
<1> QED BY <1>1, <1>2, LeavingStill DEF Crash

-------------------------------------------------------------------------------
(* The steps of the script.                                                *)

LEMMA ReadRunKeeps ==
    ASSUME SpineInv, NEW d \in Drivers, ReadRun(d)
    PROVE  SpineInv'
<1>0. /\ SpineTypeOK /\ TypeOK /\ crashes' \in 0 .. MaxCrashes /\ UNCHANGED durable
      /\ DriverInv(d)
  BY DEF SpineInv, SpineTypeOK, ReadRun
<1>1. RunStep(Status, checkpoint[Run].node) /\ RunUnchanged /\ QueueUnchanged
  BY <1>0, AllSame DEF ReadRun
<1>2. Evolves /\ Status' = Status
  BY <1>0, <1>1, RunEvolves DEF RunStep
<1>3. View \in Views /\ View.status = Status
  BY <1>0, ViewTyped, Stands DEF ReadRun
<1>4. /\ drivers' = [drivers EXCEPT ![d] = drivers'[d]]
      /\ drivers'[d] = [drivers[d] EXCEPT !.view = View]
  BY <1>0, DriverTyped DEF ReadRun
<1>5. /\ Moves(d)
      /\ drivers'[d].at = drivers[d].at /\ drivers'[d].pos = drivers[d].pos
      /\ drivers'[d].floor = drivers[d].floor /\ drivers'[d].view = View
  <2>1. drivers'[d] \in DriverRow
    BY <1>0, <1>3, <1>4, DriverTyped DEF DriverRow
  <2> QED BY <1>0, <1>4, <2>1, DriverTyped DEF Moves, DriverRow
<1>6. PICK i, floor : i = drivers[d].pos /\ floor = drivers[d].floor
  OBVIOUS
<1>7. DoneBelow(i)' /\ FloorKept(floor)' /\ i \in {0} \cup Kept
  BY <1>0, <1>2, <1>6, DoneBelowStays, FloorStays DEF DriverInv, ReadRun
<1>8. /\ drivers[d].at = "script" /\ Status # "absent"
      /\ drivers[d].pos = 0 => lookup.decided
  BY <1>0 DEF DriverInv, ReadRun
<1>9. DriverInv(d)'
  BY <1>0, <1>2, <1>3, <1>5, <1>6, <1>7, <1>8 DEF DriverInv, durable
<1> QED BY <1>0, <1>1, <1>5, <1>9, StillStep

LEMMA EnsureTraceKeeps ==
    ASSUME SpineInv, NEW d \in Drivers, EnsureTrace(d)
    PROVE  SpineInv'
<1>1. drivers[d].pos = 19 /\ DoneBelow(19)
  BY Stands, StandsAt DEF EnsureTrace, At
<1>2. DoneBelow(8)
  BY <1>1, LowerBelow
<1>3. drivers[d].view \in Views
  BY DriverTyped DEF EnsureTrace, At, WritesRun, SpineInv
<1>4. drivers[d].view.ptr \in Approvals \cup {None}
  BY <1>3 DEF Views
<1> QED BY <1>2, <1>4, WaitingStep DEF EnsureTrace

\* A process that writes the run from what it read writes what the run says, if it is over.
LEMMA ReadView ==
    ASSUME SpineInv, NEW d \in Drivers, drivers[d].at \in {"script", "awaiting"},
           drivers[d].view # None
    PROVE  /\ drivers[d].view.status \in RunStatus
           /\ drivers[d].view.status \in Terminal => drivers[d].view.status = Status
<1>1. drivers[d].view \in Views
  BY DriverTyped DEF SpineInv
<1> QED BY <1>1 DEF SpineInv, DriverInv, Views

LEMMA AdvancingStill ==
    ASSUME SpineInv, NEW d \in Drivers, drivers[d].at \in {"script", "awaiting"},
           NEW i \in 0..23, i = drivers[d].pos, i # 0 => Done(i), Advance(d),
           RunUnchanged, QueueUnchanged, UNCHANGED <<durable, crashes>>
    PROVE  SpineInv'
<1>0. TypeOK /\ crashes' \in 0 .. MaxCrashes /\ UNCHANGED durable
  BY DEF SpineInv, SpineTypeOK
<1>1. RunStep(Status, checkpoint[Run].node)
  BY <1>0, RunSame
<1>2. Evolves
  BY <1>0, <1>1, RunEvolves
<1>3. i # 0 => Done(i)'
  <2>1. i # 0 => i \in Kept
    BY Stands
  <2> QED BY <1>2, <2>1, DoneStays
<1>4. Moves(d) /\ DriverInv(d)'
  BY <1>2, <1>3, Advances
<1> QED BY <1>0, <1>4, StillStep

LEMMA CheckpointNodeKeeps ==
    ASSUME SpineInv, NEW d \in Drivers, CheckpointNode(d)
    PROVE  SpineInv'
<1>0. /\ TypeOK /\ QueueUnchanged /\ UNCHANGED <<durable, crashes>>
      /\ drivers[d].at = "script" /\ Step(d).do = "mark" /\ drivers[d].view # None
  BY DEF SpineInv, SpineTypeOK, CheckpointNode, At, WritesRun
<1>1. PICK i \in Kept : /\ i = drivers[d].pos /\ Step(d) = Script[i] /\ Script[i].do = "mark"
                        /\ DoneBelow(i)
  <2>1. drivers[d].pos \in Kept /\ Step(d) = Script[drivers[d].pos] /\ DoneBelow(drivers[d].pos)
    BY <1>0, Stands, StandsAt
  <2> QED BY <1>0, <2>1
<1>2. i \in 0..23 /\ i # 0
  <2>1. i \in 1..24 /\ i # 24
    BY <1>1, KeptSteps, StepKinds
  <2> QED BY <2>1
<1>3. Done(i) /\ Done(i)'
  BY <1>1 DEF Done
<1>4. CASE Advance(d) /\ RunUnchanged
  BY <1>0, <1>1, <1>2, <1>3, <1>4, AdvancingStill
<1>5. CASE WriteNode(drivers[d].view.status, Step(d).what) /\ Advance(d)
  <2> DEFINE status == drivers[d].view.status
             node == Step(d).what
  <2>1. status \in RunStatus /\ (status \in Terminal => status = Status)
    BY <1>0, ReadView
  <2>2. node \in Nodes /\ Vouched(node)
    BY <1>1, <1>2, StepKinds, StepVouches
  <2>3. RunStep(status, node)
    BY <1>0, <1>5, <2>1, <2>2, NodeWritten
  <2>4. Evolves
    BY <1>0, <2>3, RunEvolves
  <2>5. Moves(d) /\ DriverInv(d)'
    BY <1>0, <1>1, <1>2, <1>3, <1>5, <2>4, Advances
  <2>6. UNCHANGED <<durable, approvals>> /\ crashes' \in 0 .. MaxCrashes
    BY <1>0 DEF QueueUnchanged, SpineInv, SpineTypeOK
  <2>7. /\ status = "completed" => Status = "completed"
        /\ status = "failed" => Status = "failed"
    BY <2>1 DEF Terminal
  <2> HIDE DEF status, node
  <2> QED BY <2>2, <2>3, <2>5, <2>6, <2>7, QuietStep
<1>6. CASE Leave(d) /\ RunUnchanged
  <2>1. UNCHANGED durable /\ crashes' \in 0 .. MaxCrashes
    BY <1>0 DEF SpineInv, SpineTypeOK
  <2> QED BY <1>0, <1>6, <2>1, LeavingStill
<1> QED BY <1>4, <1>5, <1>6 DEF CheckpointNode

LEMMA CompleteDemoRunKeeps ==
    ASSUME SpineInv, NEW d \in Drivers, CompleteDemoRun(d)
    PROVE  SpineInv'
<1>0. /\ TypeOK /\ QueueUnchanged /\ UNCHANGED <<durable, crashes>> /\ Leave(d)
  BY DEF SpineInv, SpineTypeOK, CompleteDemoRun
<1>1. drivers[d].pos = 24 /\ DoneBelow(24)
  BY Stands, StandsAt DEF CompleteDemoRun, At
<1>2. DoneBelow(23)
  BY <1>1, LowerBelow
<1>3. DoneBelow(25)
  <2>1. Done(24)
    <3>1. Script[24].do = "complete"
      BY StepKinds
    <3> QED BY <3>1 DEF Done
  <2>2. ASSUME NEW k \in Kept, k < 25 PROVE k = 24 \/ k < 24
    BY <2>2, KeptSteps
  <2> QED BY <1>1, <2>1, <2>2 DEF DoneBelow
<1>4. CASE WriteNode("completed", "run_completed")
  <2>1. "completed" \in RunStatus /\ "run_completed" \in Nodes
    BY DEF RunStatus, Terminal, Nodes
  <2>2. RunStep("completed", "run_completed")
    BY <1>0, <1>4, <2>1, NodeWritten
  <2> QED BY <1>0, <1>2, <1>3, <2>1, <2>2, EndVouches, LeavingStep
<1>5. CASE RunUnchanged
  <2>1. UNCHANGED durable /\ crashes' \in 0 .. MaxCrashes
    BY <1>0 DEF SpineInv, SpineTypeOK
  <2> QED BY <1>0, <1>5, <2>1, LeavingStill
<1> QED BY <1>4, <1>5 DEF CompleteDemoRun

\* A step that makes something keeps the invariant if what it makes is in its place.
LEMMA MakingStep ==
    ASSUME SpineInv, NEW d \in Drivers, Moves(d), DriverInv(d)', Evolves,
           NEW status, NEW node \in Nodes, RunStep(status, node), Vouched(node),
           status = "completed" => Status = "completed",
           recorded' \subseteq RecordedNodes,
           products' \subseteq Products \cup {"collective", "work_done"},
           lookup' \in Call, LookupInv',
           candidate' \in {"absent", "pending", "ratified", "rejected"}, PromotionInv',
           crashes' = crashes
    PROVE  SpineInv'
<1>1. SpineTypeOK'
  BY DEF SpineInv, SpineTypeOK, RunStep, Moves, DriverRow
<1>2. \A e \in Drivers : DriverInv(e)'
  BY OneDriverMoves DEF Moves
<1>3. Status' = status /\ checkpoint'[Run].node = node
  BY DEF RunStep
<1>4. RunInv'
  <2>1. Vouched(node)'
    BY FloorStays
  <2>2. DoneBelow(25) => DoneBelow(25)'
    BY DoneBelowStays
  <2> QED BY <1>3, <2>1, <2>2 DEF SpineInv, RunInv
<1> QED BY <1>1, <1>2, <1>4 DEF SpineInv

LEMMA RecordNodeKeeps ==
    ASSUME SpineInv, NEW d \in Drivers, RecordNode(d)
    PROVE  SpineInv'
<1>0. /\ TypeOK /\ QueueUnchanged /\ UNCHANGED <<products, lookup, candidate, crashes>>
      /\ drivers[d].at = "script" /\ Step(d).do = "record" /\ drivers[d].view # None
  BY DEF SpineInv, SpineTypeOK, RecordNode, At, WritesRun
<1>1. PICK i \in Kept : /\ i = drivers[d].pos /\ Step(d) = Script[i] /\ Script[i].do = "record"
                        /\ DoneBelow(i)
  <2>1. drivers[d].pos \in Kept /\ Step(d) = Script[drivers[d].pos] /\ DoneBelow(drivers[d].pos)
    BY <1>0, Stands, StandsAt
  <2> QED BY <1>0, <2>1
<1>2. i \in 0..23 /\ i # 0
  <2>1. i \in 1..24 /\ i # 24
    BY <1>1, KeptSteps, StepKinds
  <2> QED BY <2>1
<1>3. CASE /\ Step(d).what \in recorded /\ Advance(d) /\ RunUnchanged /\ UNCHANGED recorded
  <2>1. Done(i)
    BY <1>1, <1>3 DEF Done
  <2>2. UNCHANGED <<durable, crashes>>
    BY <1>0, <1>3 DEF durable
  <2> QED BY <1>0, <1>1, <1>2, <1>3, <2>1, <2>2, AdvancingStill
<1>4. CASE /\ WriteNode(drivers[d].view.status, Step(d).what)
           /\ recorded' = recorded \cup {Step(d).what} /\ Advance(d)
  <2> DEFINE status == drivers[d].view.status
             node == Step(d).what
  <2>1. status \in RunStatus /\ (status \in Terminal => status = Status)
    BY <1>0, ReadView
  <2>2. node \in Nodes /\ Vouched(node)
    BY <1>1, <1>2, StepKinds, StepVouches
  <2>3. RunStep(status, node)
    BY <1>0, <1>4, <2>1, <2>2, NodeWritten
  <2>4. Evolves
    BY <1>0, <1>4, <2>3 DEF Evolves, RunStep
  <2>5. Done(i)'
    BY <1>1, <1>4 DEF Done
  <2>6. Moves(d) /\ DriverInv(d)'
    BY <1>0, <1>1, <1>2, <1>4, <2>4, <2>5, Advances
  <2>7. /\ status = "completed" => Status = "completed"
        /\ status = "failed" => Status = "failed"
    BY <2>1 DEF Terminal
  <2>8. recorded' \subseteq RecordedNodes
    BY <1>1, <1>4 DEF RecordedNodes, SpineInv, SpineTypeOK
  <2>9. /\ products' \subseteq Products \cup {"collective", "work_done"}
        /\ candidate' \in {"absent", "pending", "ratified", "rejected"} /\ lookup' \in Call
        /\ approvals' = approvals
    BY <1>0 DEF SpineInv, SpineTypeOK, QueueUnchanged
  <2>10. LookupInv'
    BY <1>0, <2>4, <2>9, LookupStays DEF SpineInv
  <2>11. Status' = status
    BY <2>3 DEF RunStep
  <2>12. PromotionInv'
    BY <1>0, <2>4, <2>7, <2>9, <2>11, PromotionStays DEF SpineInv
  <2> HIDE DEF status, node
  <2> QED BY <1>0, <2>2, <2>3, <2>4, <2>6, <2>7, <2>8, <2>9, <2>10, <2>12, MakingStep
<1>5. CASE Leave(d) /\ RunUnchanged /\ UNCHANGED recorded
  <2>1. UNCHANGED durable /\ crashes' \in 0 .. MaxCrashes
    BY <1>0, <1>5 DEF SpineInv, SpineTypeOK, durable
  <2> QED BY <1>0, <1>5, <2>1, LeavingStill
<1> QED BY <1>3, <1>4, <1>5 DEF RecordNode

LEMMA MakeProductKeeps ==
    ASSUME SpineInv, NEW d \in Drivers, MakeProduct(d)
    PROVE  SpineInv'
<1>0. /\ TypeOK /\ UNCHANGED <<vars, recorded, lookup, candidate, crashes>> /\ Advance(d)
      /\ drivers[d].at = "script" /\ Step(d).do = "make"
      /\ products' = products \cup {Step(d).what}
      /\ Vouched(checkpoint[Run].node) /\ checkpoint[Run].node \in Nodes
  BY RunTyped DEF SpineInv, SpineTypeOK, MakeProduct, At, RunInv
<1>1. PICK i \in Kept : i = drivers[d].pos /\ Step(d) = Script[i] /\ Script[i].do = "make"
  <2>1. drivers[d].pos \in Kept /\ Step(d) = Script[drivers[d].pos]
    BY <1>0, Stands, StandsAt
  <2> QED BY <1>0, <2>1
<1>2. i \in 0..23 /\ i # 0 /\ Step(d).what \notin {"collective", "work_done"}
  <2>1. i \in 1..24 /\ i # 24 /\ Script[i].what \notin {"collective", "work_done"}
    BY <1>1, KeptSteps, StepKinds
  <2> QED BY <1>1, <2>1
<1>3. RunStep(Status, checkpoint[Run].node) /\ QueueUnchanged
  BY <1>0, AllSame
<1>4. Evolves
  BY <1>0, <1>3 DEF Evolves, RunStep
<1>5. Done(i)'
  BY <1>0, <1>1 DEF Done
<1>6. Moves(d) /\ DriverInv(d)'
  BY <1>0, <1>1, <1>2, <1>4, <1>5, Advances
<1>7. Step(d).what \in Products
  BY <1>1 DEF Products
<1>8. /\ recorded' \subseteq RecordedNodes
      /\ products' \subseteq Products \cup {"collective", "work_done"}
      /\ candidate' \in {"absent", "pending", "ratified", "rejected"} /\ lookup' \in Call
      /\ approvals' = approvals
  BY <1>0, <1>3, <1>7 DEF SpineInv, SpineTypeOK, QueueUnchanged
<1>9. LookupInv'
  BY <1>0, <1>4, <1>8, LookupStays DEF SpineInv
<1>10. Status' = Status
  BY <1>3 DEF RunStep
<1>11. products' \cap {"collective", "work_done"} \subseteq products
  BY <1>0, <1>2
<1>12. PromotionInv'
  BY <1>0, <1>4, <1>8, <1>10, <1>11, PromotionStays DEF SpineInv
<1> QED BY <1>0, <1>3, <1>4, <1>6, <1>8, <1>9, <1>12, MakingStep

\* The conclusion of the call: its outcome is recorded once, and a call that did not
\* succeed fails a run whose promotion was never asked for.
LEMMA ConcludeKeeps ==
    ASSUME SpineInv, NEW d \in Drivers, drivers[d].at \in {"script", "awaiting"},
           Step(d).do = "invoke", NEW outcome \in {"ok", "failed", "blocked"},
           Conclude(d, outcome), UNCHANGED <<recorded, products, candidate, crashes>>,
           lookup.outcome \in {"none", outcome},
           outcome = "ok" => /\ lookup.decided
                             /\ approvals[LookupApproval].status \in {"absent", "approved"}
    PROVE  SpineInv'
<1>0. /\ TypeOK /\ QueueUnchanged /\ approvals' = approvals /\ lookup \in Call
      /\ Vouched(checkpoint[Run].node) /\ checkpoint[Run].node \in Nodes
      /\ recorded' \subseteq RecordedNodes
      /\ products' \subseteq Products \cup {"collective", "work_done"}
      /\ candidate' \in {"absent", "pending", "ratified", "rejected"}
  BY RunTyped DEF SpineInv, SpineTypeOK, RunInv, Conclude, QueueUnchanged
<1>1. /\ lookup' \in Call /\ lookup'.outcome = outcome
      /\ lookup'.decided = lookup.decided /\ lookup'.intended = lookup.intended
  BY <1>0 DEF Conclude, Call
<1>2. CASE outcome = "ok"
  <2>1. RunUnchanged /\ Advance(d)
    BY <1>2 DEF Conclude
  <2>2. RunStep(Status, checkpoint[Run].node)
    BY <1>0, <2>1, RunSame
  <2>3. Evolves
    BY <1>1, <1>2, <2>2 DEF Evolves, RunStep
  <2>4. PICK i \in {0, 8} : i = drivers[d].pos
    BY StandsAt
  <2>5. i \in 0..23 /\ (i # 0 => Done(i)')
    <3>1. Script[8].do = "invoke"
      BY StepKinds
    <3> QED BY <1>1, <1>2, <3>1 DEF Done
  <2>6. Moves(d) /\ DriverInv(d)'
    BY <2>1, <2>3, <2>4, <2>5, Advances
  <2>7. LookupInv'
    <3>1. DoneBelow(8) => DoneBelow(8)'
      BY <2>3, DoneBelowStays
    <3> QED BY <1>0, <1>1, <1>2, <2>3, <3>1 DEF SpineInv, LookupInv, Evolves
  <2>8. Status' = Status
    BY <2>2 DEF RunStep
  <2>9. PromotionInv'
    BY <1>0, <2>3, <2>8, PromotionStays DEF SpineInv
  <2> QED BY <1>0, <1>1, <2>2, <2>3, <2>6, <2>7, <2>9, MakingStep
<1>3. CASE outcome # "ok"
  <2>1. Leave(d) /\ FailRun("capability_failed")
    BY <1>3 DEF Conclude
  <2>2. lookup.outcome # "ok" /\ approvals[PromotionApproval].status = "absent"
    BY <1>3, ProposedAfterCall
  <2>3. "capability_failed" \in Nodes /\ Vouched("capability_failed")
    BY NowhereVouches DEF Nodes
  <2>4. PICK status \in {Status, "failed"}, node \in {checkpoint[Run].node, "capability_failed"} :
            RunStep(status, node)
    BY <1>0, <2>1, <2>3, RunFailed
  <2>5. Evolves /\ Status' = status /\ (status = "completed" => Status = "completed")
        /\ node \in Nodes /\ Vouched(node)
    <3>1. Evolves
      BY <1>1, <2>2, <2>4 DEF Evolves, RunStep
    <3>2. Status' = status
      BY <2>4 DEF RunStep
    <3> QED BY <1>0, <2>3, <2>4, <3>1, <3>2
  <2>6. Moves(d) /\ DriverInv(d)'
    BY <2>1, Leaves DEF SpineInv
  <2>7. LookupInv'
    BY <1>0, <1>1, <1>3, <2>5, LookupStays DEF SpineInv
  <2>8. PromotionInv'
    BY <1>0, <2>2, <2>5, PromotionStays DEF SpineInv
  <2> QED BY <1>0, <1>1, <2>4, <2>5, <2>6, <2>7, <2>8, MakingStep
<1> QED BY <1>2, <1>3

LEMMA AnswerKeeps ==
    ASSUME SpineInv, NEW d \in Drivers, Answer(d)
    PROVE  SpineInv'
<1>1. drivers[d].at = "awaiting" /\ lookup.intended /\ Step(d).do = "invoke"
  BY DEF Answer, SpineInv, DriverInv
<1>2. CASE lookup.outcome = "none" /\ Conclude(d, "ok")
  <2>1. lookup.decided /\ approvals[LookupApproval].status \in {"absent", "approved"}
    BY <1>1 DEF SpineInv, LookupInv
  <2> QED BY <1>1, <1>2, <2>1, ConcludeKeeps DEF Answer
<1>3. CASE Leave(d) /\ UNCHANGED <<vars, lookup>>
  <2>1. RunUnchanged /\ QueueUnchanged /\ UNCHANGED durable /\ crashes' \in 0 .. MaxCrashes
    BY <1>3, AllSame DEF Answer, durable, SpineInv, SpineTypeOK
  <2> QED BY <1>3, <2>1, LeavingStill
<1> QED BY <1>2, <1>3 DEF Answer

\* A request suspends the running run on a new approval and checkpoints it.
LEMMA Requested ==
    ASSUME TypeOK, NEW a \in Approvals, NEW t \in Targets, NEW q \in Principals,
           RequestForRun(a, Run, t, q, "fail_run")
    PROVE  /\ RunStep("suspended_approval", "approval_requested")
           /\ Status = "running"
           /\ approvals[a].status = "absent" /\ approvals'[a].status = "pending"
           /\ \A b \in Approvals \ {a} : approvals'[b] = approvals[b]
<1>1. Run \in Runs
  BY SpineAssumption
<1>2. TypeOK'
  BY <1>1, TypePreserved DEF Next, RequestSteps
<1>3. Status = "running" /\ Status' = "suspended_approval"
  BY <1>1, RunMoved DEF RequestForRun, Status
<1>4. checkpoint'[Run].node = "approval_requested"
  BY <1>1 DEF RequestForRun, Checkpoint, TypeOK, CheckpointTypeOK
<1>5. /\ approvals[a].status = "absent" /\ approvals'[a].status = "pending"
      /\ \A b \in Approvals \ {a} : approvals'[b] = approvals[b]
  BY DEF RequestForRun, NewRequest, TypeOK, StoreTypeOK
<1> QED BY <1>2, <1>3, <1>4, <1>5 DEF RunStep, Terminal

\* A process at the call that writes nothing, and goes.
LEMMA LeavesTheCall ==
    ASSUME SpineInv, NEW d \in Drivers, Leave(d), UNCHANGED <<vars, lookup>>,
           UNCHANGED <<recorded, products, candidate, crashes>>
    PROVE  SpineInv'
<1>1. RunUnchanged /\ QueueUnchanged /\ UNCHANGED durable /\ crashes' \in 0 .. MaxCrashes
  BY AllSame DEF durable, SpineInv, SpineTypeOK
<1> QED BY <1>1, LeavingStill

LEMMA InvokeDecidedKeeps ==
    ASSUME SpineInv, NEW d \in Drivers, At(d, "invoke"), InvokeDecided(d),
           UNCHANGED <<recorded, products, candidate, crashes>>
    PROVE  SpineInv'
<1>0. drivers[d].at = "script" /\ Step(d).do = "invoke" /\ lookup \in Call
  BY DEF At, SpineInv, SpineTypeOK
<1>1. CASE lookup.outcome # "none" /\ Conclude(d, lookup.outcome)
  <2>1. lookup.outcome \in {"ok", "failed", "blocked"}
    BY <1>0, <1>1 DEF Call
  <2>2. lookup.outcome = "ok" =>
            lookup.decided /\ approvals[LookupApproval].status \in {"absent", "approved"}
    BY DEF SpineInv, LookupInv
  <2> QED BY <1>0, <1>1, <2>1, <2>2, ConcludeKeeps
<1>2. CASE lookup.outcome = "none" /\ Conclude(d, "blocked")
  BY <1>0, <1>2, ConcludeKeeps
<1>3. CASE Leave(d) /\ UNCHANGED <<vars, lookup>>
  BY <1>3, LeavesTheCall
<1> QED BY <1>1, <1>2, <1>3 DEF InvokeDecided

LEMMA InvokePermittedKeeps ==
    ASSUME SpineInv, NEW d \in Drivers, At(d, "invoke"), InvokePermitted(d),
           UNCHANGED <<recorded, products, candidate, crashes>>
    PROVE  SpineInv'
<1>0. /\ drivers[d].at = "script" /\ Step(d).do = "invoke" /\ lookup \in Call
      /\ lookup.outcome = "none" /\ lookup.decided
      /\ approvals[LookupApproval].status \in {"absent", "approved"}
      /\ TypeOK /\ SpineTypeOK /\ DriverInv(d)
      /\ Vouched(checkpoint[Run].node) /\ checkpoint[Run].node \in Nodes
  BY RunTyped DEF At, SpineInv, SpineTypeOK, InvokePermitted, RunInv
<1>1. CASE Leave(d) /\ UNCHANGED <<vars, lookup>>
  BY <1>1, LeavesTheCall
<1>2. CASE Conclude(d, "failed")
  BY <1>0, <1>2, ConcludeKeeps
<1>3. CASE /\ lookup' = [lookup EXCEPT !.intended = TRUE]
           /\ drivers' = [drivers EXCEPT ![d].at = "awaiting"]
           /\ UNCHANGED vars
  <2>1. /\ lookup' \in Call /\ lookup'.intended
        /\ lookup'.decided = lookup.decided /\ lookup'.outcome = lookup.outcome
    BY <1>0, <1>3 DEF Call
  <2>2. RunStep(Status, checkpoint[Run].node) /\ QueueUnchanged
    BY <1>0, <1>3, AllSame
  <2>3. Evolves /\ Status' = Status /\ approvals' = approvals
    BY <2>1, <2>2 DEF Evolves, RunStep, QueueUnchanged
  <2>4. /\ drivers' = [drivers EXCEPT ![d] = drivers'[d]]
        /\ drivers'[d] = [drivers[d] EXCEPT !.at = "awaiting"]
    BY <1>0, <1>3, DriverTyped
  <2>5. /\ Moves(d)
        /\ drivers'[d].at = "awaiting" /\ drivers'[d].pos = drivers[d].pos
        /\ drivers'[d].floor = drivers[d].floor /\ drivers'[d].view = drivers[d].view
    <3>1. drivers'[d] \in DriverRow
      BY <1>0, <2>4, DriverTyped DEF DriverRow, Places
    <3> QED BY <1>0, <2>4, <3>1, DriverTyped DEF Moves, DriverRow
  <2>6. PICK i, floor, view : /\ i = drivers[d].pos /\ floor = drivers[d].floor
                              /\ view = drivers[d].view
    OBVIOUS
  <2>7. DoneBelow(i)' /\ FloorKept(floor)' /\ i \in {0} \cup Kept
    BY <1>0, <2>3, <2>6, DoneBelowStays, FloorStays DEF DriverInv
  <2>8. /\ Status # "absent" /\ lookup.decided /\ Step(d)' = Step(d)
        /\ (view # None /\ view.status \in Terminal) => view.status = Status
    BY <1>0, <2>5, <2>6 DEF DriverInv, Step
  <2>9. DriverInv(d)'
    BY <1>0, <2>1, <2>3, <2>5, <2>6, <2>7, <2>8 DEF DriverInv
  <2>10. LookupInv'
    <3>1. DoneBelow(8) => DoneBelow(8)'
      BY <2>3, DoneBelowStays
    <3> QED BY <1>0, <2>1, <2>3, <3>1 DEF SpineInv, LookupInv
  <2>11. PromotionInv'
    BY <2>3, PromotionStays DEF SpineInv
  <2>12. /\ recorded' \subseteq RecordedNodes
         /\ products' \subseteq Products \cup {"collective", "work_done"}
         /\ candidate' \in {"absent", "pending", "ratified", "rejected"}
    BY DEF SpineInv, SpineTypeOK
  <2> QED BY <1>0, <2>1, <2>2, <2>3, <2>5, <2>9, <2>10, <2>11, <2>12, MakingStep
<1> QED BY <1>1, <1>2, <1>3 DEF InvokePermitted

LEMMA InvokeFreshKeeps ==
    ASSUME SpineInv, NEW d \in Drivers, At(d, "invoke"), InvokeFresh(d),
           UNCHANGED <<recorded, products, candidate, crashes>>
    PROVE  SpineInv'
<1>0. /\ drivers[d].at = "script" /\ Step(d).do = "invoke" /\ lookup \in Call
      /\ ~lookup.decided /\ TypeOK /\ SpineTypeOK /\ DriverInv(d)
      /\ Vouched(checkpoint[Run].node) /\ checkpoint[Run].node \in Nodes
      /\ recorded' \subseteq RecordedNodes
      /\ products' \subseteq Products \cup {"collective", "work_done"}
      /\ candidate' \in {"absent", "pending", "ratified", "rejected"}
  BY RunTyped DEF At, SpineInv, SpineTypeOK, InvokeFresh, RunInv
<1>1. DoneBelow(8) /\ Status # "absent"
  <2>1. drivers[d].pos = 8
    BY <1>0, Stands, StandsAt
  <2> QED BY <1>0, <2>1, Stands
<1>2. /\ approvals[LookupApproval].status = "absent"
      /\ ~lookup.intended /\ lookup.outcome # "ok"
  BY <1>0 DEF SpineInv, LookupInv
<1>3. CASE Leave(d) /\ UNCHANGED <<vars, lookup>>
  BY <1>3, LeavesTheCall
<1>4. CASE /\ lookup' = [lookup EXCEPT !.decided = TRUE]
           /\ \/ UNCHANGED <<vars, drivers>>
              \/ /\ RequestForRun(LookupApproval, Run, Lookup, Researcher, "fail_run")
                 /\ Leave(d)
  <2>1. /\ lookup' \in Call /\ lookup'.decided
        /\ lookup'.intended = lookup.intended /\ lookup'.outcome = lookup.outcome
    BY <1>0, <1>4 DEF Call
  <2>2. CASE UNCHANGED <<vars, drivers>>
    <3>1. RunStep(Status, checkpoint[Run].node) /\ QueueUnchanged
      BY <1>0, <2>2, AllSame
    <3>2. Evolves /\ Status' = Status /\ approvals' = approvals
      BY <2>1, <3>1 DEF Evolves, RunStep, QueueUnchanged
    <3>3. Moves(d) /\ DriverInv(d)'
      BY <1>0, <2>2, <3>2, DriverTyped, DriverStays DEF Moves
    <3>4. LookupInv'
      <4>1. DoneBelow(8)'
        BY <1>1, <3>2, DoneBelowStays
      <4> QED BY <1>1, <1>2, <2>1, <3>2, <4>1 DEF SpineInv, LookupInv
    <3>5. PromotionInv'
      BY <3>2, PromotionStays DEF SpineInv
    <3> QED BY <1>0, <2>1, <3>1, <3>2, <3>3, <3>4, <3>5, MakingStep
  <2>3. CASE /\ RequestForRun(LookupApproval, Run, Lookup, Researcher, "fail_run")
             /\ Leave(d)
    <3>1. /\ RunStep("suspended_approval", "approval_requested") /\ Status = "running"
          /\ \A b \in Approvals \ {LookupApproval} : approvals'[b] = approvals[b]
      BY <1>0, <2>3, Requested, SpineAssumption
    <3>2. Evolves /\ Status' = "suspended_approval"
      BY <2>1, <3>1 DEF Evolves, RunStep, Terminal
    <3>3. Moves(d) /\ DriverInv(d)'
      BY <1>0, <2>3, Leaves
    <3>4. LookupInv'
      <4>1. DoneBelow(8)'
        BY <1>1, <3>2, DoneBelowStays
      <4> QED BY <1>2, <2>1, <3>1, <3>2, <4>1 DEF SpineInv, LookupInv
    <3>5. PromotionInv'
      BY <3>1, <3>2, PromotionStays, SpineAssumption DEF SpineInv
    <3>6. "approval_requested" \in Nodes /\ Vouched("approval_requested")
      BY <1>1, CallVouches DEF Nodes
    <3> QED BY <1>0, <2>1, <3>1, <3>2, <3>3, <3>4, <3>5, <3>6, MakingStep
  <2> QED BY <1>4, <2>2, <2>3
<1> QED BY <1>3, <1>4 DEF InvokeFresh

LEMMA InvokeKeeps ==
    ASSUME SpineInv, NEW d \in Drivers, Invoke(d)
    PROVE  SpineInv'
BY InvokeDecidedKeeps, InvokePermittedKeeps, InvokeFreshKeeps DEF Invoke

LEMMA ProposeKeeps ==
    ASSUME SpineInv, NEW d \in Drivers, Propose(d)
    PROVE  SpineInv'
<1>0. /\ TypeOK /\ SpineTypeOK /\ UNCHANGED <<recorded, products, lookup, crashes>>
      /\ recorded' \subseteq RecordedNodes /\ lookup' \in Call
      /\ products' \subseteq Products \cup {"collective", "work_done"}
      /\ drivers[d].at = "script"
  BY DEF SpineInv, SpineTypeOK, Propose, At
<1>1. drivers[d].pos = 18 /\ DoneBelow(18)
  BY Stands, StandsAt DEF Propose, At
<1>2. Script[18].do = "propose"
  BY StepKinds
<1>3. CASE /\ candidate = "absent" /\ candidate' = "pending" /\ Advance(d)
           /\ RequestForRun(PromotionApproval, Run, Candidate, Coordinator, "fail_run")
  <2>1. /\ RunStep("suspended_approval", "approval_requested") /\ Status = "running"
        /\ approvals'[PromotionApproval].status = "pending"
        /\ \A b \in Approvals \ {PromotionApproval} : approvals'[b] = approvals[b]
    BY <1>0, <1>3, Requested, SpineAssumption
  <2>2. Evolves /\ Status' = "suspended_approval"
    BY <1>0, <1>3, <2>1 DEF Evolves, RunStep, Terminal
  <2>3. Done(18)'
    BY <1>2, <1>3 DEF Done
  <2>4. Moves(d) /\ DriverInv(d)'
    BY <1>0, <1>1, <1>3, <2>2, <2>3, Advances
  <2>5. LookupInv'
    <3>1. DoneBelow(8) => DoneBelow(8)'
      BY <2>2, DoneBelowStays
    <3> QED BY <1>0, <2>1, <2>2, <3>1, SpineAssumption DEF SpineInv, LookupInv
  <2>6. PromotionInv'
    <3>1. DoneBelow(18)'
      BY <1>1, <2>2, DoneBelowStays
    <3>2. candidate # "ratified" /\ products \cap {"collective", "work_done"} = {}
      BY <1>3 DEF SpineInv, PromotionInv
    <3> QED BY <1>0, <1>3, <2>1, <2>2, <3>1, <3>2 DEF PromotionInv
  <2>7. "approval_requested" \in Nodes /\ Vouched("approval_requested")
    <3>1. DoneBelow(8)
      BY <1>1, LowerBelow
    <3> QED BY <3>1, CallVouches DEF Nodes
  <2> QED BY <1>0, <1>3, <2>1, <2>2, <2>4, <2>5, <2>6, <2>7, MakingStep
<1>4. CASE UNCHANGED <<vars, candidate>> /\ candidate = "pending" /\ Advance(d)
  <2>1. RunUnchanged /\ QueueUnchanged /\ UNCHANGED <<durable, crashes>>
    BY <1>0, <1>4, AllSame DEF durable
  <2>2. Done(18)
    BY <1>2, <1>4 DEF Done
  <2> QED BY <1>0, <1>1, <1>4, <2>1, <2>2, AdvancingStill
<1>5. CASE UNCHANGED <<vars, candidate>> /\ Leave(d)
  <2>1. RunUnchanged /\ QueueUnchanged /\ UNCHANGED durable /\ crashes' \in 0 .. MaxCrashes
    BY <1>0, <1>5, AllSame DEF durable, SpineTypeOK
  <2> QED BY <1>5, <2>1, LeavingStill
<1> QED BY <1>3, <1>4, <1>5 DEF Propose

LEMMA RatifyKeeps ==
    ASSUME SpineInv, NEW d \in Drivers, RatifyAndWriteCollective(d)
    PROVE  SpineInv'
<1>0. /\ TypeOK /\ SpineTypeOK /\ UNCHANGED <<vars, recorded, lookup, crashes>>
      /\ recorded' \subseteq RecordedNodes /\ lookup' \in Call
      /\ drivers[d].at = "script"
      /\ Vouched(checkpoint[Run].node) /\ checkpoint[Run].node \in Nodes
  BY RunTyped DEF SpineInv, SpineTypeOK, RatifyAndWriteCollective, At, RunInv
<1>1. drivers[d].pos = 21 /\ DoneBelow(21)
  BY Stands, StandsAt DEF RatifyAndWriteCollective, At
<1>2. RunStep(Status, checkpoint[Run].node) /\ RunUnchanged /\ QueueUnchanged
  BY <1>0, AllSame
<1>3. CASE /\ Approved /\ candidate' = "ratified" /\ candidate \in {"pending", "ratified"}
           /\ products' = products \cup {"collective"} /\ Advance(d)
  <2>1. Evolves /\ Status' = Status /\ approvals' = approvals
    BY <1>0, <1>2, <1>3 DEF Evolves, RunStep, QueueUnchanged
  <2>2. Done(21)'
    <3>1. Script[21].do = "ratify"
      BY StepKinds
    <3> QED BY <1>3, <3>1 DEF Done
  <2>3. Moves(d) /\ DriverInv(d)'
    BY <1>0, <1>1, <1>3, <2>1, <2>2, Advances
  <2>4. LookupInv'
    BY <1>0, <2>1, LookupStays DEF SpineInv
  <2>5. PromotionInv'
    <3>1. DoneBelow(18) => DoneBelow(18)'
      BY <2>1, DoneBelowStays
    <3> QED BY <1>3, <2>1, <3>1 DEF SpineInv, PromotionInv, Approved
  <2>6. /\ products' \subseteq Products \cup {"collective", "work_done"}
        /\ candidate' \in {"absent", "pending", "ratified", "rejected"}
    BY <1>0, <1>3 DEF SpineTypeOK
  <2> QED BY <1>0, <1>2, <2>1, <2>3, <2>4, <2>5, <2>6, MakingStep
<1>4. CASE UNCHANGED <<candidate, products>> /\ Leave(d)
  <2>1. UNCHANGED durable /\ crashes' \in 0 .. MaxCrashes
    BY <1>0, <1>4 DEF durable, SpineTypeOK
  <2> QED BY <1>2, <1>4, <2>1, LeavingStill
<1> QED BY <1>3, <1>4 DEF RatifyAndWriteCollective

\* The work is done only where the promotion was ratified, so under its approval.
LEMMA CompleteWorkItemKeeps ==
    ASSUME SpineInv, NEW d \in Drivers, CompleteWorkItem(d)
    PROVE  SpineInv'
<1>0. /\ TypeOK /\ SpineTypeOK /\ UNCHANGED <<recorded, lookup, candidate, crashes>>
      /\ QueueUnchanged /\ drivers[d].at = "script" /\ drivers[d].view # None
      /\ recorded' \subseteq RecordedNodes /\ lookup' \in Call
      /\ candidate' \in {"absent", "pending", "ratified", "rejected"}
  BY DEF SpineInv, SpineTypeOK, CompleteWorkItem, At, WritesRun
<1>1. drivers[d].pos = 23 /\ DoneBelow(23)
  BY Stands, StandsAt DEF CompleteWorkItem, At
<1>2. CASE /\ WriteNode(drivers[d].view.status, "work_completed")
           /\ products' = products \cup {"work_done"} /\ Advance(d)
  <2> DEFINE status == drivers[d].view.status
  <2>1. status \in RunStatus /\ (status \in Terminal => status = Status)
    BY <1>0, ReadView
  <2>2. "work_completed" \in Nodes /\ Vouched("work_completed")
    BY <1>1, EndVouches DEF Nodes
  <2>3. RunStep(status, "work_completed")
    BY <1>0, <1>2, <2>1, <2>2, NodeWritten
  <2>4. Evolves /\ Status' = status /\ approvals' = approvals
    BY <1>0, <1>2, <2>3 DEF Evolves, RunStep, QueueUnchanged
  <2>5. Done(23)'
    <3>1. Script[23].do = "finish"
      BY StepKinds
    <3> QED BY <1>2, <3>1 DEF Done
  <2>6. Moves(d) /\ DriverInv(d)'
    BY <1>0, <1>1, <1>2, <2>4, <2>5, Advances
  <2>7. /\ status = "completed" => Status = "completed"
        /\ status = "failed" => Status = "failed"
    BY <2>1 DEF Terminal
  <2>8. LookupInv'
    BY <1>0, <2>4, LookupStays DEF SpineInv
  <2>9. approvals[PromotionApproval].status = "approved"
    <3>1. 21 \in Kept /\ 21 < 23 /\ Script[21].do = "ratify"
      BY KeptSteps, StepKinds
    <3>2. candidate = "ratified"
      BY <1>1, <3>1 DEF DoneBelow, Done
    <3> QED BY <3>2 DEF SpineInv, PromotionInv
  <2>10. PromotionInv'
    <3>1. DoneBelow(18) => DoneBelow(18)'
      BY <2>4, DoneBelowStays
    <3> HIDE DEF status
    <3> QED BY <1>0, <2>4, <2>7, <2>9, <3>1 DEF SpineInv, PromotionInv
  <2>11. products' \subseteq Products \cup {"collective", "work_done"}
    BY <1>0, <1>2 DEF SpineTypeOK
  <2> HIDE DEF status
  <2> QED BY <1>0, <2>2, <2>3, <2>4, <2>6, <2>7, <2>8, <2>10, <2>11, MakingStep
<1>3. CASE RunUnchanged /\ UNCHANGED products /\ Leave(d)
  <2>1. UNCHANGED durable /\ crashes' \in 0 .. MaxCrashes
    BY <1>0, <1>3 DEF durable, SpineTypeOK
  <2> QED BY <1>0, <1>3, <2>1, LeavingStill
<1> QED BY <1>2, <1>3 DEF CompleteWorkItem

-------------------------------------------------------------------------------
(* The decisions.                                                          *)

\* A decision keeps the invariant if the run it moves is vouched for.
LEMMA DecidingStep ==
    ASSUME SpineInv, UNCHANGED <<recorded, products, lookup, drivers, crashes>>, Evolves,
           NEW status, NEW node \in Nodes, RunStep(status, node), Vouched(node),
           status = "completed" => Status = "completed",
           candidate' \in {"absent", "pending", "ratified", "rejected"},
           LookupInv', PromotionInv'
    PROVE  SpineInv'
<1>1. SpineTypeOK'
  BY DEF SpineInv, SpineTypeOK, RunStep
<1>2. \A e \in Drivers : DriverInv(e)'
  BY DriverStays DEF SpineInv
<1>3. Status' = status /\ checkpoint'[Run].node = node
  BY DEF RunStep
<1>4. RunInv'
  <2>1. Vouched(node)'
    BY FloorStays
  <2>2. DoneBelow(25) => DoneBelow(25)'
    BY DoneBelowStays
  <2> QED BY <1>3, <2>1, <2>2 DEF SpineInv, RunInv
<1> QED BY <1>1, <1>2, <1>4 DEF SpineInv

LEMMA ApprovedRun ==
    ASSUME TypeOK, NEW a \in Approvals, NEW p \in Principals, ApproveForRun(a, p)
    PROVE  \/ RunStep(Status, checkpoint[Run].node)
           \/ RunStep("running", "approval_resolved") /\ Status = "suspended_approval"
<1>1. TypeOK' /\ Run \in Runs
  BY TypePreserved, SpineAssumption DEF Next, ResolutionSteps
<1>2. PICK r \in Runs : r = approvals[a].run
  BY RowOK DEF ApproveForRun, TypeOK
<1>3. CASE UNCHANGED <<runs, locks, checkpoint>>
  BY <1>1, <1>3 DEF RunStep, Status
<1>4. CASE /\ runs[r].status = "suspended_approval"
           /\ SetRunStatus(approvals', r, "running", "approval_resolved", None)
           /\ Checkpoint(r, "approval_resolved", None)
  <2>1. /\ \A s \in Runs \ {r} : runs'[s] = runs[s]
        /\ runs'[r].status = "running"
    BY <1>2, <1>4, RunMoved
  <2>2. /\ \A s \in Runs \ {r} : checkpoint'[s] = checkpoint[s]
        /\ checkpoint'[r].node = "approval_resolved"
    BY <1>4 DEF Checkpoint, TypeOK, CheckpointTypeOK
  <2>3. CASE r = Run
    BY <1>1, <1>4, <2>1, <2>2, <2>3 DEF RunStep, Status, Terminal
  <2>4. CASE r # Run
    BY <1>1, <2>1, <2>2, <2>4 DEF RunStep, Status
  <2> QED BY <2>3, <2>4
<1> QED BY <1>2, <1>3, <1>4 DEF ApproveForRun, ResumeIfSuspended

LEMMA RejectedRun ==
    ASSUME TypeOK, NEW a \in Approvals, NEW p \in Principals, RejectForRun(a, p)
    PROVE  \/ RunStep(Status, checkpoint[Run].node)
           \/ RunStep("failed", "approval_rejected")
           \/ RunStep("running", "approval_skipped")
<1>1. TypeOK' /\ Run \in Runs
  BY TypePreserved, SpineAssumption DEF Next, ResolutionSteps
<1>2. PICK r \in Runs : r = approvals[a].run
  BY RowOK DEF RejectForRun, TypeOK
<1>3. PICK status \in {"failed", "running"}, node \in {"approval_rejected", "approval_skipped"} :
          /\ SetRunStatus(approvals', r, status, node, None)
          /\ Checkpoint(r, node, None)
          /\ status = "failed" <=> node = "approval_rejected"
  BY <1>2 DEF RejectForRun
<1>4. /\ \A s \in Runs \ {r} : runs'[s] = runs[s]
      /\ runs'[r].status = status
      /\ runs[r].status \in Terminal => status = runs[r].status
  BY <1>2, <1>3, RunMoved
<1>5. /\ \A s \in Runs \ {r} : checkpoint'[s] = checkpoint[s]
      /\ checkpoint'[r].node = node
  BY <1>3 DEF Checkpoint, TypeOK, CheckpointTypeOK
<1>6. CASE r = Run
  BY <1>1, <1>3, <1>4, <1>5, <1>6 DEF RunStep, Status
<1>7. CASE r # Run
  BY <1>1, <1>4, <1>5, <1>7 DEF RunStep, Status
<1> QED BY <1>6, <1>7

\* While the call's approval is pending the call has not gone ahead and no promotion was
\* asked for; while the promotion's is, nothing was made of it.
LEMMA PendingDecision ==
    ASSUME SpineInv, NEW a \in Approvals, approvals[a].status = "pending"
    PROVE  /\ DoneBelow(8) /\ a \in {LookupApproval, PromotionApproval}
           /\ a = LookupApproval => /\ ~lookup.intended /\ lookup.outcome # "ok"
                                    /\ candidate = "absent"
                                    /\ approvals[PromotionApproval].status = "absent"
           /\ a = PromotionApproval =>
                  /\ candidate # "ratified" /\ Status # "failed"
                  /\ products \cap {"collective", "work_done"} = {}
<1>1. DoneBelow(8) /\ a \in {LookupApproval, PromotionApproval}
  BY ApprovalVouches
<1>2. ASSUME a = LookupApproval
      PROVE  /\ ~lookup.intended /\ lookup.outcome # "ok" /\ candidate = "absent"
             /\ approvals[PromotionApproval].status = "absent"
  BY <1>2, ProposedAfterCall DEF SpineInv, LookupInv
<1>3. ASSUME a = PromotionApproval
      PROVE  /\ candidate # "ratified" /\ Status # "failed"
             /\ products \cap {"collective", "work_done"} = {}
  BY <1>3 DEF SpineInv, PromotionInv
<1> QED BY <1>1, <1>2, <1>3

\* A decision leaves the call as decided as it was.
LEMMA DecidingKeepsCall ==
    ASSUME SpineInv, Evolves, UNCHANGED lookup, NEW a \in Approvals,
           approvals[a].status = "pending", approvals'[a].status \in {"approved", "rejected"},
           \A b \in Approvals \ {a} : approvals'[b] = approvals[b]
    PROVE  LookupInv'
<1>0. LookupApproval \in Approvals /\ a \in {LookupApproval, PromotionApproval}
  BY PendingDecision, SpineAssumption
<1>1. \A b \in Approvals \ {LookupApproval, PromotionApproval} : approvals'[b].status = "absent"
  BY <1>0 DEF SpineInv, LookupInv
<1>2. approvals'[LookupApproval].status # "absent" => lookup'.decided
  BY <1>0 DEF SpineInv, LookupInv
<1>3. lookup'.decided => Status' # "absent" /\ DoneBelow(8)'
  BY DoneBelowStays DEF SpineInv, LookupInv, Evolves
<1>4. ASSUME lookup'.intended \/ lookup'.outcome = "ok"
      PROVE  lookup'.decided /\ approvals'[LookupApproval].status \in {"absent", "approved"}
  <2>1. a # LookupApproval
    BY <1>4, PendingDecision
  <2>2. approvals'[LookupApproval] = approvals[LookupApproval]
    BY <1>0, <2>1
  <2> QED BY <1>4, <2>2 DEF SpineInv, LookupInv
<1> QED BY <1>1, <1>2, <1>3, <1>4 DEF LookupInv

LEMMA ApproveKeeps ==
    ASSUME SpineInv, NEW a \in Approvals, NEW p \in Principals, Approve(a, p)
    PROVE  SpineInv'
<1>0. /\ TypeOK /\ UNCHANGED <<durable, drivers, crashes>> /\ ApproveForRun(a, p)
      /\ Vouched(checkpoint[Run].node) /\ checkpoint[Run].node \in Nodes
      /\ candidate' \in {"absent", "pending", "ratified", "rejected"}
  BY RunTyped DEF SpineInv, SpineTypeOK, RunInv, Approve, durable
<1>1. /\ approvals[a].status = "pending" /\ approvals'[a].status = "approved"
      /\ \A b \in Approvals \ {a} : approvals'[b] = approvals[b]
  BY <1>0, ResolvedRow DEF ApproveForRun
<1>2. PICK status \in {Status, "running"}, node \in {checkpoint[Run].node, "approval_resolved"} :
          RunStep(status, node)
  BY <1>0, ApprovedRun
<1>3. Evolves /\ Status' = status
  BY <1>0, <1>2, RunEvolves DEF RunStep
<1>4. node \in Nodes /\ Vouched(node)
  BY <1>0, <1>1, <1>2, PendingDecision, CallVouches DEF Nodes
<1>5. LookupInv'
  BY <1>0, <1>1, <1>3, DecidingKeepsCall DEF durable
<1>6. PromotionInv'
  <2>1. DoneBelow(18) => DoneBelow(18)'
    BY <1>3, DoneBelowStays
  <2>2. candidate' = candidate /\ products' = products
    BY <1>0 DEF durable
  <2>3. CASE a = LookupApproval
    <3>1. approvals'[PromotionApproval] = approvals[PromotionApproval]
      BY <1>1, <2>3, SpineAssumption
    <3> QED BY <1>1, <1>2, <1>3, <2>1, <2>2, <2>3, <3>1, PendingDecision
            DEF SpineInv, PromotionInv
  <2>4. CASE a = PromotionApproval
    BY <1>1, <1>2, <1>3, <2>1, <2>2, <2>4, PendingDecision DEF SpineInv, PromotionInv
  <2> QED BY <1>1, <2>3, <2>4, PendingDecision
<1>7. /\ UNCHANGED <<recorded, products, lookup, drivers, crashes>>
      /\ status = "completed" => Status = "completed"
  BY <1>0, <1>2 DEF durable
<1> QED BY <1>0, <1>2, <1>3, <1>4, <1>5, <1>6, <1>7, DecidingStep

LEMMA RejectKeeps ==
    ASSUME SpineInv, NEW a \in Approvals, NEW p \in Principals, Reject(a, p)
    PROVE  SpineInv'
<1>0. /\ TypeOK /\ UNCHANGED <<recorded, products, lookup, drivers, crashes>>
      /\ RejectForRun(a, p)
      /\ Vouched(checkpoint[Run].node) /\ checkpoint[Run].node \in Nodes
      /\ candidate' \in {"absent", "pending", "ratified", "rejected"}
  BY RunTyped DEF SpineInv, SpineTypeOK, RunInv, Reject
<1>1. /\ approvals[a].status = "pending" /\ approvals'[a].status = "rejected"
      /\ \A b \in Approvals \ {a} : approvals'[b] = approvals[b]
  BY <1>0, ResolvedRow DEF RejectForRun
<1>2. PICK status \in {Status, "failed", "running"},
           node \in {checkpoint[Run].node, "approval_rejected", "approval_skipped"} :
          RunStep(status, node)
  BY <1>0, RejectedRun
<1>3. /\ a = PromotionApproval => candidate = "pending" /\ candidate' = "rejected"
      /\ a # PromotionApproval => candidate' = candidate
  BY DEF Reject
<1>4. Evolves /\ Status' = status
  BY <1>0, <1>2, <1>3 DEF RunStep, Evolves
<1>5. node \in Nodes /\ Vouched(node)
  BY <1>0, <1>2, NowhereVouches DEF Nodes
<1>6. LookupInv'
  BY <1>0, <1>1, <1>4, DecidingKeepsCall
<1>7. PromotionInv'
  <2>1. DoneBelow(18) => DoneBelow(18)'
    BY <1>4, DoneBelowStays
  <2>2. CASE a = LookupApproval
    <3>1. approvals'[PromotionApproval] = approvals[PromotionApproval] /\ candidate' = candidate
      BY <1>1, <1>3, <2>2, SpineAssumption
    <3> QED BY <1>0, <1>1, <2>1, <2>2, <3>1, PendingDecision DEF SpineInv, PromotionInv
  <2>3. CASE a = PromotionApproval
    BY <1>0, <1>1, <1>3, <2>1, <2>3, PendingDecision DEF SpineInv, PromotionInv
  <2> QED BY <1>1, <2>2, <2>3, PendingDecision
<1>8. status = "completed" => Status = "completed"
  BY <1>2
<1> QED BY <1>0, <1>2, <1>4, <1>5, <1>6, <1>7, <1>8, DecidingStep

-------------------------------------------------------------------------------
(* The invariant holds.                                                    *)

LEMMA SpineInitInv == SpineInit => SpineInv
<1> SUFFICES ASSUME SpineInit PROVE SpineInv
  OBVIOUS
<1>1. SpineTypeOK
  <2>1. Idle \in [at : Places, pos : {0} \cup DOMAIN Script, floor : Nodes,
                  view : Views \cup {None}]
    BY DEF Idle, Places, Nodes
  <2> QED BY <2>1, InitTypeOK, SpineAssumption DEF SpineInit, SpineTypeOK, Call
<1>2. /\ Status = "absent" /\ checkpoint[Run].node = None
      /\ \A a \in Approvals : approvals[a].status = "absent"
  BY SpineAssumption DEF SpineInit, Init, StoreInit, AbsentRun, AbsentApproval, NoCheckpoint,
                         Status
<1>3. ASSUME NEW d \in Drivers PROVE DriverInv(d)
  BY <1>3, NoneFloor DEF SpineInit, DriverInv, Idle
<1>4. LookupInv
  BY <1>2, SpineAssumption DEF SpineInit, LookupInv
<1>5. PromotionInv
  BY <1>2, SpineAssumption DEF SpineInit, PromotionInv
<1>6. RunInv
  BY <1>2, NowhereVouches DEF RunInv
<1> QED BY <1>1, <1>3, <1>4, <1>5, <1>6 DEF SpineInv

LEMMA SpineStillInv == SpineInv /\ UNCHANGED spineVars => SpineInv'
<1> SUFFICES ASSUME SpineInv, UNCHANGED spineVars PROVE SpineInv'
  OBVIOUS
<1>0. /\ TypeOK /\ UNCHANGED vars /\ UNCHANGED <<recorded, products, lookup, drivers, crashes>>
      /\ candidate' = candidate
      /\ Vouched(checkpoint[Run].node) /\ checkpoint[Run].node \in Nodes
      /\ candidate' \in {"absent", "pending", "ratified", "rejected"}
  BY RunTyped DEF SpineInv, SpineTypeOK, RunInv, spineVars, durable
<1>1. RunStep(Status, checkpoint[Run].node) /\ QueueUnchanged
  BY <1>0, AllSame
<1>2. Evolves /\ Status' = Status /\ approvals' = approvals
  BY <1>0, <1>1 DEF Evolves, RunStep, QueueUnchanged
<1>3. LookupInv' /\ PromotionInv'
  BY <1>0, <1>2, LookupStays, PromotionStays DEF SpineInv
<1> QED BY <1>0, <1>1, <1>2, <1>3, DecidingStep

LEMMA SpineStepInv == SpineInv /\ [SpineNext]_spineVars => SpineInv'
<1> SUFFICES ASSUME SpineInv, [SpineNext]_spineVars PROVE SpineInv'
  OBVIOUS
<1>1. ASSUME NEW d \in Drivers, Start(d) \/ Resume(d) \/ ResumeLookup(d) \/ Crash(d)
      PROVE  SpineInv'
  BY <1>1, StartKeeps, ResumeKeeps, ResumeLookupKeeps, CrashKeeps
<1>2. ASSUME NEW d \in Drivers, Drive(d)
      PROVE  SpineInv'
  BY <1>2, BeginKeeps, DispatchKeeps, SetFloorKeeps, ReadRunKeeps, RecordNodeKeeps,
     CheckpointNodeKeeps, MakeProductKeeps, InvokeKeeps, AnswerKeeps, ProposeKeeps,
     EnsureTraceKeeps, RatifyKeeps, CompleteWorkItemKeeps, CompleteDemoRunKeeps
     DEF Drive
<1>3. ASSUME NEW a \in Approvals, Decide(a)
      PROVE  SpineInv'
  BY <1>3, ApproveKeeps, RejectKeeps DEF Decide
<1>4. CASE UNCHANGED spineVars
  BY <1>4, SpineStillInv
<1> QED BY <1>1, <1>2, <1>3, <1>4 DEF SpineNext

LEMMA SpineInvHolds == SpineSpec => []SpineInv
<1>1. SpineInit => SpineInv
  BY SpineInitInv
<1>2. SpineInv /\ [SpineNext]_spineVars => SpineInv'
  BY SpineStepInv
<1> QED BY <1>1, <1>2, PTL DEF SpineSpec

\* Rows, products, the governed call and every process keep their types, whatever number of
\* processes drives the run (spine/service.ts).
THEOREM SpineTypeCorrect == SpineSpec => []SpineTypeOK
<1>1. SpineInv => SpineTypeOK
  BY DEF SpineInv
<1> QED BY <1>1, SpineInvHolds, PTL

\* A run the spine completed did all its script says, on whatever way through
\* crashes, resumes and second processes (runUntilPromotionApproval, resumeDemo,
\* completeDemoRun).
THEOREM CompletionIsWhole == SpineSpec => []CompletedMeansDone
<1>1. SpineInv => CompletedMeansDone
  <2> SUFFICES ASSUME SpineInv, Status = "completed"
               PROVE  /\ recorded = RecordedNodes
                      /\ products = Products \cup {"collective", "work_done"}
                      /\ lookup.outcome = "ok" /\ candidate = "ratified"
                      /\ approvals[PromotionApproval].status = "approved"
    BY DEF CompletedMeansDone
  <2>1. \A k \in Kept : Done(k)
    <3>1. \A k \in Kept : k < 25
      BY KeptSteps
    <3> QED BY <3>1 DEF SpineInv, RunInv, DoneBelow
  <2>2. RecordedNodes \subseteq recorded
    BY <2>1 DEF RecordedNodes, Done
  <2>3. Products \subseteq products
    BY <2>1 DEF Products, Done
  <2>4. /\ {8, 21, 23} \subseteq Kept /\ Script[8].do = "invoke"
        /\ Script[21].do = "ratify" /\ Script[23].do = "finish"
    BY KeptSteps, StepKinds
  <2>5. /\ lookup.outcome = "ok" /\ candidate = "ratified"
        /\ {"collective", "work_done"} \subseteq products
    <3>1. Done(8) /\ Done(21) /\ Done(23)
      BY <2>1, <2>4
    <3> QED BY <2>4, <3>1 DEF Done
  <2> QED BY <2>2, <2>3, <2>5 DEF SpineInv, SpineTypeOK, PromotionInv
<1> QED BY <1>1, SpineInvHolds, PTL

\* Whatever a resume passes over is done: the events below the latest checkpoint and below
\* the floor of any process are on record (resumeRunningRun, recordNode).
THEOREM ResumesPassOverNothing == SpineSpec => []ResumeFloorIsRecorded
<1>1. SpineInv => ResumeFloorIsRecorded
  BY DEF SpineInv, RunInv, DriverInv, Vouched, FloorKept, ResumeFloorIsRecorded
<1> QED BY <1>1, SpineInvHolds, PTL

\* A run that failed has ratified nothing and its work is not done (failRun,
\* ratifyAndWriteCollective, completeWorkItem).
THEOREM FailureLeavesNothing == SpineSpec => []FailedLeavesNoMemory
<1>1. SpineInv => FailedLeavesNoMemory
  BY DEF SpineInv, PromotionInv, FailedLeavesNoMemory
<1> QED BY <1>1, SpineInvHolds, PTL
-------------------------------------------------------------------------------
(* The spine over the queue: a step of the spine is a step of the queue, or  *)
(* one the queue leaves to the service that owns the run.                    *)

Writes ==
    \/ UNCHANGED <<runs, locks>>
    \/ \E status \in RunStatus, node \in Nodes, ptr \in Approvals \cup {None} :
           SetRunStatus(approvals, Run, status, node, ptr)
Checkpoints ==
    \/ UNCHANGED checkpoint
    \/ \E node \in Nodes, ptr \in Approvals \cup {None} : Checkpoint(Run, node, ptr)
Owned == QueueUnchanged /\ Writes /\ Checkpoints

LEMMA OwnedIsServed ==
    ASSUME TypeOK, Owned
    PROVE  OwnerStep(Run)
<1> DEFINE row == runs'[Run]
           latest == checkpoint'[Run]
<1>0. Run \in Runs
  BY SpineAssumption
<1>1. /\ row \in RunRow
      /\ UNCHANGED <<runs, locks>> \/ SetRunStatus(approvals, Run, row.status, row.node, row.ptr)
  <2>1. CASE UNCHANGED <<runs, locks>>
    BY <1>0, <2>1 DEF TypeOK, StoreTypeOK
  <2>2. ASSUME NEW status \in RunStatus, NEW node \in Nodes, NEW ptr \in Approvals \cup {None},
               SetRunStatus(approvals, Run, status, node, ptr)
        PROVE  /\ row \in RunRow
               /\ SetRunStatus(approvals, Run, row.status, row.node, row.ptr)
    <3>1. row = [status |-> status, node |-> node, ptr |-> ptr]
      BY <1>0, <2>2 DEF SetRunStatus, TerminalReplay, TypeOK, StoreTypeOK
    <3>2. row.status = status /\ row.node = node /\ row.ptr = ptr
      BY <3>1
    <3> QED BY <2>2, <3>1, <3>2 DEF RunRow
  <2> QED BY <2>1, <2>2 DEF Owned, Writes
<1>2. latest \in [node : Nodes, ptr : Approvals \cup {None}] /\ Checkpoint(Run, latest.node, latest.ptr)
  <2>1. CASE UNCHANGED checkpoint
    <3>1. latest = checkpoint[Run] /\ checkpoint[Run] \in [node : Nodes, ptr : Approvals \cup {None}]
      BY <1>0, <2>1 DEF TypeOK, CheckpointTypeOK
    <3>2. [node |-> latest.node, ptr |-> latest.ptr] = checkpoint[Run]
      BY <3>1
    <3> QED BY <1>0, <2>1, <3>1, <3>2 DEF Checkpoint, TypeOK, CheckpointTypeOK
  <2>2. ASSUME NEW node \in Nodes, NEW ptr \in Approvals \cup {None}, Checkpoint(Run, node, ptr)
        PROVE  /\ latest \in [node : Nodes, ptr : Approvals \cup {None}]
               /\ Checkpoint(Run, latest.node, latest.ptr)
    <3>1. latest = [node |-> node, ptr |-> ptr]
      BY <1>0, <2>2 DEF Checkpoint, TypeOK, CheckpointTypeOK
    <3>2. latest.node = node /\ latest.ptr = ptr
      BY <3>1
    <3> QED BY <2>2, <3>1, <3>2
  <2> QED BY <2>1, <2>2 DEF Owned, Checkpoints
<1> QED BY <1>1, <1>2 DEF OwnerStep, Owned, QueueUnchanged

LEMMA OwnedStill ==
    ASSUME RunUnchanged, QueueUnchanged
    PROVE  Owned
BY DEF Owned, Writes, Checkpoints, RunUnchanged

LEMMA OwnedNode ==
    ASSUME TypeOK, QueueUnchanged, NEW status \in RunStatus, NEW node \in Nodes,
           WriteNode(status, node)
    PROVE  Owned
<1>1. KeptPtr(status) \in Approvals \cup {None}
  BY RunTyped
<1> QED BY <1>1 DEF Owned, Writes, Checkpoints, WriteNode

LEMMA OwnedFailure ==
    ASSUME TypeOK, QueueUnchanged, NEW node \in {"approval_rejected", "capability_failed"},
           FailRun(node)
    PROVE  Owned
<1>1. "failed" \in RunStatus /\ node \in Nodes
  BY DEF RunStatus, Terminal, Nodes
<1>2. WriteNode("failed", node) \/ RunUnchanged
  BY DEF FailRun
<1> QED BY <1>1, <1>2, OwnedNode, OwnedStill

LEMMA OwnedPointer ==
    ASSUME QueueUnchanged, UNCHANGED <<runs, locks>>, NEW ptr \in Approvals \cup {None},
           Checkpoint(Run, "approval_requested", ptr)
    PROVE  Owned
<1>1. "approval_requested" \in Nodes
  BY DEF Nodes
<1> QED BY <1>1 DEF Owned, Writes, Checkpoints

\* setStatus to running, from the entries of the run.
LEMMA OwnedRunning ==
    ASSUME QueueUnchanged, UNCHANGED checkpoint, NEW node \in Nodes,
           \/ SetRunStatus(approvals, Run, "running", node, None)
           \/ UNCHANGED <<runs, locks>>
    PROVE  Owned
<1>1. "running" \in RunStatus /\ None \in Approvals \cup {None}
  BY DEF RunStatus
<1> QED BY <1>1 DEF Owned, Writes, Checkpoints

LEMMA DispatchOwned ==
    ASSUME SpineInv, NEW d \in Drivers, Dispatch(d)
    PROVE  Owned
<1>0. /\ TypeOK /\ QueueUnchanged /\ drivers[d].view \in Views
  BY DEF SpineInv, SpineTypeOK, DriverInv, Dispatch
<1>1. drivers[d].view.ptr \in Approvals \cup {None}
  BY <1>0 DEF Views
<1>2. \/ RunUnchanged
      \/ FailRun("approval_rejected")
      \/ /\ SetRunStatus(approvals, Run, "suspended_approval", "approval_requested",
                         PromotionApproval)
         /\ Checkpoint(Run, "approval_requested", PromotionApproval)
      \/ /\ UNCHANGED <<runs, locks>>
         /\ Checkpoint(Run, "approval_requested", drivers[d].view.ptr)
  BY DEF Dispatch, DispatchPromotion, DispatchLookup
<1>3. CASE /\ SetRunStatus(approvals, Run, "suspended_approval", "approval_requested",
                           PromotionApproval)
           /\ Checkpoint(Run, "approval_requested", PromotionApproval)
  <2>1. /\ "suspended_approval" \in RunStatus /\ "approval_requested" \in Nodes
        /\ PromotionApproval \in Approvals \cup {None}
    BY SpineAssumption DEF RunStatus, Nodes
  <2> QED BY <1>0, <1>3, <2>1 DEF Owned, Writes, Checkpoints
<1> QED BY <1>0, <1>1, <1>2, <1>3, OwnedStill, OwnedFailure, OwnedPointer

LEMMA NodeStepOwned ==
    ASSUME SpineInv, NEW d \in Drivers,
           RecordNode(d) \/ CheckpointNode(d) \/ CompleteWorkItem(d)
    PROVE  Owned
<1>0. /\ TypeOK /\ QueueUnchanged /\ drivers[d].at = "script" /\ drivers[d].view # None
      /\ Step(d).do \in {"record", "mark", "finish"}
  BY DEF SpineInv, SpineTypeOK, RecordNode, CheckpointNode, CompleteWorkItem, At, WritesRun
<1>1. drivers[d].view.status \in RunStatus
  BY <1>0, ReadView
<1>2. "work_completed" \in Nodes
  BY DEF Nodes
<1>3. Step(d).do \in {"record", "mark"} => Step(d).what \in Nodes
  BY <1>0, Stands, StandsAt, StepKinds, KeptSteps
<1>4. CASE RecordNode(d) \/ CheckpointNode(d)
  <2>1. RunUnchanged \/ WriteNode(drivers[d].view.status, Step(d).what)
    BY <1>4 DEF RecordNode, CheckpointNode
  <2>2. Step(d).do \in {"record", "mark"}
    BY <1>4 DEF RecordNode, CheckpointNode, At
  <2> QED BY <1>0, <1>1, <1>3, <2>1, <2>2, OwnedStill, OwnedNode
<1>5. CASE CompleteWorkItem(d)
  <2>1. RunUnchanged \/ WriteNode(drivers[d].view.status, "work_completed")
    BY <1>5 DEF CompleteWorkItem
  <2> QED BY <1>0, <1>1, <1>2, <2>1, OwnedStill, OwnedNode
<1> QED BY <1>4, <1>5

LEMMA DriveServed ==
    ASSUME SpineInv, NEW d \in Drivers, Drive(d)
    PROVE  [ServedNext]_vars
<1>0. TypeOK /\ Run \in Runs /\ (Owned => ServedNext)
  BY OwnedIsServed, SpineAssumption DEF SpineInv, SpineTypeOK, ServedNext
<1>1. CASE Begin(d) \/ SetFloor(d)
  <2>1. drivers[d].floor \in Nodes /\ "run_started" \in Nodes
    BY DriverTyped DEF SpineInv, Nodes
  <2> QED BY <1>0, <1>1, <2>1, OwnedRunning DEF Begin, SetFloor
<1>2. CASE Dispatch(d) \/ RecordNode(d) \/ CheckpointNode(d) \/ CompleteWorkItem(d)
  BY <1>0, <1>2, DispatchOwned, NodeStepOwned
<1>3. CASE ReadRun(d) \/ MakeProduct(d) \/ RatifyAndWriteCollective(d)
  BY <1>3 DEF ReadRun, MakeProduct, RatifyAndWriteCollective
<1>4. ASSUME NEW outcome, Conclude(d, outcome) PROVE Owned
  <2>1. QueueUnchanged /\ (RunUnchanged \/ FailRun("capability_failed"))
    BY <1>4 DEF Conclude
  <2> QED BY <1>0, <2>1, OwnedStill, OwnedFailure
<1>5. CASE Invoke(d) \/ Answer(d)
  <2>1. \/ \E outcome : Conclude(d, outcome)
        \/ UNCHANGED vars
        \/ RequestForRun(LookupApproval, Run, Lookup, Researcher, "fail_run")
    BY <1>5 DEF Invoke, InvokeDecided, InvokePermitted, InvokeFresh, Answer
  <2>2. RequestForRun(LookupApproval, Run, Lookup, Researcher, "fail_run") => Next
    BY SpineAssumption DEF Next, RequestSteps
  <2> QED BY <1>0, <1>4, <2>1, <2>2 DEF ServedNext
<1>6. CASE Propose(d)
  <2>1. \/ UNCHANGED vars
        \/ RequestForRun(PromotionApproval, Run, Candidate, Coordinator, "fail_run")
    BY <1>6 DEF Propose
  <2>2. RequestForRun(PromotionApproval, Run, Candidate, Coordinator, "fail_run") => Next
    BY SpineAssumption DEF Next, RequestSteps
  <2> QED BY <2>1, <2>2 DEF ServedNext
<1>7. CASE EnsureTrace(d)
  <2>1. drivers[d].view \in Views
    BY <1>7, DriverTyped DEF EnsureTrace, At, WritesRun, SpineInv
  <2>2. drivers[d].view.ptr \in Approvals \cup {None}
    BY <2>1 DEF Views
  <2> QED BY <1>0, <1>7, <2>2, OwnedPointer DEF EnsureTrace
<1>8. CASE CompleteDemoRun(d)
  <2>1. "completed" \in RunStatus /\ "run_completed" \in Nodes
    BY DEF RunStatus, Terminal, Nodes
  <2>2. QueueUnchanged /\ (RunUnchanged \/ WriteNode("completed", "run_completed"))
    BY <1>8 DEF CompleteDemoRun
  <2> QED BY <1>0, <2>1, <2>2, OwnedStill, OwnedNode
<1> QED BY <1>1, <1>2, <1>3, <1>5, <1>6, <1>7, <1>8 DEF Drive

LEMMA SpineStepServed == SpineInv /\ [SpineNext]_spineVars => [ServedNext]_vars
<1> SUFFICES ASSUME SpineInv, [SpineNext]_spineVars PROVE [ServedNext]_vars
  OBVIOUS
<1>1. ASSUME NEW d \in Drivers, Start(d) \/ Resume(d) \/ ResumeLookup(d) \/ Crash(d)
      PROVE  [ServedNext]_vars
  <2>1. UNCHANGED vars \/ StartRun(Run)
    BY <1>1 DEF Start, Resume, ResumeLookup, Crash
  <2>2. StartRun(Run) => Next
    BY SpineAssumption DEF Next, DriveSteps
  <2> QED BY <2>1, <2>2 DEF ServedNext
<1>2. ASSUME NEW d \in Drivers, Drive(d)
      PROVE  [ServedNext]_vars
  BY <1>2, DriveServed
<1>3. ASSUME NEW a \in Approvals, Decide(a)
      PROVE  [ServedNext]_vars
  <2>1. PICK p \in Principals : ApproveForRun(a, p) \/ RejectForRun(a, p)
    BY <1>3 DEF Decide, Approve, Reject
  <2> QED BY <2>1 DEF ServedNext, Next, ResolutionSteps
<1>4. CASE UNCHANGED spineVars
  BY <1>4 DEF spineVars
<1> QED BY <1>1, <1>2, <1>3, <1>4 DEF SpineNext

\* The spine implements the queue: the run it drives, and the questions it asks, go by the
\* queue's own transactions and by setStatus, through every crash, resume and second process
\* (spine/service.ts over governance/approvals.ts and persistence/runs.ts).
THEOREM SpineKeepsTheQueue == SpineSpec => ServedQueue
<1>1. SpineInit => Init
  BY DEF SpineInit
<1>2. SpineInv /\ [SpineNext]_spineVars => [ServedNext]_vars
  BY SpineStepServed
<1> QED BY <1>1, <1>2, SpineInvHolds, PTL DEF SpineSpec, ServedQueue

\* So a demo run never goes on past a question it asked, resumes on its own verdict only, and
\* stays as it ended, whichever processes drive it (resumeRun, failRun, recordNode).
THEOREM SpineAnswersToTheQueue ==
  SpineSpec => /\ [](RunsMatchApprovals /\ ApprovalsMatchTargets)
               /\ ResumesOnlyOnItsVerdict /\ DecisionsAreFinal
BY SpineKeepsTheQueue, ServedQueueSafety, PTL
===============================================================================
