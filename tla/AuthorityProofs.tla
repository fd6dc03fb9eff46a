---------------------------- MODULE AuthorityProofs ----------------------------
(***************************************************************************)
(* What holds of operators and of the record of their authority, for every *)
(* set of principals, tokens, processes and requests.                      *)
(***************************************************************************)
EXTENDS Authority, SequenceTheorems, TLAPS

-------------------------------------------------------------------------------
(* Types.                                                                  *)

\* What a process at each place has with it.
JobOK(job) ==
    /\ job \in Job
    /\ job.at = "idle" <=> job.job = None
    /\ job.at = "cleanup" => job.created # <<>>
    /\ job.job = "ceremony" =>
          /\ job.at \in {"check", "place", "placed", "mode", "enrol", "cleanup"}
          /\ job.id \in Roots /\ job.token \in Tokens /\ job.file \in Files
    /\ job.job = "rotation" =>
          /\ job.at \in {"mint", "profile", "place", "placed", "revoke"}
          /\ job.owner \in Principals /\ job.file = "profile" /\ job.created = <<>>
          /\ job.at # "mint" => job.token \in Tokens
          /\ job.at \in {"place", "placed"} => job.id \in Principals

TypeInv ==
    /\ AuthorityTypeOK
    /\ \A p \in Procs : JobOK(jobs[p])

\* A process without a job.
LEMMA IdleOK == JobOK(Idle)
<1>1. <<>> \in Seq(Files)
  OBVIOUS
<1> QED
  BY <1>1, CustodyAssumption DEF JobOK, Job, Idle, Places

\* A process that gets a job it may have keeps the types of all.
LEMMA BecomesOK ==
  ASSUME TypeInv, NEW p \in Procs, NEW job, JobOK(job), Becomes(p, job)
  PROVE  /\ jobs' \in [Procs -> Job]
         /\ \A q \in Procs : JobOK(jobs'[q])
  BY DEF TypeInv, AuthorityTypeOK, CustodyTypeOK, Becomes, JobOK

\* Going on to a place where nothing else is needed.
LEMMA FailsOK ==
  ASSUME TypeInv, NEW p \in Procs, jobs[p].at # "idle",
         NEW created \in Seq(Files),
         jobs[p].job = "rotation" => created = <<>>,
         FailsLeaving(p, created)
  PROVE  /\ jobs' \in [Procs -> Job]
         /\ \A q \in Procs : JobOK(jobs'[q])
<1>1. JobOK(jobs[p])
  BY DEF TypeInv
<1>2. CASE created = <<>>
  BY <1>2, IdleOK, BecomesOK DEF FailsLeaving
<1>3. CASE created # <<>>
  <2> DEFINE job == [jobs[p] EXCEPT !.at = "cleanup", !.created = created]
  <2>1. jobs[p].job = "ceremony"
    BY <1>1, <1>3 DEF JobOK, Job
  <2>2. /\ job \in Job
        /\ job.at = "cleanup" /\ job.created = created
        /\ job.job = "ceremony" /\ job.file = jobs[p].file
        /\ job.id = jobs[p].id /\ job.token = jobs[p].token
    BY <1>1, <2>1 DEF JobOK, Job, Places
  <2>3. JobOK(job)
    BY <1>1, <1>3, <2>1, <2>2, CustodyAssumption DEF JobOK
  <2>4. Becomes(p, job)
    BY <1>3 DEF FailsLeaving
  <2> QED
    BY <2>3, <2>4, BecomesOK
<1> QED
  BY <1>2, <1>3

\* A file gets what a process writes there, or goes.
LEMMA PlacedOK ==
  ASSUME TypeInv, NEW file \in Files, NEW new,
         \/ new = None
         \/ file # "profile" /\ new \in Roots
         \/ file = "profile" /\ new \in Profile,
         files' = [files EXCEPT ![file] = new]
  PROVE  files' \in [key : Roots \cup {None}, fingerprint : Roots \cup {None},
                     profile : Profile \cup {None}]
<1>1. CASE file = "key"
  BY <1>1 DEF TypeInv, AuthorityTypeOK, CustodyTypeOK
<1>2. CASE file = "fingerprint"
  BY <1>2 DEF TypeInv, AuthorityTypeOK, CustodyTypeOK
<1>3. CASE file = "profile"
  BY <1>3 DEF TypeInv, AuthorityTypeOK, CustodyTypeOK
<1> QED
  BY <1>1, <1>2, <1>3 DEF Files

\* An event told is the last of the log, which keeps the others.
LEMMA TellOK ==
  ASSUME log \in Seq(Event), NEW event \in Event, Tell(event)
  PROVE  /\ log' \in Seq(Event)
         /\ Len(log) \in Nat /\ Len(log) < MaxEvents
         /\ Len(log') = Len(log) + 1
         /\ log'[Len(log')] = event
         /\ \A n \in 1..Len(log) : log'[n] = log[n]
  BY CustodyAssumption DEF Tell

\* Each step of a ceremony or a rotation keeps the types.
LEMMA JobsTypes ==
  ASSUME TypeInv, Jobs
  PROVE  CustodyTypeOK' /\ \A q \in Procs : JobOK(jobs'[q])
<1> USE DEF TypeInv, AuthorityTypeOK
<1>0. PICK p \in Procs :
         \/ \E r \in Roots, t \in Tokens : BeginCeremony(p, r, t)
         \/ CheckAbsent(p) \/ PlaceFile(p) \/ PlaceFails(p) \/ VerifyPlaced(p)
         \/ EvaluateKeyFileMode(p) \/ Enrol(p) \/ EnrolFails(p) \/ CleanUp(p)
         \/ \E q \in Principals : BeginRotation(p, q)
         \/ \E t \in Tokens : Mint(p, t)
         \/ ReadProfile(p) \/ RevokeOthers(p) \/ Crash(p)
  BY DEF Jobs
<1> DEFINE job == jobs[p]
<1>j. JobOK(job) /\ job \in Job /\ job.created \in Seq(Files)
  BY DEF JobOK, Job
<1> HIDE DEF job
<1>1. ASSUME NEW r \in Roots, NEW t \in Tokens, BeginCeremony(p, r, t)
      PROVE  CustodyTypeOK' /\ \A q \in Procs : JobOK(jobs'[q])
  <2> DEFINE new == [Idle EXCEPT !.at = "check", !.job = "ceremony", !.file = "key",
                                 !.id = r, !.owner = r, !.token = t]
  <2>1. /\ new \in Job
        /\ new.at = "check" /\ new.job = "ceremony" /\ new.file = "key"
        /\ new.id = r /\ new.token = t
    BY IdleOK DEF JobOK, Job, Places, Files, Principals, Idle
  <2>2. JobOK(new)
    BY <2>1, CustodyAssumption DEF JobOK, Files
  <2>3. Becomes(p, new)
    BY <1>1 DEF BeginCeremony, Starts
  <2> HIDE DEF new
  <2> QED
    BY <1>1, <2>2, <2>3, BecomesOK DEF BeginCeremony, Starts, CustodyTypeOK, registryVars
<1>2. ASSUME CheckAbsent(p)
      PROVE  CustodyTypeOK' /\ \A q \in Procs : JobOK(jobs'[q])
  <2>1. job.at = "check" /\ job.job = "ceremony"
    BY <1>2, <1>j DEF CheckAbsent, JobOK, Job, job
  <2>2. CASE files[job.file] = None
    <3> DEFINE new == [job EXCEPT !.at = "place"]
    <3>1. /\ new \in Job /\ new.at = "place" /\ new.job = "ceremony"
          /\ new.file = job.file /\ new.id = job.id /\ new.token = job.token
      BY <1>j, <2>1 DEF Job, Places
    <3>2. JobOK(new)
      BY <1>j, <2>1, <3>1, CustodyAssumption DEF JobOK
    <3>3. Becomes(p, new)
      BY <1>2, <2>2 DEF CheckAbsent, GoesTo, job
    <3> HIDE DEF new
    <3> QED
      BY <1>2, <3>2, <3>3, BecomesOK DEF CheckAbsent, CustodyTypeOK, registryVars, history
  <2>3. CASE files[job.file] # None
    <3>1. FailsLeaving(p, job.created)
      BY <1>2, <2>3 DEF CheckAbsent, Fails, job
    <3> QED
      BY <1>2, <1>j, <2>1, <3>1, FailsOK, CustodyAssumption
      DEF CheckAbsent, CustodyTypeOK, registryVars, history, job
  <2> QED
    BY <2>2, <2>3
<1>3. ASSUME PlaceFile(p)
      PROVE  CustodyTypeOK' /\ \A q \in Procs : JobOK(jobs'[q])
  <2>1. job.at = "place" /\ job.job \in {"ceremony", "rotation"}
    BY <1>3, <1>j DEF PlaceFile, JobOK, Job, job
  <2> DEFINE new == [job EXCEPT !.at = "placed"]
  <2>2. /\ new \in Job /\ new.at = "placed" /\ new.job = job.job /\ new.created = job.created
        /\ new.file = job.file /\ new.id = job.id /\ new.token = job.token /\ new.owner = job.owner
    BY <1>j, <2>1 DEF Job, Places
  <2>3. JobOK(new)
    BY <1>j, <2>1, <2>2, CustodyAssumption DEF JobOK
  <2>4. Becomes(p, new)
    BY <1>3 DEF PlaceFile, GoesTo, job
  <2>5. \/ job.file # "profile" /\ Content(job) \in Roots
        \/ job.file = "profile" /\ Content(job) \in Profile
    BY <1>j, <2>1 DEF Content, JobOK, Profile, Principals
  <2>6. job.file \in Files /\ files' = [files EXCEPT ![job.file] = Content(job)]
    BY <1>j, <1>3, <2>1 DEF PlaceFile, JobOK, job, Files
  <2>7. files' \in [key : Roots \cup {None}, fingerprint : Roots \cup {None},
                    profile : Profile \cup {None}]
    BY <2>5, <2>6, PlacedOK
  <2> HIDE DEF new
  <2> QED
    BY <1>3, <2>3, <2>4, <2>7, BecomesOK DEF PlaceFile, CustodyTypeOK, registryVars, history
<1>4. ASSUME PlaceFails(p)
      PROVE  CustodyTypeOK' /\ \A q \in Procs : JobOK(jobs'[q])
  <2>1. /\ job.at = "place" /\ FailsLeaving(p, job.created)
        /\ job.job = "rotation" => job.created = <<>>
    BY <1>4, <1>j DEF PlaceFails, Fails, job, JobOK
  <2> QED
    BY <1>4, <1>j, <2>1, FailsOK DEF PlaceFails, CustodyTypeOK, registryVars, history, job
<1>5. ASSUME VerifyPlaced(p)
      PROVE  CustodyTypeOK' /\ \A q \in Procs : JobOK(jobs'[q])
  <2>1. /\ job.at = "placed" /\ job.job \in {"ceremony", "rotation"}
        /\ job.job = "rotation" => job.created = <<>>
    BY <1>5, <1>j DEF VerifyPlaced, JobOK, Job, job
  <2> DEFINE created == Append(job.created, job.file)
  <2>2. job.file \in Files /\ created \in Seq(Files)
    BY <1>j, <2>1 DEF JobOK, Files
  <2>3. CASE files[job.file] = None
    <3>1. FailsLeaving(p, job.created)
      BY <1>5, <2>3 DEF VerifyPlaced, Fails, job
    <3> QED
      BY <1>5, <1>j, <2>1, <3>1, FailsOK DEF VerifyPlaced, CustodyTypeOK, registryVars, history, job
  <2>4. CASE files[job.file] # None /\ job.job = "rotation"
    <3> DEFINE new == [job EXCEPT !.at = "revoke"]
    <3>1. /\ new \in Job /\ new.at = "revoke" /\ new.job = "rotation" /\ new.created = job.created
          /\ new.file = job.file /\ new.token = job.token /\ new.owner = job.owner
      BY <1>j, <2>4 DEF Job, Places
    <3>2. JobOK(new)
      BY <1>j, <2>1, <2>4, <3>1, CustodyAssumption DEF JobOK
    <3>3. Becomes(p, new)
      BY <1>5, <1>j, <2>4 DEF VerifyPlaced, GoesTo, job, JobOK
    <3> HIDE DEF new
    <3> QED
      BY <1>5, <3>2, <3>3, BecomesOK DEF VerifyPlaced, CustodyTypeOK, registryVars, history
  <2>5. CASE files[job.file] # None /\ job.job = "ceremony" /\ job.file = "key"
    <3> DEFINE new == [job EXCEPT !.at = "check", !.file = "fingerprint", !.created = created]
    <3>1. /\ new \in Job /\ new.at = "check" /\ new.job = "ceremony"
          /\ new.file = "fingerprint" /\ new.token = job.token /\ new.id = job.id
      BY <1>j, <2>2, <2>5 DEF Job, Places, Files
    <3>2. JobOK(new)
      BY <1>j, <2>1, <2>5, <3>1, CustodyAssumption DEF JobOK, Files
    <3>3. Becomes(p, new)
      BY <1>5, <2>5 DEF VerifyPlaced, Checks, job
    <3> HIDE DEF new
    <3> QED
      BY <1>5, <3>2, <3>3, BecomesOK DEF VerifyPlaced, CustodyTypeOK, registryVars, history
  <2>6. CASE files[job.file] # None /\ job.job = "ceremony" /\ job.file # "key"
    <3> DEFINE place == IF job.file = "fingerprint" THEN "mode" ELSE "enrol"
               new == [job EXCEPT !.at = place, !.created = created]
    <3>1. /\ new \in Job /\ new.at = place /\ new.job = "ceremony"
          /\ new.file = job.file /\ new.token = job.token /\ new.id = job.id
      BY <1>j, <2>2, <2>6 DEF Job, Places
    <3>2. JobOK(new)
      BY <1>j, <2>1, <2>6, <3>1, CustodyAssumption DEF JobOK
    <3>3. Becomes(p, new)
      BY <1>5, <2>6 DEF VerifyPlaced, job
    <3> HIDE DEF new
    <3> QED
      BY <1>5, <3>2, <3>3, BecomesOK DEF VerifyPlaced, CustodyTypeOK, registryVars, history
  <2> QED
    BY <2>1, <2>3, <2>4, <2>5, <2>6
<1>6. ASSUME EvaluateKeyFileMode(p)
      PROVE  CustodyTypeOK' /\ \A q \in Procs : JobOK(jobs'[q])
  <2>1. job.at = "mode" /\ job.job = "ceremony"
    BY <1>6, <1>j DEF EvaluateKeyFileMode, JobOK, Job, job
  <2>2. CASE files.key = None
    BY <1>6, <2>2, IdleOK, BecomesOK DEF EvaluateKeyFileMode, CustodyTypeOK, registryVars, history
  <2>3. CASE files.key # None
    <3> DEFINE new == [job EXCEPT !.at = "check", !.file = "profile", !.created = job.created]
    <3>1. /\ new \in Job /\ new.at = "check" /\ new.job = "ceremony"
          /\ new.file = "profile" /\ new.token = job.token /\ new.id = job.id
      BY <1>j, <2>1 DEF Job, Places, Files
    <3>2. JobOK(new)
      BY <1>j, <2>1, <3>1, CustodyAssumption DEF JobOK, Files
    <3>3. Becomes(p, new)
      BY <1>6, <2>3 DEF EvaluateKeyFileMode, Checks, job
    <3> HIDE DEF new
    <3> QED
      BY <1>6, <3>2, <3>3, BecomesOK DEF EvaluateKeyFileMode, CustodyTypeOK, registryVars, history
  <2> QED
    BY <2>2, <2>3
<1>7. ASSUME Enrol(p)
      PROVE  CustodyTypeOK' /\ \A q \in Procs : JobOK(jobs'[q])
  <2>1. job.id \in Roots /\ job.token \in Tokens
    BY <1>7, <1>j DEF Enrol, JobOK, Job, job
  <2>2. EventOf("principal.bootstrapped", job.id, job.id) \in Event
    BY <2>1 DEF EventOf, Event, Principals
  <2>3. log' \in Seq(Event)
    BY <1>7, <2>2, TellOK DEF Enrol, CustodyTypeOK, job
  <2>4. Becomes(p, Idle)
    BY <1>7 DEF Enrol
  <2>5. /\ principals' = [principals EXCEPT ![job.id] = "active"]
        /\ keys' = [keys EXCEPT ![job.id] = "active"]
        /\ credentials' = [credentials EXCEPT ![job.token] = [owner |-> job.id, status |-> "active"]]
        /\ UNCHANGED <<files, overlapped, abandoned>>
    BY <1>7 DEF Enrol, history, job
  <2> QED
    BY <2>1, <2>3, <2>4, <2>5, IdleOK, BecomesOK DEF CustodyTypeOK, Credential, Principals
<1>8. ASSUME EnrolFails(p)
      PROVE  CustodyTypeOK' /\ \A q \in Procs : JobOK(jobs'[q])
  <2>1. /\ job.at = "enrol" /\ FailsLeaving(p, job.created)
        /\ job.job = "rotation" => job.created = <<>>
    BY <1>8, <1>j DEF EnrolFails, Fails, job, JobOK
  <2> QED
    BY <1>8, <1>j, <2>1, FailsOK DEF EnrolFails, CustodyTypeOK, registryVars, history, job
<1>9. ASSUME CleanUp(p)
      PROVE  CustodyTypeOK' /\ \A q \in Procs : JobOK(jobs'[q])
  <2>1. /\ job.at = "cleanup" /\ job.job = "ceremony" /\ job.created # <<>>
        /\ FailsLeaving(p, Tail(job.created))
        /\ files' = [files EXCEPT ![Head(job.created)] = None]
    BY <1>9, <1>j DEF CleanUp, JobOK, Job, job
  <2>2. Head(job.created) \in Files /\ Tail(job.created) \in Seq(Files)
    BY <1>j, <2>1
  <2>3. files' \in [key : Roots \cup {None}, fingerprint : Roots \cup {None},
                    profile : Profile \cup {None}]
    BY <2>1, <2>2, PlacedOK
  <2> QED
    BY <1>9, <2>1, <2>2, <2>3, FailsOK, CustodyAssumption
    DEF CleanUp, CustodyTypeOK, registryVars, history, job
<1>10. ASSUME NEW q \in Principals, BeginRotation(p, q)
      PROVE  CustodyTypeOK' /\ \A s \in Procs : JobOK(jobs'[s])
  <2> DEFINE new == [Idle EXCEPT !.at = "mint", !.job = "rotation", !.file = "profile",
                                 !.owner = q]
  <2>1. /\ new \in Job /\ new.created = <<>>
        /\ new.at = "mint" /\ new.job = "rotation" /\ new.file = "profile" /\ new.owner = q
    BY IdleOK DEF JobOK, Job, Places, Files, Idle
  <2>2. JobOK(new)
    BY <2>1, CustodyAssumption DEF JobOK
  <2>3. Becomes(p, new)
    BY <1>10 DEF BeginRotation, Starts
  <2> HIDE DEF new
  <2> QED
    BY <1>10, <2>2, <2>3, BecomesOK DEF BeginRotation, Starts, CustodyTypeOK, registryVars
<1>11. ASSUME NEW t \in Tokens, Mint(p, t)
      PROVE  CustodyTypeOK' /\ \A q \in Procs : JobOK(jobs'[q])
  <2>1. job.at = "mint" /\ job.job = "rotation" /\ job.owner \in Principals
    BY <1>11, <1>j DEF Mint, JobOK, Job, job
  <2> DEFINE new == [job EXCEPT !.at = "profile", !.token = t]
  <2>2. /\ new \in Job /\ new.created = job.created /\ new.token = t
        /\ new.at = "profile" /\ new.job = "rotation" /\ new.file = job.file /\ new.owner = job.owner
    BY <1>j, <2>1 DEF Job, Places
  <2>3. JobOK(new)
    BY <1>j, <2>1, <2>2, CustodyAssumption DEF JobOK
  <2>4. /\ Becomes(p, new)
        /\ credentials' = [credentials EXCEPT ![t] = [owner |-> job.owner, status |-> "active"]]
    BY <1>11 DEF Mint, job
  <2>5. credentials' \in [Tokens -> Credential \cup {None}]
    BY <2>1, <2>4 DEF CustodyTypeOK, Credential
  <2> HIDE DEF new
  <2> QED
    BY <1>11, <2>3, <2>4, <2>5, BecomesOK DEF Mint, CustodyTypeOK, history
<1>12. ASSUME ReadProfile(p)
      PROVE  CustodyTypeOK' /\ \A q \in Procs : JobOK(jobs'[q])
  <2>1. job.at = "profile" /\ job.job = "rotation" /\ job.created = <<>>
    BY <1>12, <1>j DEF ReadProfile, JobOK, Job, job
  <2>2. CASE files.profile = None
    <3>1. FailsLeaving(p, job.created)
      BY <1>12, <2>2 DEF ReadProfile, Fails, job
    <3> QED
      BY <1>12, <1>j, <2>1, <3>1, FailsOK DEF ReadProfile, CustodyTypeOK, registryVars, history, job
  <2>3. CASE files.profile # None
    <3> DEFINE new == [job EXCEPT !.at = "place", !.id = files.profile.id]
    <3>0. files.profile.id \in Principals
      BY <2>3 DEF CustodyTypeOK, Profile
    <3>1. /\ new \in Job /\ new.created = job.created /\ new.token = job.token
          /\ new.id = files.profile.id /\ new.at = "place" /\ new.job = "rotation"
          /\ new.file = job.file /\ new.owner = job.owner
      BY <1>j, <2>1, <3>0 DEF Job, Places
    <3>2. JobOK(new)
      BY <1>j, <2>1, <3>0, <3>1, CustodyAssumption DEF JobOK
    <3>3. Becomes(p, new)
      BY <1>12, <2>3 DEF ReadProfile, job
    <3> HIDE DEF new
    <3> QED
      BY <1>12, <3>2, <3>3, BecomesOK DEF ReadProfile, CustodyTypeOK, registryVars, history
  <2> QED
    BY <2>2, <2>3
<1>13. ASSUME RevokeOthers(p)
      PROVE  CustodyTypeOK' /\ \A q \in Procs : JobOK(jobs'[q])
  <2>1. job.owner \in Principals
    BY <1>13, <1>j DEF RevokeOthers, JobOK, Job, job
  <2>2. EventOf("principal.credential_minted", job.owner, job.owner) \in Event
    BY <2>1 DEF EventOf, Event
  <2>3. log' \in Seq(Event)
    BY <1>13, <2>2, TellOK DEF RevokeOthers, CustodyTypeOK, job
  <2>4. credentials' \in [Tokens -> Credential \cup {None}]
    BY <1>13, <2>1 DEF RevokeOthers, CustodyTypeOK, Credential, job
  <2> QED
    BY <1>13, <2>3, <2>4, IdleOK, BecomesOK DEF RevokeOthers, CustodyTypeOK, history
<1>14. ASSUME Crash(p)
      PROVE  CustodyTypeOK' /\ \A q \in Procs : JobOK(jobs'[q])
  BY <1>14, IdleOK, BecomesOK DEF Crash, CustodyTypeOK, registryVars
<1> QED
  BY <1>0, <1>1, <1>2, <1>3, <1>4, <1>5, <1>6, <1>7, <1>8, <1>9, <1>10, <1>11, <1>12,
     <1>13, <1>14

\* The latest head is a head of the log, or none.
LEMMA LatestHeadOK ==
  ASSUME anchors \subseteq Anchor,
         anchors = {} \/ \E a \in anchors : \A b \in anchors : b.head <= a.head
  PROVE  /\ LatestHead \in 0..MaxEvents
         /\ \A b \in anchors : b.head <= LatestHead
         /\ LatestHead = 0 \/ \E a \in anchors : a.head = LatestHead
<1>1. CASE anchors = {}
  BY <1>1, CustodyAssumption DEF LatestHead
<1>2. CASE anchors # {}
  <2> DEFINE heads == {a.head : a \in anchors}
  <2>1. \E n \in heads : \A a \in anchors : a.head <= n
    BY <1>2
  <2>2. LatestHead \in heads /\ \A a \in anchors : a.head <= LatestHead
    BY <1>2, <2>1 DEF LatestHead
  <2>3. PICK a \in anchors : a.head = LatestHead
    BY <2>2
  <2>4. a.head \in 1..MaxEvents
    BY DEF Anchor
  <2> QED
    BY <2>2, <2>3, <2>4, CustodyAssumption
<1> QED
  BY <1>1, <1>2

\* One of the anchors is the latest.
AnchorsHaveLatest ==
    anchors = {} \/ \E a \in anchors : \A b \in anchors : b.head <= a.head

\* Every step keeps the types.
LEMMA TypesKept ==
  ASSUME TypeInv, AnchorsHaveLatest, [Next]_vars
  PROVE  TypeInv'
<1> USE DEF TypeInv, AuthorityTypeOK
<1>1. ASSUME Jobs, UNCHANGED authorityVars
      PROVE  TypeInv'
  BY <1>1, JobsTypes DEF authorityVars
<1>2. ASSUME Embedding, UNCHANGED authorityVars
      PROVE  TypeInv'
  <2>1. /\ UNCHANGED <<files, credentials, log, jobs, overlapped, abandoned>>
        /\ principals' \in [Principals -> {"absent", "active", "disabled"}]
        /\ keys' \in [Principals -> {"absent", "active", "revoked"}]
    <3>1. CASE \E q \in Peers : EnrolPeer(q)
      BY <3>1 DEF EnrolPeer, CustodyTypeOK, history
    <3>2. CASE \E q \in Principals : StandDown(q)
      BY <3>2 DEF StandDown, CustodyTypeOK, history
    <3>3. CASE \E q \in Principals, status \in {"active", "disabled"} : SetPrincipalStatus(q, status)
      BY <3>3 DEF SetPrincipalStatus, CustodyTypeOK, history
    <3> QED
      BY <1>2, <3>1, <3>2, <3>3 DEF Embedding
  <2> QED
    BY <1>2, <2>1 DEF authorityVars, CustodyTypeOK
<1>3. ASSUME NEW x \in Requests,
             NEW kind \in {"principal.key_attested", "principal.key_revoked"},
             NEW by \in Principals, NEW subject \in Principals,
             BeginRequest(x, kind, by, subject)
      PROVE  TypeInv'
  BY <1>3 DEF BeginRequest, custodyVars, registryVars, history, CustodyTypeOK, Request
<1>4. ASSUME NEW x \in Requests, SignRequest(x)
      PROVE  TypeInv'
  <2>1. requests' \in [Requests -> Request \cup {None}]
    BY <1>4 DEF SignRequest, Request
  <2> QED
    BY <1>4, <2>1 DEF SignRequest, custodyVars, registryVars, history, CustodyTypeOK
<1>5. ASSUME NEW x \in Requests, DropRequest(x)
      PROVE  TypeInv'
  BY <1>5 DEF DropRequest, custodyVars, registryVars, history, CustodyTypeOK
<1>6. ASSUME NEW x \in Requests, RecordAttestation(x)
      PROVE  TypeInv'
  <2>1. requests[x] \in Request
    BY <1>6 DEF RecordAttestation
  <2>2. EventOf("principal.key_attested", requests[x].by, requests[x].subject) \in Event
    BY <2>1 DEF EventOf, Event, Request
  <2>3. log' \in Seq(Event)
    BY <1>6, <2>2, TellOK DEF RecordAttestation, CustodyTypeOK
  <2> QED
    BY <1>6, <2>3 DEF RecordAttestation, registryVars, history, CustodyTypeOK
<1>7. ASSUME NEW x \in Requests, RecordRevocation(x)
      PROVE  TypeInv'
  <2>1. requests[x] \in Request
    BY <1>7 DEF RecordRevocation
  <2>2. EventOf("principal.key_revoked", requests[x].by, requests[x].subject) \in Event
    BY <2>1 DEF EventOf, Event, Request
  <2>3. log' \in Seq(Event)
    BY <1>7, <2>2, TellOK DEF RecordRevocation, CustodyTypeOK
  <2> QED
    BY <1>7, <2>1, <2>3 DEF RecordRevocation, registryVars, history, CustodyTypeOK, Request
<1>8. ASSUME NEW by \in Principals, AttestHead(by)
      PROVE  TypeInv'
  <2>1. EventOf("chain.head_attested", by, None) \in Event
    BY DEF EventOf, Event
  <2>2. log' \in Seq(Event) /\ Len(log) \in Nat /\ Len(log) < MaxEvents
    BY <1>8, <2>1, TellOK DEF AttestHead, CustodyTypeOK
  <2>3. LatestHead \in 0..MaxEvents
    BY LatestHeadOK DEF AnchorsHaveLatest
  <2>4. Len(log) \in 1..MaxEvents
    BY <1>8, <2>2, <2>3, CustodyAssumption DEF AttestHead, NewFacts
  <2>5. anchors' \subseteq Anchor
    BY <1>8, <2>3, <2>4 DEF AttestHead, Anchor
  <2> QED
    BY <1>8, <2>2, <2>5 DEF AttestHead, registryVars, history, CustodyTypeOK
<1>9. ASSUME OtherEvent
      PROVE  TypeInv'
  <2>1. EventOf("other", None, None) \in Event
    BY DEF EventOf, Event
  <2>2. log' \in Seq(Event)
    BY <1>9, <2>1, TellOK DEF OtherEvent, CustodyTypeOK
  <2> QED
    BY <1>9, <2>2 DEF OtherEvent, registryVars, history, authorityVars, CustodyTypeOK
<1>10. ASSUME UNCHANGED vars
       PROVE  TypeInv'
  BY <1>10 DEF vars, custodyVars, registryVars, history, authorityVars, CustodyTypeOK
<1> QED
  BY <1>1, <1>2, <1>3, <1>4, <1>5, <1>6, <1>7, <1>8, <1>9, <1>10 DEF Next

-------------------------------------------------------------------------------
(* The inductive invariant.                                                *)

\* A key belongs to an enrolled principal, and a ceremony that was told enrolled one.
RegistryInv ==
    /\ \A q \in Principals : principals[q] = "absent" => keys[q] = "absent"
    /\ \A n \in 1..Len(log) : log[n].kind = "principal.bootstrapped" =>
          log[n].by \in Principals /\ principals[log[n].by] # "absent"

\* A request is about an enrolled key.
RequestsNamed ==
    \A x \in Requests : requests[x] # None => keys[requests[x].subject] # "absent"

\* A revocation that was told names who revoked whose key.
RevocationsNamed ==
    \A n \in 1..Len(log) : RevocationAt(n) => log[n].by \in Principals /\ log[n].of \in Principals

Inv ==
    /\ TypeInv
    /\ RegistryInv
    /\ RequestsNamed
    /\ OneRoot
    /\ RevocationsNamed
    /\ RevocationsAgree
    /\ RevokedKeysFallSilent
    /\ AnchorsHaveLatest
    /\ AnchorsFormAChain

\* A step that tells nothing and records nothing.
Silent ==
    /\ UNCHANGED <<log, revokedBy, anchors>>
    /\ \A q \in Principals : principals[q] # "absent" => principals'[q] # "absent"
    /\ \A r \in Roots : principals'[r] # "absent" => principals[r] # "absent"
    /\ \A q \in Principals : keys[q] = "revoked" => keys'[q] = "revoked"
    /\ \A q \in Principals : principals'[q] = "absent" => keys'[q] = "absent"

\* A step that tells an event of its own and changes nobody's standing.
Plain(event) ==
    /\ Tell(event)
    /\ event.kind \in {"principal.credential_minted", "principal.key_attested", "other"}
    /\ event.kind = "principal.key_attested" => event.by \in Principals /\ Standing(event.by)
    /\ UNCHANGED <<principals, keys, revokedBy, anchors>>

\* What the steps do, as far as the invariant is concerned.
LEMMA Steps ==
  ASSUME Inv, [Next]_vars
  PROVE  \/ Silent
         \/ \E p \in Procs : Enrol(p) /\ UNCHANGED authorityVars
         \/ \E event \in Event : Plain(event)
         \/ \E x \in Requests : RecordRevocation(x)
         \/ \E by \in Principals : AttestHead(by)
<1> USE DEF Inv
<1>0. \A q \in Principals : principals[q] = "absent" => keys[q] = "absent"
  BY DEF RegistryInv
<1>r. ASSUME UNCHANGED <<log, principals, keys, revokedBy, anchors>>
      PROVE  Silent
  BY <1>0, <1>r DEF Silent
<1>1. ASSUME Jobs, UNCHANGED authorityVars,
             ~ \E p \in Procs : Enrol(p), ~ \E p \in Procs : RevokeOthers(p)
      PROVE  Silent
  <2>1. UNCHANGED <<log, principals, keys>>
    BY <1>1 DEF Jobs, BeginCeremony, CheckAbsent, PlaceFile, PlaceFails, VerifyPlaced,
       EvaluateKeyFileMode, EnrolFails, CleanUp, BeginRotation, Mint, ReadProfile, Crash, registryVars
  <2> QED
    BY <1>1, <1>r, <2>1 DEF authorityVars
<1>2. ASSUME NEW p \in Procs, RevokeOthers(p), UNCHANGED authorityVars
      PROVE  \E event \in Event : Plain(event)
  <2> DEFINE event == EventOf("principal.credential_minted", jobs[p].owner, jobs[p].owner)
  <2>1. jobs[p].owner \in Principals
    BY <1>2 DEF RevokeOthers, TypeInv, JobOK, Job
  <2>2. event \in Event /\ event.kind = "principal.credential_minted"
    BY <2>1 DEF EventOf, Event
  <2>3. Plain(event)
    BY <1>2, <2>2 DEF RevokeOthers, Plain, authorityVars
  <2> HIDE DEF event
  <2> QED
    BY <2>2, <2>3
<1>3. ASSUME Embedding, UNCHANGED authorityVars
      PROVE  Silent
  <2>1. CASE \E q \in Peers : EnrolPeer(q)
    <3>1. PICK q \in Peers : EnrolPeer(q)
      BY <2>1
    <3> QED
      BY <1>0, <1>3, <3>1, CustodyAssumption
      DEF EnrolPeer, Silent, Principals, authorityVars, TypeInv, AuthorityTypeOK, CustodyTypeOK
  <2>2. CASE \E q \in Principals : StandDown(q)
    <3>1. PICK q \in Principals : StandDown(q)
      BY <2>2
    <3> QED
      BY <1>0, <1>3, <3>1
      DEF StandDown, Silent, authorityVars, TypeInv, AuthorityTypeOK, CustodyTypeOK, Principals
  <2>3. CASE \E q \in Principals, status \in {"active", "disabled"} : SetPrincipalStatus(q, status)
    <3>1. PICK q \in Principals, status \in {"active", "disabled"} : SetPrincipalStatus(q, status)
      BY <2>3
    <3> QED
      BY <1>0, <1>3, <3>1
      DEF SetPrincipalStatus, Silent, authorityVars, TypeInv, AuthorityTypeOK, CustodyTypeOK, Principals
  <2> QED
    BY <1>3, <2>1, <2>2, <2>3 DEF Embedding
<1>4. ASSUME NEW x \in Requests,
             \/ \E kind \in {"principal.key_attested", "principal.key_revoked"},
                  by \in Principals, subject \in Principals : BeginRequest(x, kind, by, subject)
             \/ SignRequest(x) \/ DropRequest(x)
      PROVE  Silent
  BY <1>4, <1>r DEF BeginRequest, SignRequest, DropRequest, custodyVars, registryVars
<1>5. ASSUME NEW x \in Requests, RecordAttestation(x)
      PROVE  \E event \in Event : Plain(event)
  <2> DEFINE event == EventOf("principal.key_attested", requests[x].by, requests[x].subject)
  <2>1. requests[x] \in Request
    BY <1>5 DEF RecordAttestation, TypeInv, AuthorityTypeOK
  <2>2. event \in Event /\ event.kind = "principal.key_attested" /\ event.by = requests[x].by
        /\ requests[x].by \in Principals
    BY <2>1 DEF EventOf, Event, Request
  <2>3. Plain(event)
    BY <1>5, <2>2 DEF RecordAttestation, MayRecord, Plain, registryVars
  <2> HIDE DEF event
  <2> QED
    BY <2>2, <2>3
<1>6. ASSUME OtherEvent
      PROVE  \E event \in Event : Plain(event)
  <2>1. EventOf("other", None, None) \in Event /\ EventOf("other", None, None).kind = "other"
    BY DEF EventOf, Event
  <2>2. Plain(EventOf("other", None, None))
    BY <1>6, <2>1 DEF OtherEvent, Plain, registryVars, authorityVars
  <2> QED
    BY <2>1, <2>2
<1>7. ASSUME UNCHANGED vars
      PROVE  Silent
  BY <1>7, <1>r DEF vars, custodyVars, registryVars, authorityVars
<1> QED
  BY <1>1, <1>2, <1>3, <1>4, <1>5, <1>6, <1>7 DEF Next

\* The positions of the log after a step that tells an event.
LEMMA Positions ==
  ASSUME log \in Seq(Event), NEW event \in Event, Tell(event)
  PROVE  /\ Len(log) \in Nat /\ Len(log') = Len(log) + 1
         /\ \A n \in 1..Len(log') :
               \/ n \in 1..Len(log) /\ log'[n] = log[n]
               \/ n = Len(log) + 1 /\ log'[n] = event
         /\ \A n \in 1..Len(log) : n \in 1..Len(log') /\ log'[n] = log[n]
         /\ Len(log) + 1 \in 1..Len(log') /\ log'[Len(log) + 1] = event
  BY TellOK

\* What requests are about stays enrolled.
LEMMA RequestsKept ==
  ASSUME Inv, [Next]_vars
  PROVE  RequestsNamed'
<1> USE DEF Inv, TypeInv, AuthorityTypeOK, CustodyTypeOK
<1>1. \A q \in Principals : keys[q] # "absent" => keys'[q] # "absent"
  <2>1. ASSUME NEW p \in Procs, Enrol(p)
        PROVE  \A q \in Principals : keys[q] # "absent" => keys'[q] # "absent"
    BY <2>1 DEF Enrol
  <2>2. ASSUME NEW q \in Peers, EnrolPeer(q)
        PROVE  \A s \in Principals : keys[s] # "absent" => keys'[s] # "absent"
    BY <2>2 DEF EnrolPeer
  <2>3. ASSUME NEW q \in Principals, StandDown(q)
        PROVE  \A s \in Principals : keys[s] # "absent" => keys'[s] # "absent"
    BY <2>3 DEF StandDown
  <2>4. ASSUME NEW x \in Requests, RecordRevocation(x)
        PROVE  \A s \in Principals : keys[s] # "absent" => keys'[s] # "absent"
    BY <2>4 DEF RecordRevocation
  <2> QED
    BY <2>1, <2>2, <2>3, <2>4 DEF Next, Jobs, BeginCeremony, CheckAbsent, PlaceFile, PlaceFails,
       VerifyPlaced, EvaluateKeyFileMode, EnrolFails, CleanUp, BeginRotation, Mint, ReadProfile,
       RevokeOthers, Crash, Embedding, SetPrincipalStatus, BeginRequest, SignRequest, DropRequest,
       RecordAttestation, AttestHead, OtherEvent, vars, custodyVars, registryVars
<1>2. ASSUME NEW x \in Requests
      PROVE  \/ requests'[x] = None
             \/ requests[x] # None /\ requests'[x].subject = requests[x].subject
                /\ requests[x].subject \in Principals
             \/ requests'[x].subject \in Principals /\ keys[requests'[x].subject] # "absent"
  <2>1. requests[x] # None => requests[x] \in Request /\ requests[x].subject \in Principals
    BY DEF Request
  <2>2. ASSUME NEW y \in Requests, NEW kind, NEW by \in Principals, NEW subject \in Principals,
               BeginRequest(y, kind, by, subject)
        PROVE  \/ requests'[x] = requests[x]
               \/ requests'[x].subject = subject /\ keys[subject] # "absent"
    BY <2>2 DEF BeginRequest
  <2>3. ASSUME NEW y \in Requests, SignRequest(y)
        PROVE  \/ requests'[x] = requests[x] \/ requests'[x] = None
               \/ requests[x] # None /\ requests'[x].subject = requests[x].subject
    BY <2>1, <2>3 DEF SignRequest, Request
  <2>4. ASSUME NEW y \in Requests, DropRequest(y) \/ RecordAttestation(y) \/ RecordRevocation(y)
        PROVE  requests'[x] = requests[x] \/ requests'[x] = None
    BY <2>4 DEF DropRequest, RecordAttestation, RecordRevocation
  <2>5. ASSUME \/ UNCHANGED authorityVars \/ OtherEvent \/ UNCHANGED vars
               \/ \E by \in Principals : AttestHead(by)
        PROVE  requests'[x] = requests[x]
    BY <2>5 DEF authorityVars, OtherEvent, vars, AttestHead
  <2> QED
    BY <2>1, <2>2, <2>3, <2>4, <2>5 DEF Next
<1> QED
  BY <1>1, <1>2 DEF RequestsNamed

\* The registry and the one root.
LEMMA RootKept ==
  ASSUME Inv, [Next]_vars
  PROVE  RegistryInv' /\ OneRoot'
<1> USE DEF Inv, TypeInv, AuthorityTypeOK, CustodyTypeOK
<1>1. CASE Silent
  BY <1>1 DEF Silent, RegistryInv, OneRoot, Principals
<1>2. ASSUME NEW event \in Event, Tell(event), event.kind # "principal.bootstrapped",
             UNCHANGED principals,
             \A q \in Principals : keys[q] = "absent" => keys'[q] = "absent"
      PROVE  RegistryInv' /\ OneRoot'
  <2>1. RegistryInv'
    <3>1. \A q \in Principals : principals'[q] = "absent" => keys'[q] = "absent"
      BY <1>2 DEF RegistryInv
    <3>2. \A n \in 1..Len(log') : log'[n].kind = "principal.bootstrapped" =>
             n \in 1..Len(log) /\ log'[n] = log[n]
      BY <1>2, Positions
    <3>3. \A n \in 1..Len(log') : log'[n].kind = "principal.bootstrapped" =>
             log'[n].by \in Principals /\ principals'[log'[n].by] # "absent"
      BY <1>2, <3>2 DEF RegistryInv
    <3> QED
      BY <3>1, <3>3 DEF RegistryInv
  <2>2. OneRoot'
    <3>1. \A r, s \in Roots : principals'[r] # "absent" /\ principals'[s] # "absent" => r = s
      BY <1>2 DEF OneRoot
    <3>2. ASSUME NEW r \in Roots, principals'[r] # "absent"
          PROVE  \E n \in 1..Len(log') : log'[n] = EventOf("principal.bootstrapped", r, r)
      <4>1. PICK n \in 1..Len(log) : log[n] = EventOf("principal.bootstrapped", r, r)
        BY <1>2, <3>2 DEF OneRoot
      <4>2. n \in 1..Len(log') /\ log'[n] = log[n]
        BY <1>2, Positions
      <4> QED
        BY <4>1, <4>2
    <3>3. \A n \in 1..Len(log') : log'[n].kind = "principal.bootstrapped" =>
             n \in 1..Len(log) /\ log'[n] = log[n]
      BY <1>2, Positions
    <3>4. \A m, n \in 1..Len(log') :
             log'[m].kind = "principal.bootstrapped" /\ log'[n].kind = "principal.bootstrapped"
             => m = n
      BY <3>3 DEF OneRoot
    <3> QED
      BY <3>1, <3>2, <3>4 DEF OneRoot
  <2> QED
    BY <2>1, <2>2
<1>3. CASE \E event \in Event : Plain(event)
  BY <1>2, <1>3 DEF Plain
<1>4. ASSUME NEW x \in Requests, RecordRevocation(x)
      PROVE  RegistryInv' /\ OneRoot'
  <2> DEFINE event == EventOf("principal.key_revoked", requests[x].by, requests[x].subject)
  <2>1. requests[x] \in Request
    BY <1>4 DEF RecordRevocation
  <2>2. event \in Event /\ event.kind = "principal.key_revoked"
    BY <2>1 DEF EventOf, Event, Request
  <2>3. /\ Tell(event) /\ UNCHANGED principals
        /\ keys' = [keys EXCEPT ![requests[x].subject] = "revoked"]
        /\ keys[requests[x].subject] # "absent"
    BY <1>4 DEF RecordRevocation, RequestsNamed
  <2> HIDE DEF event
  <2> QED
    BY <1>2, <2>1, <2>2, <2>3
<1>5. ASSUME NEW by \in Principals, AttestHead(by)
      PROVE  RegistryInv' /\ OneRoot'
  <2>1. /\ EventOf("chain.head_attested", by, None) \in Event
        /\ EventOf("chain.head_attested", by, None).kind = "chain.head_attested"
    BY DEF EventOf, Event
  <2> QED
    BY <1>2, <1>5, <2>1 DEF AttestHead, registryVars
<1>6. ASSUME NEW p \in Procs, Enrol(p)
      PROVE  RegistryInv' /\ OneRoot'
  <2> DEFINE r == jobs[p].id
             event == EventOf("principal.bootstrapped", r, r)
  <2>1. r \in Roots /\ r \in Principals
    BY <1>6 DEF Enrol, JobOK, Job, Principals
  <2>2. event \in Event /\ event.kind = "principal.bootstrapped" /\ event.by = r
    BY <2>1 DEF EventOf, Event
  <2>3. Tell(event)
    BY <1>6 DEF Enrol
  <2>4. /\ \A q \in Principals : principals[q] = "absent" /\ keys[q] = "absent"
        /\ \A n \in 1..Len(log) : log[n].kind # "principal.bootstrapped"
    BY <1>6 DEF Enrol, MayEnrol, RegistryEmpty, RegistryInv
  <2>5. /\ principals' = [principals EXCEPT ![r] = "active"]
        /\ keys' = [keys EXCEPT ![r] = "active"]
    BY <1>6 DEF Enrol
  <2> HIDE DEF r, event
  <2>6. RegistryInv'
    <3>1. \A q \in Principals : principals'[q] = "absent" => keys'[q] = "absent"
      BY <2>1, <2>4, <2>5
    <3>2. \A n \in 1..Len(log') : log'[n].kind = "principal.bootstrapped" => log'[n] = event
      BY <2>2, <2>3, <2>4, Positions
    <3>3. principals'[r] # "absent"
      BY <2>1, <2>5
    <3>4. \A n \in 1..Len(log') : log'[n].kind = "principal.bootstrapped" =>
             log'[n].by \in Principals /\ principals'[log'[n].by] # "absent"
      BY <2>1, <2>2, <3>2, <3>3
    <3> QED
      BY <3>1, <3>4 DEF RegistryInv
  <2>7. OneRoot'
    <3>1. \A q \in Principals : principals'[q] # "absent" => q = r
      BY <2>1, <2>4, <2>5
    <3>2. event = EventOf("principal.bootstrapped", r, r)
      BY DEF event
    <3>3. /\ Len(log) + 1 \in 1..Len(log') /\ log'[Len(log) + 1] = event
          /\ \A n \in 1..Len(log') :
                log'[n].kind = "principal.bootstrapped" => n = Len(log) + 1
      BY <2>2, <2>3, <2>4, Positions
    <3>4. \A q \in Roots : principals'[q] # "absent" =>
             log'[Len(log) + 1] = EventOf("principal.bootstrapped", q, q)
      BY <3>1, <3>2, <3>3 DEF Principals
    <3> QED
      BY <3>1, <3>3, <3>4 DEF OneRoot, Principals
  <2> QED
    BY <2>6, <2>7
<1> QED
  BY <1>1, <1>3, <1>4, <1>5, <1>6, Steps

\* The record of revocations.
LEMMA RevocationsKept ==
  ASSUME Inv, [Next]_vars
  PROVE  RevocationsNamed' /\ RevocationsAgree'
<1> USE DEF Inv, TypeInv, AuthorityTypeOK, CustodyTypeOK
<1>1. CASE Silent
  BY <1>1 DEF Silent, RevocationsNamed, RevocationsAgree, RevocationAt
<1>2. ASSUME NEW event \in Event, Tell(event), event.kind # "principal.key_revoked",
             UNCHANGED revokedBy,
             \A q \in Principals : keys[q] = "revoked" => keys'[q] = "revoked"
      PROVE  RevocationsNamed' /\ RevocationsAgree'
  <2>1. RevocationsNamed'
    BY <1>2, Positions DEF RevocationsNamed, RevocationAt
  <2>2. \A n \in 1..Len(log') : RevocationAt(n)' =>
           n \in 1..Len(log) /\ log'[n] = log[n] /\ RevocationAt(n)
    BY <1>2, Positions DEF RevocationAt
  <2>3. \A n \in 1..Len(log) : n \in 1..Len(log') /\ log'[n] = log[n]
    BY <1>2, Positions
  <2>4. RevocationsAgree'
    BY <1>2, <2>2, <2>3 DEF RevocationsAgree
  <2> QED
    BY <2>1, <2>4
<1>3. CASE \E event \in Event : Plain(event)
  BY <1>2, <1>3 DEF Plain
<1>4. ASSUME NEW x \in Requests, RecordRevocation(x)
      PROVE  RevocationsNamed' /\ RevocationsAgree'
  <2> DEFINE by == requests[x].by
             of == requests[x].subject
             event == EventOf("principal.key_revoked", by, of)
  <2>1. by \in Principals /\ of \in Principals
    BY <1>4 DEF RecordRevocation, Request
  <2>2. /\ event \in Event /\ event.kind = "principal.key_revoked"
        /\ event.by = by /\ event.of = of
    BY <2>1 DEF EventOf, Event
  <2>3. /\ Tell(event) /\ revokedBy[of] = None
        /\ revokedBy' = [revokedBy EXCEPT ![of] = by]
        /\ keys' = [keys EXCEPT ![of] = "revoked"]
    BY <1>4 DEF RecordRevocation, Unrevoked
  <2>e. event = EventOf("principal.key_revoked", by, of)
    OBVIOUS
  <2> HIDE DEF by, of, event
  <2>4. RevocationsNamed'
    BY <2>1, <2>2, <2>3, Positions DEF RevocationsNamed, RevocationAt
  <2>5. \A n \in 1..Len(log) : RevocationAt(n) => log[n].of # of
    BY <2>1, <2>3, CustodyAssumption DEF RevocationsNamed, RevocationsAgree, Principals
  <2>6. \A q \in Principals : revokedBy'[q] # None =>
           /\ keys'[q] = "revoked"
           /\ \E n \in 1..Len(log') : log'[n] = EventOf("principal.key_revoked", revokedBy'[q], q)
    <3>1. \A q \in Principals \ {of} : revokedBy'[q] = revokedBy[q] /\ keys'[q] = keys[q]
      BY <2>3
    <3>2. revokedBy'[of] = by /\ keys'[of] = "revoked"
      BY <2>1, <2>3
    <3> QED
      BY <2>2, <2>3, <2>e, <3>1, <3>2, Positions DEF RevocationsAgree
  <2>7. \A n \in 1..Len(log') : RevocationAt(n)' => revokedBy'[log'[n].of] = log'[n].by
    BY <2>1, <2>2, <2>3, <2>5, Positions DEF RevocationsAgree, RevocationsNamed, RevocationAt
  <2>8. \A m, n \in 1..Len(log') :
           RevocationAt(m)' /\ RevocationAt(n)' /\ log'[m].of = log'[n].of => m = n
    BY <2>1, <2>2, <2>3, <2>5, Positions DEF RevocationsAgree, RevocationAt
  <2> QED
    BY <2>4, <2>6, <2>7, <2>8 DEF RevocationsAgree, RevocationAt
<1>5. ASSUME NEW by \in Principals, AttestHead(by)
      PROVE  RevocationsNamed' /\ RevocationsAgree'
  <2>1. /\ EventOf("chain.head_attested", by, None) \in Event
        /\ EventOf("chain.head_attested", by, None).kind = "chain.head_attested"
    BY DEF EventOf, Event
  <2> QED
    BY <1>2, <1>5, <2>1 DEF AttestHead, registryVars
<1>6. ASSUME NEW p \in Procs, Enrol(p), UNCHANGED authorityVars
      PROVE  RevocationsNamed' /\ RevocationsAgree'
  <2> DEFINE event == EventOf("principal.bootstrapped", jobs[p].id, jobs[p].id)
  <2>1. jobs[p].id \in Principals
    BY <1>6 DEF Enrol, JobOK, Job, Principals
  <2>2. event \in Event /\ event.kind = "principal.bootstrapped"
    BY <2>1 DEF EventOf, Event
  <2>3. Tell(event) /\ \A q \in Principals : keys[q] = "absent"
    BY <1>6 DEF Enrol, MayEnrol, RegistryEmpty, RegistryInv
  <2> HIDE DEF event
  <2> QED
    BY <1>2, <1>6, <2>2, <2>3 DEF authorityVars
<1> QED
  BY <1>1, <1>3, <1>4, <1>5, <1>6, Steps

\* Nobody in standing was told revoked.
LEMMA StandingNotRevoked ==
  ASSUME Inv, NEW q \in Principals, Standing(q)
  PROVE  \A m \in 1..Len(log) : RevocationAt(m) => log[m].of # q
<1> SUFFICES ASSUME NEW m \in 1..Len(log), RevocationAt(m), log[m].of = q
             PROVE  FALSE
  OBVIOUS
<1>1. revokedBy[q] = log[m].by /\ log[m].by \in Principals
  BY DEF Inv, RevocationsAgree, RevocationsNamed
<1>2. revokedBy[q] # None
  BY <1>1, CustodyAssumption DEF Principals
<1> QED
  BY <1>2 DEF Inv, RevocationsAgree, Standing

\* After a revocation nothing follows that its key signed.
LEMMA SilenceKept ==
  ASSUME Inv, [Next]_vars
  PROVE  RevokedKeysFallSilent'
<1> USE DEF Inv, TypeInv, AuthorityTypeOK, CustodyTypeOK
<1>1. CASE Silent
  BY <1>1 DEF Silent, RevokedKeysFallSilent, RevocationAt
<1>2. ASSUME NEW event \in Event, Tell(event),
             event.kind \in AuthorityKinds =>
                event.by \in Principals /\ Standing(event.by)
      PROVE  RevokedKeysFallSilent'
  <2> SUFFICES ASSUME NEW m \in 1..Len(log'), NEW n \in 1..Len(log'), m < n,
                      RevocationAt(m)', log'[n].kind \in AuthorityKinds
               PROVE  log'[n].by # log'[m].of
    BY DEF RevokedKeysFallSilent, AuthorityKinds
  <2>1. m \in 1..Len(log) /\ log'[m] = log[m] /\ RevocationAt(m)
    BY <1>2, Positions DEF RevocationAt
  <2>2. CASE n \in 1..Len(log) /\ log'[n] = log[n]
    BY <2>1, <2>2 DEF RevokedKeysFallSilent
  <2>3. CASE n = Len(log) + 1 /\ log'[n] = event
    BY <1>2, <2>1, <2>3, StandingNotRevoked
  <2> QED
    BY <1>2, <2>2, <2>3, Positions
<1>3. CASE \E event \in Event : Plain(event)
  BY <1>2, <1>3 DEF Plain, AuthorityKinds
<1>4. ASSUME NEW x \in Requests, RecordRevocation(x)
      PROVE  RevokedKeysFallSilent'
  <2> DEFINE event == EventOf("principal.key_revoked", requests[x].by, requests[x].subject)
  <2>1. /\ event \in Event /\ event.by = requests[x].by /\ requests[x].by \in Principals
    BY <1>4 DEF RecordRevocation, EventOf, Event, Request
  <2>2. Tell(event) /\ Standing(requests[x].by)
    BY <1>4 DEF RecordRevocation, MayRecord
  <2> HIDE DEF event
  <2> QED
    BY <1>2, <2>1, <2>2
<1>5. ASSUME NEW by \in Principals, AttestHead(by)
      PROVE  RevokedKeysFallSilent'
  <2>1. /\ EventOf("chain.head_attested", by, None) \in Event
        /\ EventOf("chain.head_attested", by, None).by = by
    BY DEF EventOf, Event
  <2> QED
    BY <1>2, <1>5, <2>1 DEF AttestHead
<1>6. ASSUME NEW p \in Procs, Enrol(p)
      PROVE  RevokedKeysFallSilent'
  <2> DEFINE event == EventOf("principal.bootstrapped", jobs[p].id, jobs[p].id)
  <2>1. jobs[p].id \in Principals
    BY <1>6 DEF Enrol, JobOK, Job, Principals
  <2>2. event \in Event /\ event.kind = "principal.bootstrapped"
    BY <2>1 DEF EventOf, Event
  <2>3. Tell(event)
    BY <1>6 DEF Enrol
  <2> HIDE DEF event
  <2> QED
    BY <1>2, <2>2, <2>3 DEF AuthorityKinds
<1> QED
  BY <1>1, <1>3, <1>4, <1>5, <1>6, Steps

\* The anchors.
LEMMA AnchorsKept ==
  ASSUME Inv, [Next]_vars
  PROVE  AnchorsHaveLatest' /\ AnchorsFormAChain'
<1> USE DEF Inv, TypeInv, AuthorityTypeOK, CustodyTypeOK
<1>1. CASE Silent
  BY <1>1 DEF Silent, AnchorsHaveLatest, AnchorsFormAChain
<1>a. \A a \in anchors : a.head \in 1..MaxEvents /\ a.previous \in 0..MaxEvents
                         /\ a.head \in Nat /\ a.previous \in Nat
  BY CustodyAssumption DEF Anchor
<1>2. ASSUME NEW event \in Event, Tell(event), UNCHANGED anchors
      PROVE  AnchorsHaveLatest' /\ AnchorsFormAChain'
  <2>1. AnchorsHaveLatest'
    BY <1>2 DEF AnchorsHaveLatest
  <2>2. Len(log) \in Nat /\ Len(log') = Len(log) + 1
        /\ \A n \in 1..Len(log) : log'[n] = log[n]
    BY <1>2, Positions
  <2>3. ASSUME NEW a \in anchors
        PROVE  /\ a.head < Len(log')
               /\ log'[a.head + 1] = log[a.head + 1]
               /\ \E n \in a.previous + 1 .. a.head : log'[n].kind # "chain.head_attested"
    <3>1. a.head < Len(log) /\ a.head + 1 \in 1..Len(log)
      BY <1>a, <2>2 DEF AnchorsFormAChain
    <3>2. PICK n \in a.previous + 1 .. a.head : log[n].kind # "chain.head_attested"
      BY DEF AnchorsFormAChain
    <3>3. n \in 1..Len(log)
      BY <1>a, <2>2, <3>1
    <3> QED
      BY <1>a, <2>2, <3>1, <3>2, <3>3
  <2> QED
    BY <1>2, <2>1, <2>3 DEF AnchorsFormAChain
<1>3. CASE \E event \in Event : Plain(event)
  BY <1>2, <1>3 DEF Plain
<1>4. ASSUME NEW x \in Requests, RecordRevocation(x)
      PROVE  AnchorsHaveLatest' /\ AnchorsFormAChain'
  <2>1. requests[x] \in Request
    BY <1>4 DEF RecordRevocation
  <2>2. EventOf("principal.key_revoked", requests[x].by, requests[x].subject) \in Event
    BY <2>1 DEF EventOf, Event, Request
  <2> QED
    BY <1>2, <1>4, <2>2 DEF RecordRevocation
<1>5. ASSUME NEW p \in Procs, Enrol(p), UNCHANGED authorityVars
      PROVE  AnchorsHaveLatest' /\ AnchorsFormAChain'
  <2>1. jobs[p].id \in Principals
    BY <1>5 DEF Enrol, JobOK, Job, Principals
  <2>2. EventOf("principal.bootstrapped", jobs[p].id, jobs[p].id) \in Event
    BY <2>1 DEF EventOf, Event
  <2> QED
    BY <1>2, <1>5, <2>2 DEF Enrol, authorityVars
<1>6. ASSUME NEW by \in Principals, AttestHead(by)
      PROVE  AnchorsHaveLatest' /\ AnchorsFormAChain'
  <2> DEFINE event == EventOf("chain.head_attested", by, None)
             new == [head |-> Len(log), previous |-> LatestHead, by |-> by]
  <2>1. event \in Event /\ Tell(event)
    BY <1>6 DEF AttestHead, EventOf, Event
  <2>2. /\ Len(log) \in Nat /\ Len(log') = Len(log) + 1
        /\ log'[Len(log) + 1] = event
        /\ \A n \in 1..Len(log) : log'[n] = log[n]
    BY <2>1, Positions
  <2>3. /\ LatestHead \in Nat
        /\ \A b \in anchors : b.head <= LatestHead
        /\ LatestHead = 0 \/ \E a \in anchors : a.head = LatestHead
    BY LatestHeadOK, CustodyAssumption DEF AnchorsHaveLatest
  <2>4. PICK n \in LatestHead + 1 .. Len(log) : log[n].kind # "chain.head_attested"
    BY <1>6 DEF AttestHead, NewFacts
  <2>5. LatestHead < Len(log) /\ n \in 1..Len(log)
    BY <2>2, <2>3, <2>4
  <2>6. anchors' = anchors \cup {new}
    BY <1>6 DEF AttestHead
  <2>7. new.head = Len(log) /\ new.previous = LatestHead /\ new.by = by
    OBVIOUS
  <2>e. event = EventOf("chain.head_attested", by, None)
    OBVIOUS
  <2> HIDE DEF event, new
  <2>l. \A b \in anchors' : b.head <= new.head
    <3> SUFFICES ASSUME NEW b \in anchors'
                 PROVE  b.head <= new.head
      OBVIOUS
    <3>1. CASE b \in anchors
      <4>1. b.head \in Nat /\ b.head <= LatestHead
        BY <1>a, <2>3, <3>1
      <4> QED
        BY <2>2, <2>3, <2>5, <2>7, <4>1
    <3>2. CASE b = new
      BY <2>2, <2>7, <3>2
    <3> QED
      BY <2>6, <3>1, <3>2
  <2>8. AnchorsHaveLatest'
    <3>1. new \in anchors'
      BY <2>6
    <3> QED
      BY <2>l, <3>1 DEF AnchorsHaveLatest
  <2>9. ASSUME NEW a \in anchors
        PROVE  /\ a.head < Len(log') /\ a.head < new.head
               /\ log'[a.head + 1] = EventOf("chain.head_attested", a.by, None)
               /\ a.previous = 0 \/ \E b \in anchors' : b.head = a.previous
               /\ \E k \in a.previous + 1 .. a.head : log'[k].kind # "chain.head_attested"
    <3>1. a.head < Len(log) /\ a.head + 1 \in 1..Len(log)
      BY <1>a, <2>2 DEF AnchorsFormAChain
    <3>2. PICK k \in a.previous + 1 .. a.head : log[k].kind # "chain.head_attested"
      BY DEF AnchorsFormAChain
    <3>3. k \in 1..Len(log)
      BY <1>a, <2>2, <3>1
    <3>4. log'[a.head + 1] = EventOf("chain.head_attested", a.by, None)
      BY <2>2, <3>1 DEF AnchorsFormAChain
    <3>5. a.previous = 0 \/ \E b \in anchors' : b.head = a.previous
      BY <2>6 DEF AnchorsFormAChain
    <3>6. log'[k].kind # "chain.head_attested"
      BY <2>2, <3>2, <3>3
    <3> QED
      BY <1>a, <2>2, <2>7, <3>1, <3>2, <3>4, <3>5, <3>6
  <2>10. /\ new.head < Len(log')
         /\ log'[new.head + 1] = EventOf("chain.head_attested", new.by, None)
         /\ new.previous = 0 \/ \E b \in anchors' : b.head = new.previous
         /\ \E k \in new.previous + 1 .. new.head : log'[k].kind # "chain.head_attested"
    BY <2>2, <2>3, <2>4, <2>5, <2>6, <2>7, <2>e
  <2>11. \A a, b \in anchors' : /\ b.head < a.head => b.head <= a.previous
                                /\ b.head = a.head => b = a
    <3> SUFFICES ASSUME NEW a \in anchors', NEW b \in anchors'
                 PROVE  /\ b.head < a.head => b.head <= a.previous
                        /\ b.head = a.head => b = a
      OBVIOUS
    <3>1. CASE a \in anchors /\ b \in anchors
      BY <3>1 DEF AnchorsFormAChain
    <3>2. CASE a = new /\ b \in anchors
      BY <1>a, <2>2, <2>3, <2>7, <2>9, <3>2
    <3>3. CASE a \in anchors /\ b = new
      BY <1>a, <2>2, <2>7, <2>9, <3>3
    <3>4. CASE a = new /\ b = new
      BY <2>2, <2>7, <3>4
    <3> QED
      BY <2>6, <3>1, <3>2, <3>3, <3>4
  <2> QED
    BY <2>6, <2>8, <2>9, <2>10, <2>11 DEF AnchorsFormAChain
<1> QED
  BY <1>1, <1>3, <1>4, <1>5, <1>6, Steps

-------------------------------------------------------------------------------
(* Custody, as long as jobs come one after another.                        *)

NoRoot == \A r \in Roots : principals[r] = "absent"

\* What a ceremony that runs alone finds in its files.
CeremonyFiles(job) ==
    /\ job.at \in {"check", "place", "placed"} /\ job.file # "key" => files.key = job.id
    /\ job.at \in {"check", "place", "placed"} /\ job.file = "profile" => files.fingerprint = job.id
    /\ job.at = "placed" => files[job.file] = Content(job)
    /\ job.at \in {"mode", "enrol"} => files.key = job.id /\ files.fingerprint = job.id
    /\ job.at = "enrol" => files.profile = [id |-> job.id, token |-> job.token]

\* What a rotation that runs alone finds in the profile and the registry.
RotationFiles(job) ==
    /\ job.at # "mint" => credentials[job.token] = [owner |-> job.owner, status |-> "active"]
    /\ job.at \in {"place", "placed", "revoke"} => files.profile # None
    /\ job.at \in {"place", "placed"} => files.profile.id = job.id
    /\ job.at \in {"placed", "revoke"} => files.profile.token = job.token

Sound(job) ==
    /\ job.job = "ceremony" => NoRoot /\ CeremonyFiles(job)
    /\ job.job = "rotation" =>
          (\A r \in Roots : principals[r] # "absent" => job.owner = r) /\ RotationFiles(job)

\* The files of an enrolled root.
Usable ==
    \A r \in Roots : principals[r] # "absent" =>
        /\ files.key = r /\ files.fingerprint = r
        /\ files.profile # None /\ files.profile.id = r
        /\ credentials[files.profile.token] = [owner |-> r, status |-> "active"]

\* One process works at a time, and what it knows of files and registry is so.
OrderInv ==
    ~overlapped =>
        /\ \A p, q \in Procs : jobs[p].at # "idle" /\ jobs[q].at # "idle" => p = q
        /\ \A p \in Procs : Sound(jobs[p])
        /\ Usable

\* The steps of a process are its own; others are as they were.
Others(p) == \A q \in Procs \ {p} : jobs[q].at = "idle" /\ jobs'[q] = jobs[q]

\* It is enough to look at the process that steps.
LEMMA OwnStep ==
  ASSUME TypeInv, TypeInv', NEW p \in Procs, Others(p), Sound(jobs[p])', Usable'
  PROVE  OrderInv'
<1>1. ASSUME NEW q \in Procs, q # p
      PROVE  jobs'[q].at = "idle" /\ jobs'[q].job = None /\ Sound(jobs[q])'
  BY <1>1, CustodyAssumption DEF Others, Sound, TypeInv, JobOK
<1> QED
  BY <1>1 DEF OrderInv

\* A process that runs does so alone; one that starts finds all others idle.
LEMMA Alone ==
  ASSUME TypeInv, OrderInv, ~overlapped', NEW p \in Procs, NEW new, Becomes(p, new),
         \/ jobs[p].at # "idle" /\ UNCHANGED overlapped
         \/ overlapped' = (overlapped \/ \E q \in Procs : jobs[q].at # "idle")
  PROVE  /\ ~overlapped /\ Others(p) /\ jobs'[p] = new
         /\ Sound(jobs[p]) /\ Usable
  BY DEF OrderInv, Others, Becomes, TypeInv, AuthorityTypeOK, CustodyTypeOK

\* A process that fails goes on to clean up, or is done; either way it knows nothing more.
LEMMA FailsSound ==
  ASSUME TypeInv, OrderInv, ~overlapped', NEW p \in Procs, jobs[p].at # "idle",
         NEW created, FailsLeaving(p, created), UNCHANGED overlapped,
         jobs[p].job # "rotation" \/ created = <<>>,
         UNCHANGED principals
  PROVE  ~overlapped /\ Others(p) /\ Sound(jobs[p])' /\ Usable /\ Sound(jobs[p])
<1>0. \/ Becomes(p, Idle)
      \/ jobs[p].job # "rotation" /\ Becomes(p, [jobs[p] EXCEPT !.at = "cleanup", !.created = created])
  BY DEF FailsLeaving
<1>1. ASSUME Becomes(p, Idle)
      PROVE  ~overlapped /\ Others(p) /\ Sound(jobs[p])' /\ Usable /\ Sound(jobs[p])
  <2>1. ~overlapped /\ Others(p) /\ jobs'[p] = Idle /\ Sound(jobs[p]) /\ Usable
    BY <1>1, Alone
  <2>2. Idle.job = None
    BY DEF Idle
  <2> QED
    BY <2>1, <2>2, CustodyAssumption DEF Sound
<1>2. ASSUME jobs[p].job # "rotation",
             Becomes(p, [jobs[p] EXCEPT !.at = "cleanup", !.created = created])
      PROVE  ~overlapped /\ Others(p) /\ Sound(jobs[p])' /\ Usable /\ Sound(jobs[p])
  <2> DEFINE new == [jobs[p] EXCEPT !.at = "cleanup", !.created = created]
  <2>1. new.at = "cleanup" /\ new.job = jobs[p].job
    BY DEF TypeInv, JobOK, Job
  <2> HIDE DEF new
  <2>2. ~overlapped /\ Others(p) /\ jobs'[p] = new /\ Sound(jobs[p]) /\ Usable
    BY <1>2, Alone DEF new
  <2> QED
    BY <1>2, <2>1, <2>2 DEF Sound, CeremonyFiles, NoRoot
<1> QED
  BY <1>0, <1>1, <1>2

\* Each step of a ceremony or a rotation keeps the order.
LEMMA JobsOrdered ==
  ASSUME TypeInv, OrderInv, TypeInv', Jobs
  PROVE  OrderInv'
<1> SUFFICES ASSUME ~overlapped'
             PROVE  OrderInv'
  BY DEF OrderInv
<1>0. PICK p \in Procs :
         \/ \E r \in Roots, t \in Tokens : BeginCeremony(p, r, t)
         \/ CheckAbsent(p) \/ PlaceFile(p) \/ PlaceFails(p) \/ VerifyPlaced(p)
         \/ EvaluateKeyFileMode(p) \/ Enrol(p) \/ EnrolFails(p) \/ CleanUp(p)
         \/ \E q \in Principals : BeginRotation(p, q)
         \/ \E t \in Tokens : Mint(p, t)
         \/ ReadProfile(p) \/ RevokeOthers(p) \/ Crash(p)
  BY DEF Jobs
<1> DEFINE job == jobs[p]
<1>j. JobOK(job) /\ job \in Job
  BY DEF JobOK, TypeInv
<1> HIDE DEF job
<1>1. ASSUME NEW r \in Roots, NEW t \in Tokens, BeginCeremony(p, r, t)
      PROVE  OrderInv'
  <2> DEFINE new == [Idle EXCEPT !.at = "check", !.job = "ceremony", !.file = "key",
                                 !.id = r, !.owner = r, !.token = t]
  <2>1. new.at = "check" /\ new.job = "ceremony" /\ new.file = "key"
    BY DEF Idle
  <2>2. Becomes(p, new) /\ overlapped' = (overlapped \/ \E q \in Procs : jobs[q].at # "idle")
    BY <1>1 DEF BeginCeremony, Starts
  <2> HIDE DEF new
  <2>3. ~overlapped /\ Others(p) /\ jobs'[p] = new /\ Usable
    BY <2>2, Alone
  <2>4. NoRoot /\ UNCHANGED <<files, principals, keys, credentials>>
    BY <1>1 DEF BeginCeremony, RegistryEmpty, NoRoot, Principals, registryVars
  <2>5. Sound(jobs[p])' /\ Usable'
    BY <2>1, <2>3, <2>4, CustodyAssumption DEF Sound, CeremonyFiles, NoRoot, Usable
  <2> QED
    BY <2>3, <2>5, OwnStep
<1>2. ASSUME CheckAbsent(p)
      PROVE  OrderInv'
  <2>1. /\ job.at = "check" /\ job.job = "ceremony"
        /\ UNCHANGED <<files, principals, credentials, overlapped>>
    BY <1>2, <1>j DEF CheckAbsent, JobOK, Job, job, registryVars, history
  <2>2. CASE files[job.file] = None
    <3> DEFINE new == [job EXCEPT !.at = "place"]
    <3>1. new.at = "place" /\ new.job = "ceremony" /\ new.file = job.file /\ new.id = job.id
      BY <1>j, <2>1 DEF Job
    <3>2. Becomes(p, new)
      BY <1>2, <2>2 DEF CheckAbsent, GoesTo, job
    <3> HIDE DEF new
    <3>3. Others(p) /\ jobs'[p] = new /\ Sound(job) /\ Usable
      BY <2>1, <3>2, Alone DEF job
    <3>4. Sound(jobs[p])' /\ Usable'
      BY <2>1, <3>1, <3>3, CustodyAssumption DEF Sound, CeremonyFiles, NoRoot, Usable
    <3> QED
      BY <3>3, <3>4, OwnStep
  <2>3. CASE files[job.file] # None
    <3>1. FailsLeaving(p, job.created)
      BY <1>2, <2>3 DEF CheckAbsent, Fails, job
    <3>2. Others(p) /\ Sound(jobs[p])' /\ Usable
      BY <2>1, <3>1, FailsSound, CustodyAssumption DEF job
    <3> QED
      BY <2>1, <3>2, OwnStep DEF Usable
  <2> QED
    BY <2>2, <2>3
<1>3. ASSUME PlaceFile(p)
      PROVE  OrderInv'
  <2>1. /\ job.at = "place" /\ job.job \in {"ceremony", "rotation"}
        /\ files' = [files EXCEPT ![job.file] = Content(job)]
        /\ UNCHANGED <<principals, credentials, overlapped>>
    BY <1>3, <1>j DEF PlaceFile, JobOK, Job, job, registryVars, history
  <2> DEFINE new == [job EXCEPT !.at = "placed"]
  <2>2. /\ new.at = "placed" /\ new.job = job.job /\ new.file = job.file /\ new.id = job.id
        /\ new.token = job.token /\ new.owner = job.owner
    BY <1>j DEF Job
  <2>3. Becomes(p, new)
    BY <1>3 DEF PlaceFile, GoesTo, job
  <2> HIDE DEF new
  <2>4. Others(p) /\ jobs'[p] = new /\ Sound(job) /\ Usable
    BY <2>1, <2>3, Alone DEF job
  <2>5. /\ files.key \in Roots \cup {None} /\ files.fingerprint \in Roots \cup {None}
        /\ DOMAIN files = {"key", "fingerprint", "profile"}
    BY DEF TypeInv, AuthorityTypeOK, CustodyTypeOK
  <2>6. /\ job.file \in DOMAIN files
        /\ files'[job.file] = Content(job)
        /\ \A f \in DOMAIN files : f # job.file => files'[f] = files[f]
    BY <1>j, <2>1, <2>5 DEF JobOK, Files
  <2>7. Content(new) = Content(job)
    BY <2>2 DEF Content
  <2>8. CASE job.job = "ceremony"
    <3>1. NoRoot'
      BY <2>1, <2>4, <2>8 DEF Sound, NoRoot
    <3>2. Usable'
      BY <3>1 DEF Usable, NoRoot
    <3>3. CeremonyFiles(job)
      BY <2>4, <2>8 DEF Sound
    <3>4. CeremonyFiles(jobs[p])'
      BY <2>1, <2>2, <2>4, <2>5, <2>6, <2>7, <3>3 DEF CeremonyFiles
    <3> QED
      BY <2>2, <2>4, <2>8, <3>1, <3>2, <3>4, OwnStep, CustodyAssumption DEF Sound
  <2>9. CASE job.job = "rotation"
    <3>1. /\ job.file = "profile"
          /\ files'.profile = [id |-> job.id, token |-> job.token]
          /\ files'.profile \in Profile
          /\ files'.key = files.key /\ files'.fingerprint = files.fingerprint
      BY <1>j, <2>1, <2>5, <2>6, <2>9 DEF JobOK, Content, Profile
    <3>2. files'.profile # None
      BY <3>1, CustodyAssumption
    <3>3. RotationFiles(job) /\ \A r \in Roots : principals[r] # "absent" => job.owner = r
      BY <2>4, <2>9 DEF Sound
    <3>4. files.profile.id = job.id
          /\ credentials[job.token] = [owner |-> job.owner, status |-> "active"]
      BY <2>1, <3>3 DEF RotationFiles
    <3>5. Usable'
      BY <2>1, <2>4, <3>1, <3>2, <3>3, <3>4 DEF Usable
    <3>6. RotationFiles(jobs[p])'
      BY <2>1, <2>2, <2>4, <3>1, <3>2, <3>4 DEF RotationFiles
    <3> QED
      BY <2>1, <2>2, <2>4, <2>9, <3>3, <3>5, <3>6, OwnStep, CustodyAssumption DEF Sound
  <2> QED
    BY <2>1, <2>8, <2>9
<1>4. ASSUME PlaceFails(p)
      PROVE  OrderInv'
  <2>1. /\ job.at = "place" /\ FailsLeaving(p, job.created)
        /\ job.job = "rotation" => job.created = <<>>
        /\ UNCHANGED <<files, principals, credentials, overlapped>>
    BY <1>4, <1>j DEF PlaceFails, Fails, job, JobOK, registryVars, history
  <2>2. Others(p) /\ Sound(jobs[p])' /\ Usable
    BY <2>1, FailsSound DEF job
  <2> QED
    BY <2>1, <2>2, OwnStep DEF Usable
<1>5. ASSUME VerifyPlaced(p)
      PROVE  OrderInv'
  <2>1. /\ job.at = "placed" /\ job.job \in {"ceremony", "rotation"}
        /\ job.job = "rotation" => job.created = <<>> /\ job.file = "profile"
        /\ job.job = "ceremony" => job.file \in Files
        /\ UNCHANGED <<files, principals, credentials, overlapped>>
    BY <1>5, <1>j DEF VerifyPlaced, JobOK, Job, job, registryVars, history
  <2> DEFINE created == Append(job.created, job.file)
  <2>2. CASE files[job.file] = None
    <3>1. FailsLeaving(p, job.created)
      BY <1>5, <2>2 DEF VerifyPlaced, Fails, job
    <3>2. Others(p) /\ Sound(jobs[p])' /\ Usable
      BY <2>1, <3>1, FailsSound DEF job
    <3> QED
      BY <2>1, <3>2, OwnStep DEF Usable
  <2>3. CASE files[job.file] # None /\ job.job = "rotation"
    <3> DEFINE new == [job EXCEPT !.at = "revoke"]
    <3>1. new.at = "revoke" /\ new.job = "rotation" /\ new.token = job.token /\ new.owner = job.owner
      BY <1>j, <2>3 DEF Job
    <3>2. Becomes(p, new)
      BY <1>5, <2>1, <2>3 DEF VerifyPlaced, GoesTo, job
    <3> HIDE DEF new
    <3>3. Others(p) /\ jobs'[p] = new /\ Sound(job) /\ Usable
      BY <2>1, <3>2, Alone DEF job
    <3>4. Sound(jobs[p])' /\ Usable'
      BY <2>1, <2>3, <3>1, <3>3, CustodyAssumption DEF Sound, RotationFiles, Usable
    <3> QED
      BY <3>3, <3>4, OwnStep
  <2>4. CASE files[job.file] # None /\ job.job = "ceremony" /\ job.file = "key"
    <3> DEFINE new == [job EXCEPT !.at = "check", !.file = "fingerprint", !.created = created]
    <3>1. /\ new.at = "check" /\ new.job = "ceremony" /\ new.file = "fingerprint" /\ new.id = job.id
      BY <1>j, <2>4 DEF Job
    <3>2. Becomes(p, new)
      BY <1>5, <2>4 DEF VerifyPlaced, Checks, job
    <3> HIDE DEF new
    <3>3. Others(p) /\ jobs'[p] = new /\ Sound(job) /\ Usable
      BY <2>1, <3>2, Alone DEF job
    <3>4. NoRoot /\ files.key = job.id
      BY <2>1, <2>4, <3>3 DEF Sound, CeremonyFiles, Content
    <3>5. Sound(jobs[p])' /\ Usable'
      BY <2>1, <3>1, <3>3, <3>4, CustodyAssumption DEF Sound, CeremonyFiles, NoRoot, Usable
    <3> QED
      BY <3>3, <3>5, OwnStep
  <2>5. CASE files[job.file] # None /\ job.job = "ceremony" /\ job.file \in {"fingerprint", "profile"}
    <3> DEFINE place == IF job.file = "fingerprint" THEN "mode" ELSE "enrol"
               new == [job EXCEPT !.at = place, !.created = created]
    <3>1. /\ new.at = place /\ new.job = "ceremony" /\ new.file = job.file
          /\ new.token = job.token /\ new.id = job.id
      BY <1>j, <2>5 DEF Job
    <3>2. Becomes(p, new)
      BY <1>5, <2>5 DEF VerifyPlaced, job
    <3>p. place \in {"mode", "enrol"} /\ (place = "enrol" => job.file = "profile")
      BY <2>5
    <3> HIDE DEF new, place
    <3>3. Others(p) /\ jobs'[p] = new /\ Sound(job) /\ Usable
      BY <2>1, <3>2, Alone DEF job
    <3>4. /\ NoRoot /\ files.key = job.id /\ files.fingerprint = job.id
          /\ job.file = "profile" => files.profile = [id |-> job.id, token |-> job.token]
      BY <2>1, <2>5, <3>3 DEF Sound, CeremonyFiles, Content
    <3>5. Sound(jobs[p])' /\ Usable'
      BY <2>1, <3>1, <3>p, <3>3, <3>4, CustodyAssumption DEF Sound, CeremonyFiles, NoRoot, Usable
    <3> QED
      BY <3>3, <3>5, OwnStep
  <2> QED
    BY <2>1, <2>2, <2>3, <2>4, <2>5 DEF Files
<1>6. ASSUME EvaluateKeyFileMode(p)
      PROVE  OrderInv'
  <2>1. /\ job.at = "mode" /\ job.job = "ceremony"
        /\ UNCHANGED <<files, principals, credentials, overlapped>>
    BY <1>6, <1>j DEF EvaluateKeyFileMode, JobOK, Job, job, registryVars, history
  <2>2. CASE files.key = None
    <3>1. FailsLeaving(p, <<>>)
      BY <1>6, <2>2 DEF EvaluateKeyFileMode, FailsLeaving
    <3>2. Others(p) /\ Sound(jobs[p])' /\ Usable
      BY <2>1, <3>1, FailsSound DEF job
    <3> QED
      BY <2>1, <3>2, OwnStep DEF Usable
  <2>3. CASE files.key # None
    <3> DEFINE new == [job EXCEPT !.at = "check", !.file = "profile", !.created = job.created]
    <3>1. new.at = "check" /\ new.job = "ceremony" /\ new.file = "profile" /\ new.id = job.id
      BY <1>j, <2>1 DEF Job
    <3>2. Becomes(p, new)
      BY <1>6, <2>3 DEF EvaluateKeyFileMode, Checks, job
    <3> HIDE DEF new
    <3>3. Others(p) /\ jobs'[p] = new /\ Sound(job) /\ Usable
      BY <2>1, <3>2, Alone DEF job
    <3>4. Sound(jobs[p])' /\ Usable'
      BY <2>1, <3>1, <3>3, CustodyAssumption DEF Sound, CeremonyFiles, NoRoot, Usable
    <3> QED
      BY <3>3, <3>4, OwnStep
  <2> QED
    BY <2>2, <2>3
<1>7. ASSUME Enrol(p)
      PROVE  OrderInv'
  <2>1. /\ job.at = "enrol" /\ job.job = "ceremony" /\ job.id \in Roots /\ job.token \in Tokens
        /\ UNCHANGED <<files, overlapped>> /\ Becomes(p, Idle)
        /\ principals' = [principals EXCEPT ![job.id] = "active"]
        /\ credentials' = [credentials EXCEPT ![job.token] = [owner |-> job.id, status |-> "active"]]
    BY <1>7, <1>j DEF Enrol, JobOK, Job, job, history
  <2>2. Others(p) /\ jobs'[p] = Idle /\ Sound(job) /\ Usable
    BY <2>1, Alone DEF job
  <2>3. /\ NoRoot /\ files.key = job.id /\ files.fingerprint = job.id
        /\ files.profile = [id |-> job.id, token |-> job.token]
    BY <2>1, <2>2 DEF Sound, CeremonyFiles
  <2>4. credentials'[job.token] = [owner |-> job.id, status |-> "active"]
    BY <2>1 DEF TypeInv, AuthorityTypeOK, CustodyTypeOK
  <2>5. \A r \in Roots : principals'[r] # "absent" => r = job.id
    BY <2>1, <2>3 DEF TypeInv, AuthorityTypeOK, CustodyTypeOK, NoRoot
  <2>6. files.profile # None
    BY <2>1, <2>3, CustodyAssumption DEF Profile, Principals
  <2>7. Usable'
    BY <2>1, <2>3, <2>4, <2>5, <2>6 DEF Usable
  <2>8. Sound(jobs[p])'
    BY <2>2, CustodyAssumption DEF Sound, Idle
  <2> QED
    BY <2>2, <2>7, <2>8, OwnStep
<1>8. ASSUME EnrolFails(p)
      PROVE  OrderInv'
  <2>1. /\ job.at = "enrol" /\ FailsLeaving(p, job.created)
        /\ job.job = "rotation" => job.created = <<>>
        /\ UNCHANGED <<files, principals, credentials, overlapped>>
    BY <1>8, <1>j DEF EnrolFails, Fails, job, JobOK, registryVars, history
  <2>2. Others(p) /\ Sound(jobs[p])' /\ Usable
    BY <2>1, FailsSound DEF job
  <2> QED
    BY <2>1, <2>2, OwnStep DEF Usable
<1>9. ASSUME CleanUp(p)
      PROVE  OrderInv'
  <2>1. /\ job.at = "cleanup" /\ job.job = "ceremony"
        /\ FailsLeaving(p, Tail(job.created))
        /\ UNCHANGED <<principals, credentials, overlapped>>
    BY <1>9, <1>j DEF CleanUp, JobOK, Job, job, registryVars, history
  <2>2. Others(p) /\ Sound(jobs[p])' /\ Sound(job)
    BY <2>1, FailsSound, CustodyAssumption DEF job
  <2>3. Usable'
    BY <2>1, <2>2 DEF Sound, NoRoot, Usable
  <2> QED
    BY <2>2, <2>3, OwnStep
<1>10. ASSUME NEW q \in Principals, BeginRotation(p, q)
       PROVE  OrderInv'
  <2> DEFINE new == [Idle EXCEPT !.at = "mint", !.job = "rotation", !.file = "profile",
                                 !.owner = q]
  <2>1. new.at = "mint" /\ new.job = "rotation" /\ new.owner = q
    BY DEF Idle
  <2>2. Becomes(p, new) /\ overlapped' = (overlapped \/ \E s \in Procs : jobs[s].at # "idle")
    BY <1>10 DEF BeginRotation, Starts
  <2> HIDE DEF new
  <2>3. Others(p) /\ jobs'[p] = new /\ Usable
    BY <2>2, Alone
  <2>4. /\ credentials[files.profile.token] = [owner |-> q, status |-> "active"]
        /\ UNCHANGED <<files, principals, keys, credentials>>
    BY <1>10 DEF BeginRotation, Authenticated, registryVars
  <2>o. credentials[files.profile.token].owner = q
    BY <2>4
  <2>5. \A r \in Roots : principals[r] # "absent" => q = r
    <3> SUFFICES ASSUME NEW r \in Roots, principals[r] # "absent"
                 PROVE  q = r
      OBVIOUS
    <3>1. credentials[files.profile.token] = [owner |-> r, status |-> "active"]
      BY <2>3 DEF Usable
    <3>2. [owner |-> r, status |-> "active"].owner = r
      OBVIOUS
    <3> QED
      BY <2>o, <3>1, <3>2
  <2>6. Sound(jobs[p])' /\ Usable'
    BY <2>1, <2>3, <2>4, <2>5, CustodyAssumption DEF Sound, RotationFiles, Usable
  <2> QED
    BY <2>3, <2>6, OwnStep
<1>11. ASSUME NEW t \in Tokens, Mint(p, t)
       PROVE  OrderInv'
  <2>1. /\ job.at = "mint" /\ job.job = "rotation"
        /\ UNCHANGED <<files, principals, overlapped>>
        /\ credentials' = [credentials EXCEPT ![t] = [owner |-> job.owner, status |-> "active"]]
        /\ files.profile # None => files.profile.token # t
    BY <1>11, <1>j DEF Mint, FreshToken, JobOK, Job, job, history
  <2> DEFINE new == [job EXCEPT !.at = "profile", !.token = t]
  <2>2. new.at = "profile" /\ new.job = "rotation" /\ new.token = t /\ new.owner = job.owner
    BY <1>j, <2>1 DEF Job
  <2>3. Becomes(p, new)
    BY <1>11 DEF Mint, job
  <2> HIDE DEF new
  <2>4. Others(p) /\ jobs'[p] = new /\ Sound(job) /\ Usable
    BY <2>1, <2>3, Alone DEF job
  <2>5. /\ credentials'[t] = [owner |-> job.owner, status |-> "active"]
        /\ files.profile # None => credentials'[files.profile.token] = credentials[files.profile.token]
    BY <2>1 DEF TypeInv, AuthorityTypeOK, CustodyTypeOK, Profile
  <2>6. Usable'
    BY <2>1, <2>4, <2>5 DEF Usable
  <2>7. Sound(jobs[p])'
    BY <2>1, <2>2, <2>4, <2>5, CustodyAssumption DEF Sound, RotationFiles
  <2> QED
    BY <2>4, <2>6, <2>7, OwnStep
<1>12. ASSUME ReadProfile(p)
       PROVE  OrderInv'
  <2>1. /\ job.at = "profile" /\ job.job = "rotation" /\ job.created = <<>>
        /\ UNCHANGED <<files, principals, credentials, overlapped>>
    BY <1>12, <1>j DEF ReadProfile, JobOK, Job, job, registryVars, history
  <2>2. CASE files.profile = None
    <3>1. FailsLeaving(p, job.created)
      BY <1>12, <2>2 DEF ReadProfile, Fails, job
    <3>2. Others(p) /\ Sound(jobs[p])' /\ Usable
      BY <2>1, <3>1, FailsSound DEF job
    <3> QED
      BY <2>1, <3>2, OwnStep DEF Usable
  <2>3. CASE files.profile # None
    <3> DEFINE new == [job EXCEPT !.at = "place", !.id = files.profile.id]
    <3>1. /\ new.at = "place" /\ new.job = "rotation" /\ new.token = job.token
          /\ new.owner = job.owner /\ new.id = files.profile.id
      BY <1>j, <2>1 DEF Job
    <3>2. Becomes(p, new)
      BY <1>12, <2>3 DEF ReadProfile, job
    <3> HIDE DEF new
    <3>3. Others(p) /\ jobs'[p] = new /\ Sound(job) /\ Usable
      BY <2>1, <3>2, Alone DEF job
    <3>4. Sound(jobs[p])' /\ Usable'
      BY <2>1, <2>3, <3>1, <3>3, CustodyAssumption DEF Sound, RotationFiles, Usable
    <3> QED
      BY <3>3, <3>4, OwnStep
  <2> QED
    BY <2>2, <2>3
<1>13. ASSUME RevokeOthers(p)
       PROVE  OrderInv'
  <2>1. /\ job.at = "revoke" /\ job.job = "rotation" /\ Becomes(p, Idle)
        /\ UNCHANGED <<files, principals, overlapped>>
        /\ credentials' = [t \in Tokens |->
              IF Revokes(t, job.owner, job.token)
              THEN [owner |-> job.owner, status |-> "revoked"] ELSE credentials[t]]
    BY <1>13, <1>j DEF RevokeOthers, JobOK, Job, job, history
  <2>2. Others(p) /\ jobs'[p] = Idle /\ Sound(job) /\ Usable
    BY <2>1, Alone DEF job
  <2>3. files.profile # None /\ files.profile.token = job.token
    BY <2>1, <2>2 DEF Sound, RotationFiles
  <2>4. files.profile.token \in Tokens
    BY <2>3 DEF TypeInv, AuthorityTypeOK, CustodyTypeOK, Profile
  <2>5. credentials'[files.profile.token] = credentials[files.profile.token]
    BY <2>1, <2>3, <2>4 DEF Revokes
  <2>6. Usable'
    BY <2>1, <2>2, <2>5 DEF Usable
  <2>7. Sound(jobs[p])'
    BY <2>2, CustodyAssumption DEF Sound, Idle
  <2> QED
    BY <2>2, <2>6, <2>7, OwnStep
<1>14. ASSUME Crash(p)
       PROVE  OrderInv'
  <2>1. /\ job.at # "idle" /\ Becomes(p, Idle)
        /\ UNCHANGED <<files, principals, credentials, overlapped>>
    BY <1>14 DEF Crash, job, registryVars
  <2>2. Others(p) /\ jobs'[p] = Idle /\ Usable
    BY <2>1, Alone DEF job
  <2>3. Sound(jobs[p])' /\ Usable'
    BY <2>1, <2>2, CustodyAssumption DEF Sound, Idle, Usable
  <2> QED
    BY <2>2, <2>3, OwnStep
<1> QED
  BY <1>0, <1>1, <1>2, <1>3, <1>4, <1>5, <1>6, <1>7, <1>8, <1>9, <1>10, <1>11, <1>12,
     <1>13, <1>14

-------------------------------------------------------------------------------
(* Failed ceremonies.                                                      *)

\* A ceremony that runs is responsible for a file: it will remove it when it fails.
Created(file, created) == \E i \in 1..Len(created) : created[i] = file
Responsible(job, file) ==
    /\ job.job = "ceremony"
    /\ Created(file, job.created) \/ (job.at = "placed" /\ job.file = file)

\* Without a root there are no credentials, no rotations, and no file that nobody is
\* responsible for.
RetryInv ==
    /\ NoRoot => /\ \A t \in Tokens : credentials[t] = None
                 /\ \A p \in Procs : jobs[p].job # "rotation"
    /\ NoRoot /\ ~overlapped /\ ~abandoned =>
          \A file \in Files : files[file] # None => \E p \in Procs : Responsible(jobs[p], file)

\* What is created is in the sequence, and what is not its head is in the tail.
LEMMA CreatedOK ==
  ASSUME NEW created \in Seq(Files)
  PROVE  /\ \A file \in Files : ~Created(file, <<>>)
         /\ \A file, new \in Files :
               Created(file, Append(created, new)) <=> Created(file, created) \/ file = new
         /\ created # <<>> =>
               \A file \in Files : Created(file, created) /\ file # Head(created)
                                      => Created(file, Tail(created))
<1>1. \A file \in Files : ~Created(file, <<>>)
  BY DEF Created
<1>2. ASSUME NEW file \in Files, NEW new \in Files
      PROVE  Created(file, Append(created, new)) <=> Created(file, created) \/ file = new
  <2>1. /\ Len(created) \in Nat /\ Len(Append(created, new)) = Len(created) + 1
        /\ \A i \in 1..Len(created) : Append(created, new)[i] = created[i]
        /\ Append(created, new)[Len(created) + 1] = new
    OBVIOUS
  <2> QED
    BY <2>1 DEF Created
<1>3. ASSUME created # <<>>, NEW file \in Files, Created(file, created), file # Head(created)
      PROVE  Created(file, Tail(created))
  <2>1. PICK i \in 1..Len(created) : created[i] = file
    BY <1>3 DEF Created
  <2>2. Len(created) \in Nat /\ Head(created) = created[1] /\ Len(Tail(created)) = Len(created) - 1
    BY <1>3
  <2>3. i - 1 \in 1..Len(Tail(created))
    BY <1>3, <2>1, <2>2
  <2>4. Tail(created)[i - 1] = created[i]
    BY <1>3, <2>2, <2>3
  <2> QED
    BY <2>1, <2>3, <2>4 DEF Created
<1> QED
  BY <1>1, <1>2, <1>3

\* A process that fails stays responsible for what it leaves.
LEMMA FailsResponsible ==
  ASSUME TypeInv, NEW p \in Procs, jobs[p].job = "ceremony",
         NEW created \in Seq(Files), FailsLeaving(p, created),
         NEW file \in Files, Created(file, created)
  PROVE  Responsible(jobs'[p], file)
<1>1. created # <<>>
  BY CreatedOK
<1>2. jobs' = [jobs EXCEPT ![p] = [jobs[p] EXCEPT !.at = "cleanup", !.created = created]]
  BY <1>1 DEF FailsLeaving, Becomes
<1>3. jobs'[p].job = "ceremony" /\ jobs'[p].created = created
  BY <1>2 DEF TypeInv, AuthorityTypeOK, CustodyTypeOK, JobOK, Job
<1> QED
  BY <1>3 DEF Responsible

\* Each step of a ceremony or a rotation keeps it.
LEMMA JobsRetry ==
  ASSUME TypeInv, TypeInv', OrderInv, RetryInv, Jobs
  PROVE  RetryInv'
<1> SUFFICES ASSUME NoRoot'
             PROVE  RetryInv'
  BY DEF RetryInv
<1>0. PICK p \in Procs :
         \/ \E r \in Roots, t \in Tokens : BeginCeremony(p, r, t)
         \/ CheckAbsent(p) \/ PlaceFile(p) \/ PlaceFails(p) \/ VerifyPlaced(p)
         \/ EvaluateKeyFileMode(p) \/ Enrol(p) \/ EnrolFails(p) \/ CleanUp(p)
         \/ \E q \in Principals : BeginRotation(p, q)
         \/ \E t \in Tokens : Mint(p, t)
         \/ ReadProfile(p) \/ RevokeOthers(p) \/ Crash(p)
  BY DEF Jobs
<1> DEFINE job == jobs[p]
<1>j. JobOK(job) /\ job \in Job /\ job.created \in Seq(Files)
  BY DEF JobOK, Job, TypeInv
<1>n. job.at # "idle" <=> job.job \in {"ceremony", "rotation"}
  BY <1>j, CustodyAssumption DEF JobOK, Job
<1> HIDE DEF job
<1>1. ~Enrol(p)
  <2> SUFFICES ASSUME Enrol(p)
               PROVE  FALSE
    OBVIOUS
  <2>1. job.id \in Roots /\ principals' = [principals EXCEPT ![job.id] = "active"]
    BY <1>j DEF Enrol, JobOK, Job, job
  <2> QED
    BY <2>1 DEF NoRoot, TypeInv, AuthorityTypeOK, CustodyTypeOK, Principals
<1>2. NoRoot
  BY <1>0, <1>1 DEF NoRoot, BeginCeremony, CheckAbsent, PlaceFile, PlaceFails, VerifyPlaced,
     EvaluateKeyFileMode, EnrolFails, CleanUp, BeginRotation, Mint, ReadProfile, RevokeOthers,
     Crash, registryVars
<1>3. /\ \A t \in Tokens : credentials[t] = None
      /\ \A q \in Procs : jobs[q].job # "rotation"
  BY <1>2 DEF RetryInv
<1>4. /\ \A q \in Principals : ~BeginRotation(p, q)
      /\ \A t \in Tokens : ~Mint(p, t)
      /\ ~ReadProfile(p) /\ ~RevokeOthers(p)
  <2>1. job.job # "rotation"
    BY <1>3 DEF job
  <2>2. ASSUME NEW q \in Principals, BeginRotation(p, q)
        PROVE  FALSE
    <3>1. /\ files.profile # None
          /\ credentials[files.profile.token] = [owner |-> q, status |-> "active"]
      BY <2>2 DEF BeginRotation, Authenticated
    <3>2. files.profile.token \in Tokens
      BY <3>1 DEF TypeInv, AuthorityTypeOK, CustodyTypeOK, Profile
    <3>3. [owner |-> q, status |-> "active"] \in Credential
      BY DEF Credential
    <3> QED
      BY <1>3, <3>1, <3>2, <3>3, CustodyAssumption
  <2> QED
    BY <1>j, <1>n, <2>1, <2>2 DEF Mint, ReadProfile, RevokeOthers, JobOK, job
<1>5. UNCHANGED credentials
  BY <1>0, <1>1, <1>4 DEF BeginCeremony, CheckAbsent, PlaceFile, PlaceFails, VerifyPlaced,
     EvaluateKeyFileMode, EnrolFails, CleanUp, Crash, registryVars
<1>6. ASSUME NEW new, Becomes(p, new)
      PROVE  jobs'[p] = new /\ \A q \in Procs \ {p} : jobs'[q] = jobs[q]
  BY <1>6 DEF Becomes, TypeInv, AuthorityTypeOK, CustodyTypeOK
<1>7. ASSUME NEW created, FailsLeaving(p, created)
      PROVE  jobs'[p].job # "rotation" /\ \A q \in Procs \ {p} : jobs'[q] = jobs[q]
  <2>1. CASE created = <<>>
    BY <1>6, <1>7, <2>1, CustodyAssumption DEF FailsLeaving, Idle
  <2>2. CASE created # <<>>
    <3> DEFINE new == [job EXCEPT !.at = "cleanup", !.created = created]
    <3>1. Becomes(p, new) /\ new.job = job.job
      BY <1>j, <1>7, <2>2 DEF FailsLeaving, job, Job
    <3> HIDE DEF new
    <3> QED
      BY <1>3, <1>6, <3>1 DEF job
  <2> QED
    BY <2>1, <2>2
<1> DEFINE Goal == /\ jobs'[p].job # "rotation"
                   /\ \A q \in Procs \ {p} : jobs'[q] = jobs[q]
                   /\ ~overlapped' /\ ~abandoned' =>
                         \A file \in Files : files'[file] # None => Responsible(jobs'[p], file)
<1>8. ASSUME Goal
      PROVE  RetryInv'
  BY <1>3, <1>5, <1>8 DEF RetryInv
<1> HIDE DEF Goal
<1>r. ASSUME job.at # "idle", ~overlapped, ~abandoned
      PROVE  \A file \in Files : files[file] # None => Responsible(job, file)
  BY <1>2, <1>r, CustodyAssumption DEF RetryInv, OrderInv, Responsible, TypeInv, JobOK, job
<1>9. ASSUME NEW r \in Roots, NEW t \in Tokens, BeginCeremony(p, r, t)
      PROVE  Goal
  <2> DEFINE new == [Idle EXCEPT !.at = "check", !.job = "ceremony", !.file = "key",
                                 !.id = r, !.owner = r, !.token = t]
  <2>1. new.job = "ceremony"
    BY DEF Idle
  <2>2. /\ Becomes(p, new) /\ job.at = "idle"
        /\ overlapped' = (overlapped \/ \E q \in Procs : jobs[q].at # "idle")
        /\ UNCHANGED <<files, abandoned>>
    BY <1>9 DEF BeginCeremony, Starts, job
  <2> HIDE DEF new
  <2>3. ASSUME ~overlapped', ~abandoned', NEW file \in Files
        PROVE  files'[file] = None
    <3>1. ~overlapped /\ \A q \in Procs : jobs[q].at = "idle"
      BY <2>2, <2>3 DEF job
    <3>2. \A q \in Procs : jobs[q].job # "ceremony"
      BY <3>1, CustodyAssumption DEF TypeInv, JobOK
    <3> QED
      BY <1>2, <2>2, <2>3, <3>1, <3>2 DEF RetryInv, Responsible
  <2>4. jobs'[p].job # "rotation"
    BY <1>6, <2>1, <2>2
  <2> QED
    BY <1>6, <2>2, <2>3, <2>4 DEF Goal
<1>10. ASSUME CheckAbsent(p)
       PROVE  Goal
  <2>1. job.at = "check" /\ UNCHANGED <<files, overlapped, abandoned>>
    BY <1>10 DEF CheckAbsent, job, history
  <2>2. job.job = "ceremony"
    BY <1>3, <1>n, <2>1 DEF job
  <2>3. ASSUME ~overlapped, ~abandoned, NEW file \in Files, files[file] # None
        PROVE  Created(file, job.created)
    BY <1>r, <2>1, <2>3 DEF Responsible
  <2>4. CASE files[job.file] = None
    <3> DEFINE new == [job EXCEPT !.at = "place"]
    <3>1. new.job = "ceremony" /\ new.created = job.created
      BY <1>j, <2>2 DEF Job
    <3>2. Becomes(p, new)
      BY <1>10, <2>4 DEF CheckAbsent, GoesTo, job
    <3> HIDE DEF new
    <3> QED
      BY <1>6, <2>1, <2>3, <3>1, <3>2 DEF Goal, Responsible
  <2>5. CASE files[job.file] # None
    <3>1. FailsLeaving(p, job.created)
      BY <1>10, <2>5 DEF CheckAbsent, Fails, job
    <3>2. ASSUME ~overlapped, ~abandoned, NEW file \in Files, files[file] # None
          PROVE  Responsible(jobs'[p], file)
      BY <1>j, <2>2, <2>3, <3>1, <3>2, FailsResponsible DEF job
    <3> QED
      BY <1>7, <2>1, <3>1, <3>2 DEF Goal
  <2> QED
    BY <2>4, <2>5
<1>11. ASSUME PlaceFile(p)
       PROVE  Goal
  <2>1. /\ job.at = "place" /\ UNCHANGED <<overlapped, abandoned>>
        /\ files' = [files EXCEPT ![job.file] = Content(job)]
    BY <1>11 DEF PlaceFile, job, history
  <2>2. job.job = "ceremony"
    BY <1>3, <1>n, <2>1 DEF job
  <2> DEFINE new == [job EXCEPT !.at = "placed"]
  <2>3. /\ new.job = "ceremony" /\ new.created = job.created /\ new.at = "placed"
        /\ new.file = job.file
    BY <1>j, <2>2 DEF Job
  <2>4. Becomes(p, new)
    BY <1>11 DEF PlaceFile, GoesTo, job
  <2> HIDE DEF new
  <2>5. ASSUME ~overlapped, ~abandoned, NEW file \in Files, files'[file] # None
        PROVE  Responsible(jobs'[p], file)
    <3>1. DOMAIN files = Files
      BY DEF TypeInv, AuthorityTypeOK, CustodyTypeOK, Files
    <3>2. file # job.file => files'[file] = files[file]
      BY <2>1, <3>1
    <3>3. file # job.file => Created(file, job.created)
      BY <1>r, <2>1, <2>5, <3>2 DEF Responsible
    <3> QED
      BY <1>6, <2>3, <2>4, <3>3 DEF Responsible
  <2> QED
    BY <1>6, <2>1, <2>3, <2>4, <2>5 DEF Goal
<1>12. ASSUME PlaceFails(p)
       PROVE  Goal
  <2>1. /\ job.at = "place" /\ FailsLeaving(p, job.created)
        /\ UNCHANGED <<files, overlapped, abandoned>>
    BY <1>12 DEF PlaceFails, Fails, job, history
  <2>2. ASSUME ~overlapped, ~abandoned, NEW file \in Files, files[file] # None
        PROVE  Responsible(jobs'[p], file)
    <3>1. job.job = "ceremony" /\ Created(file, job.created)
      BY <1>r, <2>1, <2>2 DEF Responsible
    <3> QED
      BY <1>j, <2>1, <3>1, FailsResponsible DEF job
  <2> QED
    BY <1>7, <2>1, <2>2 DEF Goal
<1>13. ASSUME VerifyPlaced(p)
       PROVE  Goal
  <2>1. job.at = "placed" /\ UNCHANGED <<files, overlapped, abandoned>>
    BY <1>13 DEF VerifyPlaced, job, history
  <2>2. job.job = "ceremony" /\ job.file \in Files
    BY <1>3, <1>j, <1>n, <2>1 DEF job, JobOK
  <2>3. ASSUME ~overlapped, ~abandoned, NEW file \in Files, files[file] # None
        PROVE  Created(file, job.created) \/ file = job.file
    BY <1>r, <2>1, <2>3 DEF Responsible
  <2>4. CASE files[job.file] = None
    <3>1. FailsLeaving(p, job.created)
      BY <1>13, <2>4 DEF VerifyPlaced, Fails, job
    <3>2. ASSUME ~overlapped, ~abandoned, NEW file \in Files, files[file] # None
          PROVE  Responsible(jobs'[p], file)
      BY <1>j, <2>2, <2>3, <2>4, <3>1, <3>2, FailsResponsible DEF job
    <3> QED
      BY <1>7, <2>1, <3>1, <3>2 DEF Goal
  <2>5. CASE files[job.file] # None
    <3> DEFINE created == Append(job.created, job.file)
               checked == [job EXCEPT !.at = "check", !.file = "fingerprint", !.created = created]
               moded == [job EXCEPT !.at = "mode", !.created = created]
               enrols == [job EXCEPT !.at = "enrol", !.created = created]
    <3>1. Becomes(p, checked) \/ Becomes(p, moded) \/ Becomes(p, enrols)
      BY <1>13, <2>2, <2>5, CustodyAssumption DEF VerifyPlaced, Checks, job
    <3>2. /\ checked.job = "ceremony" /\ checked.created = created
          /\ moded.job = "ceremony" /\ moded.created = created
          /\ enrols.job = "ceremony" /\ enrols.created = created
      BY <1>j, <2>2 DEF Job
    <3>3. \A file \in Files : Created(file, job.created) \/ file = job.file => Created(file, created)
      BY <1>j, <2>2, CreatedOK
    <3> HIDE DEF created, checked, moded, enrols
    <3>4. jobs'[p].job = "ceremony" /\ jobs'[p].created = created
          /\ \A q \in Procs \ {p} : jobs'[q] = jobs[q]
      BY <1>6, <3>1, <3>2
    <3> QED
      BY <2>1, <2>3, <3>3, <3>4 DEF Goal, Responsible
  <2> QED
    BY <2>4, <2>5
<1>14. ASSUME EvaluateKeyFileMode(p)
       PROVE  Goal
  <2>1. job.at = "mode" /\ UNCHANGED <<files, overlapped, abandoned>>
    BY <1>14 DEF EvaluateKeyFileMode, job, history
  <2>2. job.job = "ceremony"
    BY <1>3, <1>n, <2>1 DEF job
  <2>3. ASSUME ~overlapped, ~abandoned, NEW file \in Files, files[file] # None
        PROVE  Created(file, job.created)
    BY <1>r, <2>1, <2>3 DEF Responsible
  <2>4. CASE files.key = None
    <3>1. Becomes(p, Idle)
      BY <1>14, <2>4 DEF EvaluateKeyFileMode
    <3>2. overlapped
      <4> SUFFICES ASSUME ~overlapped
                   PROVE  FALSE
        OBVIOUS
      <4>1. files.key = job.id /\ job.id \in Roots
        BY <1>j, <2>1, <2>2 DEF OrderInv, Sound, CeremonyFiles, JobOK, job
      <4> QED
        BY <2>4, <4>1, CustodyAssumption
    <3>3. Idle.job # "rotation"
      BY CustodyAssumption DEF Idle
    <3> QED
      BY <1>6, <2>1, <3>1, <3>2, <3>3 DEF Goal
  <2>5. CASE files.key # None
    <3> DEFINE new == [job EXCEPT !.at = "check", !.file = "profile", !.created = job.created]
    <3>1. new.job = "ceremony" /\ new.created = job.created
      BY <1>j, <2>2 DEF Job
    <3>2. Becomes(p, new)
      BY <1>14, <2>5 DEF EvaluateKeyFileMode, Checks, job
    <3> HIDE DEF new
    <3> QED
      BY <1>6, <2>1, <2>3, <3>1, <3>2 DEF Goal, Responsible
  <2> QED
    BY <2>4, <2>5
<1>15. ASSUME EnrolFails(p)
       PROVE  Goal
  <2>1. /\ job.at = "enrol" /\ FailsLeaving(p, job.created)
        /\ UNCHANGED <<files, overlapped, abandoned>>
    BY <1>15 DEF EnrolFails, Fails, job, history
  <2>2. ASSUME ~overlapped, ~abandoned, NEW file \in Files, files[file] # None
        PROVE  Responsible(jobs'[p], file)
    <3>1. job.job = "ceremony" /\ Created(file, job.created)
      BY <1>r, <2>1, <2>2 DEF Responsible
    <3> QED
      BY <1>j, <2>1, <3>1, FailsResponsible DEF job
  <2> QED
    BY <1>7, <2>1, <2>2 DEF Goal
<1>16. ASSUME CleanUp(p)
       PROVE  Goal
  <2>1. /\ job.at = "cleanup" /\ FailsLeaving(p, Tail(job.created))
        /\ files' = [files EXCEPT ![Head(job.created)] = None]
        /\ UNCHANGED <<overlapped, abandoned>>
    BY <1>16 DEF CleanUp, job, history
  <2>2. /\ job.job = "ceremony" /\ job.created # <<>>
        /\ Head(job.created) \in Files /\ Tail(job.created) \in Seq(Files)
    BY <1>3, <1>j, <1>n, <2>1 DEF job, JobOK
  <2>3. ASSUME ~overlapped, ~abandoned, NEW file \in Files, files'[file] # None
        PROVE  Responsible(jobs'[p], file)
    <3>1. DOMAIN files = Files
      BY DEF TypeInv, AuthorityTypeOK, CustodyTypeOK, Files
    <3>2. file # Head(job.created) /\ files[file] # None
      BY <2>1, <2>2, <2>3, <3>1
    <3>3. Created(file, job.created)
      BY <1>r, <2>1, <2>3, <3>2 DEF Responsible
    <3>4. Created(file, Tail(job.created))
      BY <1>j, <2>2, <3>2, <3>3, CreatedOK
    <3> QED
      BY <2>1, <2>2, <3>4, FailsResponsible DEF job
  <2> QED
    BY <1>7, <2>1, <2>3 DEF Goal
<1>17. ASSUME Crash(p)
       PROVE  Goal
  <2>1. Becomes(p, Idle) /\ abandoned' = TRUE
    BY <1>17 DEF Crash
  <2>2. Idle.job # "rotation"
    BY CustodyAssumption DEF Idle
  <2> QED
    BY <1>6, <2>1, <2>2 DEF Goal
<1> QED
  BY <1>0, <1>1, <1>4, <1>8, <1>9, <1>10, <1>11, <1>12, <1>13, <1>14, <1>15, <1>16, <1>17

\* Steps that are no job's leave files, credentials and jobs alone, and enrol no root.
LEMMA NoJob ==
  ASSUME TypeInv, [Next]_vars, ~(Jobs /\ UNCHANGED authorityVars)
  PROVE  /\ UNCHANGED <<files, credentials, jobs, overlapped, abandoned>>
         /\ \A r \in Roots : principals'[r] = "absent" <=> principals[r] = "absent"
<1> USE DEF TypeInv, AuthorityTypeOK, CustodyTypeOK
<1>1. ASSUME NEW q \in Peers, EnrolPeer(q)
      PROVE  /\ UNCHANGED <<files, credentials, jobs, overlapped, abandoned>>
             /\ \A r \in Roots : principals'[r] = "absent" <=> principals[r] = "absent"
  BY <1>1, CustodyAssumption DEF EnrolPeer, history, Principals
<1>2. ASSUME NEW q \in Principals, StandDown(q)
      PROVE  /\ UNCHANGED <<files, credentials, jobs, overlapped, abandoned>>
             /\ \A r \in Roots : principals'[r] = "absent" <=> principals[r] = "absent"
  BY <1>2 DEF StandDown, history
<1>3. ASSUME NEW q \in Principals, NEW status \in {"active", "disabled"},
             SetPrincipalStatus(q, status)
      PROVE  /\ UNCHANGED <<files, credentials, jobs, overlapped, abandoned>>
             /\ \A r \in Roots : principals'[r] = "absent" <=> principals[r] = "absent"
  BY <1>3 DEF SetPrincipalStatus, history, Principals
<1>4. ASSUME ~Embedding
      PROVE  UNCHANGED <<files, credentials, jobs, overlapped, abandoned, principals>>
  BY <1>4 DEF Next, BeginRequest, SignRequest, DropRequest, RecordAttestation, RecordRevocation,
     AttestHead, OtherEvent, vars, custodyVars, registryVars, history
<1> QED
  BY <1>1, <1>2, <1>3, <1>4 DEF Embedding

\* Every step keeps the order of the jobs.
LEMMA OrderKept ==
  ASSUME TypeInv, TypeInv', OrderInv, [Next]_vars
  PROVE  OrderInv'
<1>1. CASE Jobs /\ UNCHANGED authorityVars
  BY <1>1, JobsOrdered
<1>2. CASE ~(Jobs /\ UNCHANGED authorityVars)
  BY <1>2, NoJob DEF OrderInv, Sound, CeremonyFiles, RotationFiles, Content, Usable, NoRoot
<1> QED
  BY <1>1, <1>2

\* Every step keeps the responsibility for files.
LEMMA RetryKept ==
  ASSUME TypeInv, TypeInv', OrderInv, RetryInv, [Next]_vars
  PROVE  RetryInv'
<1>1. CASE Jobs /\ UNCHANGED authorityVars
  BY <1>1, JobsRetry
<1>2. CASE ~(Jobs /\ UNCHANGED authorityVars)
  BY <1>2, NoJob DEF RetryInv, Responsible, Created, NoRoot
<1> QED
  BY <1>1, <1>2

-------------------------------------------------------------------------------
(* All of it holds at all times.                                           *)

\* Workspaces start empty.
LEMMA InitOK == Init => Inv /\ OrderInv /\ RetryInv
<1> SUFFICES ASSUME Init PROVE Inv /\ OrderInv /\ RetryInv
  OBVIOUS
<1> USE DEF Init, CustodyInit
<1>1. TypeInv
  <2>1. JobOK(Idle) /\ Idle \in Job
    BY IdleOK DEF JobOK
  <2>2. \A p \in Procs : jobs[p] = Idle
    OBVIOUS
  <2>3. jobs \in [Procs -> Job] /\ \A p \in Procs : JobOK(jobs[p])
    BY <2>1, <2>2
  <2>4. log \in Seq(Event)
    OBVIOUS
  <2> QED
    BY <2>3, <2>4 DEF TypeInv, AuthorityTypeOK, CustodyTypeOK
<1>2. Len(log) = 0
  OBVIOUS
<1>3. /\ RegistryInv /\ RequestsNamed /\ OneRoot /\ RevocationsNamed /\ RevocationsAgree
      /\ RevokedKeysFallSilent /\ AnchorsHaveLatest /\ AnchorsFormAChain
  BY <1>2 DEF RegistryInv, RequestsNamed, OneRoot, RevocationsNamed, RevocationsAgree,
     RevokedKeysFallSilent, AnchorsHaveLatest, AnchorsFormAChain, Principals
<1>4. \A p \in Procs : jobs[p].at = "idle" /\ jobs[p].job = None
  BY DEF Idle
<1>5. NoRoot
  BY DEF NoRoot, Principals
<1>6. OrderInv
  BY <1>4, <1>5, CustodyAssumption DEF OrderInv, Sound, Usable, NoRoot
<1>7. RetryInv
  BY <1>4, <1>5, CustodyAssumption DEF RetryInv, Files
<1> QED
  BY <1>1, <1>3, <1>6, <1>7 DEF Inv

\* The invariant, of the record and of custody.
LEMMA InvHolds == Spec => [](Inv /\ OrderInv /\ RetryInv)
<1>1. Init => Inv /\ OrderInv /\ RetryInv
  BY InitOK
<1>2. Inv /\ OrderInv /\ RetryInv /\ [Next]_vars => (Inv /\ OrderInv /\ RetryInv)'
  <2> SUFFICES ASSUME Inv, OrderInv, RetryInv, [Next]_vars
               PROVE  (Inv /\ OrderInv /\ RetryInv)'
    OBVIOUS
  <2>1. TypeInv'
    BY TypesKept DEF Inv
  <2>2. RequestsNamed' /\ RegistryInv' /\ OneRoot'
    BY RequestsKept, RootKept
  <2>3. RevocationsNamed' /\ RevocationsAgree' /\ RevokedKeysFallSilent'
    BY RevocationsKept, SilenceKept
  <2>4. AnchorsHaveLatest' /\ AnchorsFormAChain'
    BY AnchorsKept
  <2>5. OrderInv' /\ RetryInv'
    BY <2>1, OrderKept, RetryKept DEF Inv
  <2> QED
    BY <2>1, <2>2, <2>3, <2>4, <2>5 DEF Inv
<1> QED
  BY <1>1, <1>2, PTL DEF Spec

-------------------------------------------------------------------------------
(* The theorems.                                                           *)

\* Files, registry, log and requests keep their types (identity/principal-bootstrap.ts,
\* principal-authority.ts, chain-attestation.ts).
THEOREM AuthorityTypes == Spec => []AuthorityTypeOK
<1>1. Inv => AuthorityTypeOK
  BY DEF Inv, TypeInv
<1> QED
  BY <1>1, InvHolds, PTL

\* However many ceremonies race, at most one root is enrolled, and the log tells of it once
\* (principal-bootstrap.ts: the registry is empty, read again in the enrolling transaction).
THEOREM RootIsOne == Spec => []OneRoot
<1>1. Inv => OneRoot
  BY DEF Inv
<1> QED
  BY <1>1, InvHolds, PTL

\* While jobs come one after another, the operator's files and its credential agree at
\* every moment of a rotation, wherever one fails or is lost (principal-authority.ts: the
\* token is minted, then placed, and only then are the others revoked).
THEOREM OperatorStaysUsable == Spec => []OperatorIsUsable
<1>1. OrderInv => OperatorIsUsable
  BY DEF OrderInv, Usable, OperatorIsUsable
<1> QED
  BY <1>1, InvHolds, PTL

\* A ceremony that failed leaves nothing the next would refuse to overwrite
\* (principal-bootstrap.ts: what was created is removed).
THEOREM CeremonyCanBeRetried == Spec => []RetryIsPossible
<1>1. Inv /\ RetryInv => RetryIsPossible
  <2> SUFFICES ASSUME Inv, RetryInv, \A p \in Procs : jobs[p].at = "idle",
                      ~overlapped, ~abandoned, NoRoot
               PROVE  \A file \in Files : files[file] = None
    BY DEF RetryIsPossible, NoRoot
  <2>1. \A p \in Procs : jobs[p].job = None
    BY DEF Inv, TypeInv, JobOK
  <2>2. \A p \in Procs, file \in Files : ~Responsible(jobs[p], file)
    BY <2>1, CustodyAssumption DEF Responsible
  <2> QED
    BY <2>2 DEF RetryInv
<1> QED
  BY <1>1, InvHolds, PTL

\* After the log tells that a key was revoked, it tells nothing that key signed
\* (principal-authority.ts, chain-attestation.ts: standing is read where it is recorded).
THEOREM RevokedStaySilent == Spec => []RevokedKeysFallSilent
<1>1. Inv => RevokedKeysFallSilent
  BY DEF Inv
<1> QED
  BY <1>1, InvHolds, PTL

\* The audit row of a revocation, the standing of the key and the log agree
\* (principal-authority.ts: one transaction).
THEOREM RevocationRecords == Spec => []RevocationsAgree
<1>1. Inv => RevocationsAgree
  BY DEF Inv
<1> QED
  BY <1>1, InvHolds, PTL

\* The withdrawal of authority is total (principal-authority.ts, chain-attestation.ts).
THEOREM RevocationsAreTotal == Spec => []RevocationsHold
<1>1. Inv => RevocationsHold
  BY DEF Inv, RevocationsHold
<1> QED
  BY <1>1, InvHolds, PTL

\* The attestations of the head form a chain, each over a fact of its own
\* (chain-attestation.ts: the head is read, signed and recorded in one transaction).
THEOREM AnchorChain == Spec => []AnchorsFormAChain
<1>1. Inv => AnchorsFormAChain
  BY DEF Inv
<1> QED
  BY <1>1, InvHolds, PTL
===============================================================================
