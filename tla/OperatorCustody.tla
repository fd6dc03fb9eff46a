---------------------------- MODULE OperatorCustody ----------------------------
(***************************************************************************)
(* How an operator comes to be: the ceremony of principal-bootstrap.ts and *)
(* the rotation of principal-authority.ts.                                 *)
(*                                                                         *)
(* Both write files one by one beside a database they change in            *)
(* transactions, and any number of processes run them: every command that  *)
(* needs an actor runs the ceremony on an empty registry.  A step here is  *)
(* one access to a file or one transaction; a process may be lost between  *)
(* any two.                                                                *)
(***************************************************************************)
EXTENDS Naturals, Sequences

CONSTANTS
    Roots,       \* identities a ceremony may generate: a principal with its key
    Peers,       \* principals enrolled by callers that embed the stores
    Tokens,      \* the plaintext tokens that may be minted
    Procs,
    None,
    MaxEvents    \* a bound: how many events the log takes

VARIABLES
    files,       \* the custody directory of the workspace
    principals, keys, credentials,   \* the registry
    log,         \* the event log of the workspace
    jobs,        \* what each process is doing
    overlapped,  \* history: two jobs have been under way at once
    abandoned    \* history: a process was lost in a job

registryVars == <<principals, keys, credentials>>
history == <<overlapped, abandoned>>
custodyVars == <<files, registryVars, log, jobs, history>>

Principals == Roots \cup Peers
Files == {"key", "fingerprint", "profile"}

Profile == [id : Principals, token : Tokens]

Credential == [owner : Principals, status : {"active", "revoked"}]

\* None is nobody's name and no token, file, profile, credential or job.
ASSUME CustodyAssumption ==
    /\ None \notin Roots \cup Peers \cup Tokens \cup Files \cup {"ceremony", "rotation"}
               \cup Profile \cup Credential
    /\ Roots \cap Peers = {}
    /\ MaxEvents \in Nat

Event == [kind : {"principal.bootstrapped", "principal.credential_minted",
                  "principal.key_attested", "principal.key_revoked",
                  "chain.head_attested", "other"},
          by : Principals \cup {None}, of : Principals \cup {None}]
EventOf(kind, by, of) == [kind |-> kind, by |-> by, of |-> of]

Idle == [at |-> "idle", job |-> None, file |-> None, id |-> None, owner |-> None,
         token |-> None, created |-> <<>>]
Places == {"idle", "check", "place", "placed", "mode", "enrol", "cleanup",
           "mint", "profile", "revoke"}
Job == [at : Places, job : {"ceremony", "rotation", None}, file : Files \cup {None},
        id : Principals \cup {None}, owner : Principals \cup {None},
        token : Tokens \cup {None}, created : Seq(Files)]

CustodyTypeOK ==
    /\ files \in [key : Roots \cup {None}, fingerprint : Roots \cup {None},
                  profile : Profile \cup {None}]
    /\ principals \in [Principals -> {"absent", "active", "disabled"}]
    /\ keys \in [Principals -> {"absent", "active", "revoked"}]
    /\ credentials \in [Tokens -> Credential \cup {None}]
    /\ log \in Seq(Event)
    /\ jobs \in [Procs -> Job]
    /\ overlapped \in BOOLEAN /\ abandoned \in BOOLEAN

CustodyInit ==
    /\ files = [key |-> None, fingerprint |-> None, profile |-> None]
    /\ principals = [q \in Principals |-> "absent"]
    /\ keys = [q \in Principals |-> "absent"]
    /\ credentials = [t \in Tokens |-> None]
    /\ log = <<>>
    /\ jobs = [p \in Procs |-> Idle]
    /\ overlapped = FALSE /\ abandoned = FALSE

-------------------------------------------------------------------------------
(* Where a process is, and what it may generate.                           *)

Becomes(p, job) == jobs' = [jobs EXCEPT ![p] = job]
GoesTo(p, place) == Becomes(p, [jobs[p] EXCEPT !.at = place])
Checks(p, file, created) ==
    Becomes(p, [jobs[p] EXCEPT !.at = "check", !.file = file, !.created = created])

Tell(event) == Len(log) < MaxEvents /\ log' = Append(log, event)

\* Ids and tokens are random: nothing that exists has them.
FreshId(r) ==
    /\ principals[r] = "absent"
    /\ r \notin {files.key, files.fingerprint} \cup {jobs[p].id : p \in Procs}
    /\ files.profile # None => files.profile.id # r
FreshToken(t) ==
    /\ credentials[t] = None
    /\ t \notin {jobs[p].token : p \in Procs}
    /\ files.profile # None => files.profile.token # t

Starts(p, job) ==
    /\ jobs[p].at = "idle"
    /\ Becomes(p, job)
    /\ overlapped' = (overlapped \/ \E q \in Procs : jobs[q].at # "idle")
    /\ UNCHANGED abandoned

Standing(q) == principals[q] = "active" /\ keys[q] = "active"

-------------------------------------------------------------------------------
(* The ceremony.                                                           *)

RegistryEmpty == \A q \in Principals : principals[q] = "absent"
AnyRegistry == TRUE

BeginCeremony(p, r, t) ==
    /\ RegistryEmpty
    /\ FreshId(r) /\ FreshToken(t)
    /\ Starts(p, [Idle EXCEPT !.at = "check", !.job = "ceremony", !.file = "key",
                              !.id = r, !.owner = r, !.token = t])
    /\ UNCHANGED <<files, registryVars, log>>

\* A failed ceremony removes what it created; a failed rotation created nothing.
FailsLeaving(p, created) ==
    Becomes(p, IF created = <<>> THEN Idle
               ELSE [jobs[p] EXCEPT !.at = "cleanup", !.created = created])
FailsForgetting(p) ==
    FailsLeaving(p, SelectSeq(jobs[p].created, LAMBDA file : file # "fingerprint"))
Fails(p) == FailsLeaving(p, jobs[p].created)

\* writeFileAtomic: the existence check, the rename and the look at the result are
\* three accesses; the rename replaces what is there.
CheckAbsent(p) ==
    /\ jobs[p].at = "check"
    /\ IF files[jobs[p].file] = None THEN GoesTo(p, "place") ELSE Fails(p)
    /\ UNCHANGED <<files, registryVars, log, history>>

Content(job) ==
    IF job.file = "profile" THEN [id |-> job.id, token |-> job.token] ELSE job.id
PlaceFile(p) ==
    /\ jobs[p].at = "place"
    /\ files' = [files EXCEPT ![jobs[p].file] = Content(jobs[p])]
    /\ GoesTo(p, "placed")
    /\ UNCHANGED <<registryVars, log, history>>

\* The temporary file cannot be written or renamed.
PlaceFails(p) ==
    /\ jobs[p].at = "place"
    /\ Fails(p)
    /\ UNCHANGED <<files, registryVars, log, history>>

\* A file that is gone again fails the write; only then is it among the created.
VerifyPlaced(p) ==
    LET job == jobs[p]
        created == Append(job.created, job.file)
    IN
    /\ job.at = "placed"
    /\ IF files[job.file] = None THEN Fails(p)
       ELSE CASE job.job = "rotation" -> GoesTo(p, "revoke")
              [] job.file = "key" -> Checks(p, "fingerprint", created)
              [] job.file = "fingerprint" ->
                    Becomes(p, [job EXCEPT !.at = "mode", !.created = created])
              [] OTHER -> Becomes(p, [job EXCEPT !.at = "enrol", !.created = created])
    /\ UNCHANGED <<files, registryVars, log, history>>

\* The key file is looked at outside the blocks that clean up.
EvaluateKeyFileMode(p) ==
    /\ jobs[p].at = "mode"
    /\ IF files.key = None THEN Becomes(p, Idle) ELSE Checks(p, "profile", jobs[p].created)
    /\ UNCHANGED <<files, registryVars, log, history>>

\* One transaction: the registry is still empty; principal, key, credential and event.
MayEnrol == RegistryEmpty
Enrol(p) ==
    LET r == jobs[p].id IN
    /\ jobs[p].at = "enrol"
    /\ MayEnrol
    /\ principals' = [principals EXCEPT ![r] = "active"]
    /\ keys' = [keys EXCEPT ![r] = "active"]
    /\ credentials' = [credentials EXCEPT ![jobs[p].token] = [owner |-> r, status |-> "active"]]
    /\ Tell(EventOf("principal.bootstrapped", r, r))
    /\ Becomes(p, Idle)
    /\ UNCHANGED <<files, history>>

\* The registry is not empty any more, or the transaction is lost.
EnrolFails(p) ==
    /\ jobs[p].at = "enrol"
    /\ Fails(p)
    /\ UNCHANGED <<files, registryVars, log, history>>

\* rmSync by path, in the order of creation, whoever wrote what is there now.
CleanUp(p) ==
    LET job == jobs[p] IN
    /\ job.at = "cleanup"
    /\ files' = [files EXCEPT ![Head(job.created)] = None]
    /\ FailsLeaving(p, Tail(job.created))
    /\ UNCHANGED <<registryVars, log, history>>

-------------------------------------------------------------------------------
(* The rotation of the operator's credential.                              *)

\* authenticateFromProfile: token, principal and key are all active.
Authenticated(q) ==
    /\ files.profile # None
    /\ credentials[files.profile.token] = [owner |-> q, status |-> "active"]
    /\ Standing(q)

BeginRotation(p, q) ==
    /\ Authenticated(q)
    /\ Starts(p, [Idle EXCEPT !.at = "mint", !.job = "rotation", !.file = "profile",
                              !.owner = q])
    /\ UNCHANGED <<files, registryVars, log>>

Mint(p, t) ==
    /\ jobs[p].at = "mint"
    /\ FreshToken(t)
    /\ credentials' = [credentials EXCEPT ![t] = [owner |-> jobs[p].owner, status |-> "active"]]
    /\ Becomes(p, [jobs[p] EXCEPT !.at = "profile", !.token = t])
    /\ UNCHANGED <<files, principals, keys, log, history>>

\* rotateProfileToken keeps the profile it reads and changes the token.
ReadProfile(p) ==
    /\ jobs[p].at = "profile"
    /\ IF files.profile = None THEN Fails(p)
       ELSE Becomes(p, [jobs[p] EXCEPT !.at = "place", !.id = files.profile.id])
    /\ UNCHANGED <<files, registryVars, log, history>>

\* One transaction: every other active credential of the principal, and the event.
RevokesAll(t, q, minted) == credentials[t] # None /\ credentials[t].owner = q
Revokes(t, q, minted) == credentials[t] # None /\ credentials[t].owner = q /\ t # minted
RevokeOthers(p) ==
    LET job == jobs[p] IN
    /\ job.at = "revoke"
    /\ credentials' = [t \in Tokens |->
           IF Revokes(t, job.owner, job.token)
           THEN [owner |-> job.owner, status |-> "revoked"] ELSE credentials[t]]
    /\ Tell(EventOf("principal.credential_minted", job.owner, job.owner))
    /\ Becomes(p, Idle)
    /\ UNCHANGED <<files, principals, keys, history>>

-------------------------------------------------------------------------------
(* What else happens to processes and registry.                            *)

Crash(p) ==
    /\ jobs[p].at # "idle"
    /\ Becomes(p, Idle)
    /\ abandoned' = TRUE
    /\ UNCHANGED <<files, registryVars, log, overlapped>>

\* Callers that embed the stores enrol others, disable them and enable them again,
\* and stand a key down without a record.
EnrolPeer(q) ==
    /\ principals[q] = "absent"
    /\ principals' = [principals EXCEPT ![q] = "active"]
    /\ keys' = [keys EXCEPT ![q] = "active"]
    /\ UNCHANGED <<files, credentials, log, jobs, history>>

SetPrincipalStatus(q, status) ==
    /\ principals[q] \notin {"absent", status}
    /\ principals' = [principals EXCEPT ![q] = status]
    /\ UNCHANGED <<files, keys, credentials, log, jobs, history>>

StandDown(q) ==
    /\ keys[q] = "active"
    /\ keys' = [keys EXCEPT ![q] = "revoked"]
    /\ UNCHANGED <<files, principals, credentials, log, jobs, history>>

Jobs ==
    \E p \in Procs :
       \/ \E r \in Roots, t \in Tokens : BeginCeremony(p, r, t)
       \/ CheckAbsent(p) \/ PlaceFile(p) \/ PlaceFails(p) \/ VerifyPlaced(p)
       \/ EvaluateKeyFileMode(p) \/ Enrol(p) \/ EnrolFails(p) \/ CleanUp(p)
       \/ \E q \in Principals : BeginRotation(p, q)
       \/ \E t \in Tokens : Mint(p, t)
       \/ ReadProfile(p) \/ RevokeOthers(p) \/ Crash(p)

Embedding ==
    \/ \E q \in Peers : EnrolPeer(q)
    \/ \E q \in Principals : StandDown(q)
    \/ \E q \in Principals, status \in {"active", "disabled"} : SetPrincipalStatus(q, status)

-------------------------------------------------------------------------------
(* What an operator can rely on.                                           *)

\* However many ceremonies race over files and registry, at most one root is enrolled,
\* and the log tells of it once, as the principal it is.
OneRoot ==
    /\ \A r, s \in Roots : principals[r] # "absent" /\ principals[s] # "absent" => r = s
    /\ \A r \in Roots : principals[r] # "absent" =>
          \E n \in 1..Len(log) : log[n] = EventOf("principal.bootstrapped", r, r)
    /\ \A m, n \in 1..Len(log) :
          log[m].kind = "principal.bootstrapped" /\ log[n].kind = "principal.bootstrapped" => m = n

\* As long as jobs come one after another, an enrolled root has its key file, its
\* fingerprint and a profile whose token is active, at every moment of a rotation and
\* wherever one fails or is lost.
OperatorIsUsable ==
    \A r \in Roots : principals[r] # "absent" /\ ~overlapped =>
        /\ files.key = r /\ files.fingerprint = r
        /\ files.profile # None /\ files.profile.id = r
        /\ credentials[files.profile.token] = [owner |-> r, status |-> "active"]

\* A ceremony that fails, wherever it does, leaves no file that the next would refuse to
\* overwrite, as long as none was lost and none ran beside it.
RetryIsPossible ==
    (\A p \in Procs : jobs[p].at = "idle") /\ ~overlapped /\ ~abandoned
    /\ (\A r \in Roots : principals[r] = "absent")
       => \A file \in Files : files[file] = None
===============================================================================
