------------------------------ MODULE Ownership ------------------------------
(***************************************************************************)
(* Who owns a ReplicaSet: the claims that every sync of a Deployment makes  *)
(* first (getReplicaSetsForDeployment and the ControllerRef manager), the   *)
(* informer handlers that wake the Deployments concerned, the work queue,   *)
(* and beside them the user, the garbage collector and the API server.      *)
(*                                                                          *)
(* Syncs of different Deployments run concurrently, each on what the        *)
(* informers had delivered when it began.  An object is known by its name;  *)
(* deleted and created again it has a new UID, which is what a              *)
(* ControllerRef and the patches name.  What a sync does after its claims   *)
(* is in DeploymentSync.                                                    *)
(***************************************************************************)
EXTENDS Naturals

CONSTANTS
  Names,       \* Deployments, by name
  Sets,        \* ReplicaSets, by name
  Labels,      \* what a selector selects and a ReplicaSet carries
  FirstLabel,  \* of each object at the start
  MaxRetries,  \* maxRetries (15 in the code)
  MaxUID, MaxEdits, MaxFaults

ASSUME OwnershipAssumption ==
  /\ MaxRetries \in Nat /\ MaxUID \in Nat \ {0} /\ MaxEdits \in Nat /\ MaxFaults \in Nat
  /\ Labels # {} /\ FirstLabel \in [Names \cup Sets -> Labels]

UIDs == 1..MaxUID

(* A ControllerRef: the Deployment's name and its UID. *)
Refs == Names \X UIDs
NoRef == <<>>

(* freed is history: the owners whose deletion with --cascade=orphan made   *)
(* the ReplicaSet an orphan.  An object that does not exist keeps its UID,  *)
(* so that the next of its name has another.                                *)
DeploymentType == [exists : BOOLEAN, uid : UIDs, label : Labels, deleting : BOOLEAN]
ReplicaSetType ==
  [exists : BOOLEAN, uid : UIDs, label : Labels, deleting : BOOLEAN,
   owner : Refs \cup {NoRef}, freed : SUBSET Refs]

(* A sync: its copies, the ReplicaSets it still has to adopt or release,    *)
(* the one answer of CanAdopt, and whether a claim has failed.              *)
SyncType ==
  [busy : BOOLEAN, d : DeploymentType, list : [Sets -> ReplicaSetType], todo : SUBSET Sets,
   canAdopt : {"unasked", "yes", "no"}, failed : BOOLEAN]

VARIABLES
  dep, rs,          \* the API server
  seenDep, seenRS,  \* the informers' stores
  queue, backoff,   \* keys ready, keys added rate limited
  retries,          \* NumRequeues
  sync,             \* the sync of each key
  edits, faults

vars == <<dep, rs, seenDep, seenRS, queue, backoff, retries, sync, edits, faults>>
seen == <<seenDep, seenRS>>
queueVars == <<queue, backoff, retries>>
bounds == <<edits, faults>>

TypeOK ==
  /\ dep \in [Names -> DeploymentType] /\ seenDep \in [Names -> DeploymentType]
  /\ rs \in [Sets -> ReplicaSetType] /\ seenRS \in [Sets -> ReplicaSetType]
  /\ queue \in SUBSET Names /\ backoff \in SUBSET Names
  /\ retries \in [Names -> 0..MaxRetries]
  /\ sync \in [Names -> SyncType]
  /\ edits \in 0..MaxEdits /\ faults \in 0..MaxFaults

NewDeployment(k, l) == [exists |-> TRUE, uid |-> k, label |-> l, deleting |-> FALSE]
NewReplicaSet(k, l) ==
  [exists |-> TRUE, uid |-> k, label |-> l, deleting |-> FALSE, owner |-> NoRef, freed |-> {}]
Ref(n, d) == <<n, d.uid>>

Idle ==
  LET l == CHOOSE x \in Labels : TRUE
  IN  [busy |-> FALSE, d |-> NewDeployment(1, l), list |-> [r \in Sets |-> NewReplicaSet(1, l)],
       todo |-> {}, canAdopt |-> "unasked", failed |-> FALSE]

(* The controller starts on Deployments and orphans nobody has claimed. *)
Init ==
  /\ dep = [n \in Names |-> NewDeployment(1, FirstLabel[n])] /\ seenDep = dep
  /\ rs = [r \in Sets |-> NewReplicaSet(1, FirstLabel[r])] /\ seenRS = rs
  /\ queue = Names /\ backoff = {} /\ retries = [n \in Names |-> 0]
  /\ sync = [n \in Names |-> Idle]
  /\ edits = 0 /\ faults = 0

-----------------------------------------------------------------------------
(* The informer handlers: the Deployments that an event enqueues. *)

resolveControllerRef(ref) == {n \in Names : seenDep[n].exists /\ ref = Ref(n, seenDep[n])}

getDeploymentsForReplicaSet(x) ==
  {n \in Names : seenDep[n].exists /\ seenDep[n].label = x.label}

deleteReplicaSet(x) == resolveControllerRef(x.owner)

addReplicaSet(x) ==
  IF x.deleting \/ x.owner # NoRef THEN resolveControllerRef(x.owner)
  ELSE getDeploymentsForReplicaSet(x)

(* An updateReplicaSet that does not take an orphan that was just released  *)
(* for one that somebody may want.                                          *)
updateReplicaSetRelabelled(old, cur) ==
  (IF cur.owner # old.owner THEN resolveControllerRef(old.owner) ELSE {})
  \cup (IF cur.owner # NoRef THEN resolveControllerRef(cur.owner)
        ELSE IF cur.label # old.label THEN getDeploymentsForReplicaSet(cur) ELSE {})

updateReplicaSet(old, cur) ==
  (IF cur.owner # old.owner THEN resolveControllerRef(old.owner) ELSE {})
  \cup (IF cur.owner # NoRef THEN resolveControllerRef(cur.owner)
        ELSE IF cur.label # old.label \/ cur.owner # old.owner
             THEN getDeploymentsForReplicaSet(cur) ELSE {})

(* addDeployment, updateDeployment and deleteDeployment all enqueue.  A     *)
(* watch that fell behind delivers several updates as one, but a deletion   *)
(* always as such.                                                          *)
HearDeployment(n) ==
  /\ seenDep[n] # dep[n]
  /\ seenDep' = [seenDep EXCEPT ![n] = dep[n]]
  /\ queue' = queue \cup {n}
  /\ UNCHANGED <<dep, rs, seenRS, backoff, retries, sync, bounds>>

HearReplicaSet(r) ==
  LET old == seenRS[r]
      deleted == old.exists /\ (~rs[r].exists \/ rs[r].uid # old.uid)
  IN
  /\ old # rs[r]
  /\ seenRS' = [seenRS EXCEPT ![r] = IF deleted THEN [old EXCEPT !.exists = FALSE] ELSE rs[r]]
  /\ queue' = queue \cup
       IF deleted THEN deleteReplicaSet(old)
       ELSE IF ~rs[r].exists THEN {}
       ELSE IF ~old.exists THEN addReplicaSet(rs[r])
       ELSE updateReplicaSet(old, rs[r])
  /\ UNCHANGED <<dep, rs, seenDep, backoff, retries, sync, bounds>>

-----------------------------------------------------------------------------
(* processNextWorkItem and handleErr. *)

CaughtUp == seenDep = dep /\ seenRS = rs

(* The rate limiter's delays grow from five milliseconds: only the first    *)
(* retry may come before the watches have caught up.                        *)
RetryFires(n) ==
  /\ n \in backoff /\ (retries[n] > 1 => CaughtUp)
  /\ backoff' = backoff \ {n} /\ queue' = queue \cup {n}
  /\ UNCHANGED <<dep, rs, seen, retries, sync, bounds>>

Forget(n) == retries' = [retries EXCEPT ![n] = 0] /\ UNCHANGED backoff

handleErr(n, failed) ==
  IF failed /\ retries[n] < MaxRetries
  THEN /\ retries' = [retries EXCEPT ![n] = @ + 1]
       /\ backoff' = backoff \cup {n}
  ELSE Forget(n)

(* ClaimObject, as far as it needs no call: what is to be released and what *)
(* is to be adopted.                                                        *)
ToRelease(n, d, list) ==
  {r \in Sets : /\ list[r].exists /\ list[r].owner = Ref(n, d)
                /\ list[r].label # d.label /\ ~d.deleting}
ToAdopt(d, list) ==
  {r \in Sets : /\ list[r].exists /\ list[r].owner = NoRef /\ ~d.deleting
                /\ list[r].label = d.label /\ ~list[r].deleting}

(* The sync takes its copies from the informers' stores. *)
Get(n) ==
  /\ n \in queue /\ ~sync[n].busy
  /\ queue' = queue \ {n}
  /\ IF seenDep[n].exists
     THEN /\ sync' = [sync EXCEPT ![n] =
               [busy |-> TRUE, d |-> seenDep[n], list |-> seenRS,
                todo |-> ToRelease(n, seenDep[n], seenRS) \cup ToAdopt(seenDep[n], seenRS),
                canAdopt |-> "unasked", failed |-> FALSE]]
          /\ UNCHANGED <<backoff, retries>>
     ELSE Forget(n) /\ UNCHANGED sync
  /\ UNCHANGED <<dep, rs, seen, bounds>>

Orphans(n) == {r \in sync[n].todo : sync[n].list[r].owner = NoRef}

(* A recheck that only asks whether the Deployment is still the same one. *)
recheckUIDOnly(n) == dep[n].exists /\ dep[n].uid = sync[n].d.uid

(* RecheckDeletionTimestamp over a live GET, which also compares the UID. *)
RecheckDeletionTimestamp(n) ==
  dep[n].exists /\ dep[n].uid = sync[n].d.uid /\ ~dep[n].deleting

(* CanAdopt asks once, before the first adoption; if it is refused, every   *)
(* adoption of this sync fails.                                             *)
Answered(n, yes) ==
  sync' = [sync EXCEPT ![n].canAdopt = IF yes THEN "yes" ELSE "no",
                       ![n].todo = IF yes THEN @ ELSE @ \ Orphans(n),
                       ![n].failed = @ \/ ~yes]

CanAdopt(n) ==
  /\ Orphans(n) # {} /\ sync[n].canAdopt = "unasked"
  /\ Answered(n, RecheckDeletionTimestamp(n))
  /\ UNCHANGED <<dep, rs, seen, queueVars, bounds>>

Claimed(n, r, failed) ==
  sync' = [sync EXCEPT ![n].todo = @ \ {r}, ![n].failed = @ \/ failed]

(* A patch without a UID goes to whatever has that name. *)
sameName(n, r) == rs[r].exists

(* The patch names the UID the sync has listed. *)
SameSet(n, r) == rs[r].exists /\ rs[r].uid = sync[n].list[r].uid

(* ValidateOwnerReferences rejects a second controller; a ReplicaSet that   *)
(* is gone is none of the sync's business any more.                         *)
AdoptReplicaSet(n, r) ==
  LET ok == SameSet(n, r) /\ rs[r].owner \in {NoRef, Ref(n, sync[n].d)}
  IN  /\ r \in Orphans(n) /\ sync[n].canAdopt = "yes"
      /\ rs' = IF ok THEN [rs EXCEPT ![r].owner = Ref(n, sync[n].d)] ELSE rs
      /\ Claimed(n, r, ~ok /\ rs[r].exists)
      /\ UNCHANGED <<dep, seen, queueVars, bounds>>

(* The strategic merge patch deletes the Deployment's own reference, if it  *)
(* is there; NotFound and Invalid are ignored.                              *)
ReleaseReplicaSet(n, r) ==
  LET ok == SameSet(n, r) /\ rs[r].owner = Ref(n, sync[n].d)
  IN  /\ r \in sync[n].todo \ Orphans(n)
      /\ rs' = IF ok THEN [rs EXCEPT ![r].owner = NoRef] ELSE rs
      /\ Claimed(n, r, FALSE)
      /\ UNCHANGED <<dep, seen, queueVars, bounds>>

(* Claims that failed are an error of the sync; without one it goes on.     *)
Return(n) ==
  /\ sync[n].busy /\ sync[n].todo = {}
  /\ handleErr(n, sync[n].failed)
  /\ sync' = [sync EXCEPT ![n] = Idle]
  /\ UNCHANGED <<dep, rs, seen, queue, bounds>>

Worker(n) ==
  \/ Get(n) \/ CanAdopt(n) \/ Return(n)
  \/ \E r \in Sets : AdoptReplicaSet(n, r) \/ ReleaseReplicaSet(n, r)

-----------------------------------------------------------------------------
(* The garbage collector (external).  A Deployment deleted with             *)
(* --cascade=orphan goes when none of its ReplicaSets refers to it any      *)
(* more; a ReplicaSet whose owner is gone goes too.                         *)
Orphan(r) ==
  /\ \E n \in Names : /\ dep[n].exists /\ dep[n].deleting
                      /\ rs[r].exists /\ rs[r].owner = Ref(n, dep[n])
  /\ rs' = [rs EXCEPT ![r].owner = NoRef, ![r].freed = @ \cup {rs[r].owner}]
  /\ UNCHANGED <<dep, seen, queueVars, sync, bounds>>

Finalize(n) ==
  /\ dep[n].exists /\ dep[n].deleting
  /\ \A r \in Sets : rs[r].exists => rs[r].owner # Ref(n, dep[n])
  /\ dep' = [dep EXCEPT ![n].exists = FALSE]
  /\ UNCHANGED <<rs, seen, queueVars, sync, bounds>>

Collect(r) ==
  /\ rs[r].exists
  /\ \/ rs[r].deleting
     \/ rs[r].owner # NoRef /\ \A n \in Names : dep[n].exists => rs[r].owner # Ref(n, dep[n])
  /\ rs' = [rs EXCEPT ![r].exists = FALSE]
  /\ UNCHANGED <<dep, seen, queueVars, sync, bounds>>

(* The user. *)
Edit ==
  edits < MaxEdits /\ edits' = edits + 1 /\ UNCHANGED <<seen, queueVars, sync, faults>>

CreateDeployment(n, l) ==
  /\ Edit /\ ~dep[n].exists /\ dep[n].uid < MaxUID
  /\ dep' = [dep EXCEPT ![n] = NewDeployment(dep[n].uid + 1, l)]
  /\ UNCHANGED rs

DeleteDeployment(n, cascade) ==
  /\ Edit /\ dep[n].exists /\ ~dep[n].deleting
  /\ dep' = IF cascade = "orphan" THEN [dep EXCEPT ![n].deleting = TRUE]
            ELSE [dep EXCEPT ![n].exists = FALSE]
  /\ UNCHANGED rs

CreateReplicaSet(r, l) ==
  /\ Edit /\ ~rs[r].exists /\ rs[r].uid < MaxUID
  /\ rs' = [rs EXCEPT ![r] = NewReplicaSet(rs[r].uid + 1, l)]
  /\ UNCHANGED dep

DeleteReplicaSet(r) ==
  /\ Edit /\ rs[r].exists /\ ~rs[r].deleting
  /\ rs' = [rs EXCEPT ![r].deleting = TRUE]
  /\ UNCHANGED dep

Relabel(r, l) ==
  /\ Edit /\ rs[r].exists /\ rs[r].label # l
  /\ rs' = [rs EXCEPT ![r].label = l]
  /\ UNCHANGED dep

User ==
  \/ \E n \in Names, l \in Labels : CreateDeployment(n, l)
  \/ \E n \in Names, c \in {"orphan", "background"} : DeleteDeployment(n, c)
  \/ \E r \in Sets, l \in Labels : CreateReplicaSet(r, l) \/ Relabel(r, l)
  \/ \E r \in Sets : DeleteReplicaSet(r)

(* A GET or a patch fails; the controller restarts and lists everything     *)
(* anew.                                                                    *)
Fault == faults < MaxFaults /\ faults' = faults + 1 /\ UNCHANGED <<dep, rs, edits>>

CallFails(n) ==
  /\ Fault
  /\ \/ Orphans(n) # {} /\ sync[n].canAdopt = "unasked" /\ Answered(n, FALSE)
     \/ \E r \in sync[n].todo :
          /\ r \in Orphans(n) => sync[n].canAdopt = "yes"
          /\ Claimed(n, r, TRUE)
  /\ UNCHANGED <<seen, queueVars>>

Restart ==
  /\ Fault
  /\ seenDep' = dep /\ seenRS' = rs
  /\ queue' = {n \in Names : dep[n].exists} /\ backoff' = {}
  /\ retries' = [n \in Names |-> 0] /\ sync' = [n \in Names |-> Idle]

Next ==
  \/ \E n \in Names : HearDeployment(n) \/ RetryFires(n) \/ Worker(n) \/ Finalize(n) \/ CallFails(n)
  \/ \E r \in Sets : HearReplicaSet(r) \/ Orphan(r) \/ Collect(r)
  \/ User \/ Restart

(* Watches deliver, workers run and the garbage collector collects.  No     *)
(* resync of the informers is assumed.                                      *)
Fairness ==
  /\ \A n \in Names : WF_vars(HearDeployment(n)) /\ WF_vars(RetryFires(n))
                      /\ WF_vars(Worker(n)) /\ WF_vars(Finalize(n))
  /\ \A r \in Sets : WF_vars(HearReplicaSet(r)) /\ WF_vars(Orphan(r)) /\ WF_vars(Collect(r))

SafetySpec == Init /\ [][Next]_vars
Spec == SafetySpec /\ Fairness

-----------------------------------------------------------------------------
(***************************************************************************)
(* Properties.                                                             *)
(***************************************************************************)

(* A Deployment deleted with --cascade=orphan does not take back the        *)
(* ReplicaSets its deletion has orphaned: a sync that lists one of them as  *)
(* an orphan finds by its live read, made after the list, that the          *)
(* Deployment is being deleted, gone, or another one of the same name.      *)
NotTakenBack ==
  [][\A n \in Names, r \in Sets :
       LET me == Ref(n, sync[n].d)
       IN  rs[r].owner # me /\ rs'[r].owner = me => me \notin sync[n].list[r].freed]_vars

(* The syncs of several Deployments never touch each other's ReplicaSets,   *)
(* however old their copies: a reference goes only from its own Deployment, *)
(* or with it, and is set only on an orphan, the very one that was listed   *)
(* and not a later one of the same name.                                    *)
OwnSetsOnly ==
  [][\A r \in Sets : rs'[r].owner # rs[r].owner /\ rs'[r].uid = rs[r].uid =>
       IF rs'[r].owner = NoRef
       THEN \E n \in Names : \/ rs[r].owner = Ref(n, sync[n].d) /\ r \in sync[n].todo
                             \/ rs[r].owner = Ref(n, dep[n]) /\ dep[n].deleting
       ELSE \E n \in Names : /\ rs'[r].owner = Ref(n, sync[n].d)
                             /\ rs[r].owner = NoRef
                             /\ rs[r].uid = sync[n].list[r].uid]_vars

Owned(r) ==
  \E n \in Names : /\ dep[n].exists /\ ~dep[n].deleting
                   /\ rs[r].owner = Ref(n, dep[n]) /\ rs[r].label = dep[n].label
Unwanted(r) ==
  rs[r].owner = NoRef /\ \A n \in Names : dep[n].exists => dep[n].label # rs[r].label

(* Left alone, every ReplicaSet ends with a Deployment that selects it, and *)
(* is an orphan only if there is none: each change of a label, an owner or  *)
(* a Deployment wakes those it concerns, in whatever order the two watches  *)
(* report it, without waiting for a resync.                                 *)
Settles == <>[](\A r \in Sets : rs[r].exists => Owned(r) \/ Unwanted(r))
=============================================================================
