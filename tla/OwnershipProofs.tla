--------------------------- MODULE OwnershipProofs ---------------------------
(***************************************************************************)
(* For any Deployments, ReplicaSets and labels, any interleaving of syncs   *)
(* and any staleness of their copies: the syncs touch only what is theirs,  *)
(* and a Deployment does not take back what its deletion has orphaned.      *)
(***************************************************************************)
EXTENDS Ownership, TLAPS

(* A ControllerRef that no living Deployment will ever answer to again. *)
Gone(ref) ==
  \/ dep[ref[1]].uid > ref[2]
  \/ dep[ref[1]].uid = ref[2] /\ (dep[ref[1]].deleting \/ ~dep[ref[1]].exists)

(* What an object remembers of owners that let go of it: they are gone. *)
FreedByGone(x) == \A ref \in x.freed : Gone(ref)

(* The inductive invariant: every copy of a ReplicaSet, on the server, in   *)
(* the informer's store and in a sync, was freed by owners that are gone,   *)
(* and CanAdopt has said yes only to a Deployment that freed nothing in the *)
(* list of its sync.                                                        *)
OInv ==
  /\ TypeOK
  /\ \A r \in Sets : FreedByGone(rs[r])
  /\ \A r \in Sets : FreedByGone(seenRS[r])
  /\ \A n \in Names, r \in Sets : FreedByGone(sync[n].list[r])
  /\ \A n \in Names : sync[n].canAdopt = "yes" =>
       \A r \in Sets : Ref(n, sync[n].d) \notin sync[n].list[r].freed

LEMMA IdleType == Idle \in SyncType
<1>1. (CHOOSE x \in Labels : TRUE) \in Labels
  BY OwnershipAssumption
<1>2. 1 \in UIDs
  BY OwnershipAssumption DEF UIDs
<1> QED
  BY <1>1, <1>2 DEF Idle, SyncType, NewDeployment, NewReplicaSet, DeploymentType, ReplicaSetType, NoRef

LEMMA InitOInv == Init => OInv
<1> SUFFICES ASSUME Init PROVE OInv
  OBVIOUS
<1>1. 1 \in UIDs
  BY OwnershipAssumption DEF UIDs
<1>2. dep \in [Names -> DeploymentType] /\ rs \in [Sets -> ReplicaSetType]
  BY <1>1, OwnershipAssumption
     DEF Init, NewDeployment, NewReplicaSet, DeploymentType, ReplicaSetType, NoRef
<1>3. TypeOK
  BY <1>2, IdleType, OwnershipAssumption DEF Init, TypeOK
<1>4. \A r \in Sets : rs[r].freed = {} /\ seenRS[r].freed = {}
  BY DEF Init, NewReplicaSet
<1>5. \A n \in Names : sync[n].canAdopt = "unasked" /\ \A r \in Sets : sync[n].list[r].freed = {}
  BY DEF Init, Idle, NewReplicaSet
<1> QED
  BY <1>3, <1>4, <1>5 DEF OInv, FreedByGone

LEMMA HandleErrType ==
  ASSUME TypeOK, NEW n \in Names, NEW failed \in BOOLEAN, handleErr(n, failed)
  PROVE  retries' \in [Names -> 0..MaxRetries] /\ backoff' \in SUBSET Names
<1>1. retries[n] \in 0..MaxRetries /\ MaxRetries \in Nat
  BY OwnershipAssumption DEF TypeOK
<1>2. CASE failed /\ retries[n] < MaxRetries
  <2>1. retries[n] + 1 \in 0..MaxRetries
    BY <1>1, <1>2
  <2> QED
    BY <1>2, <2>1 DEF handleErr, TypeOK
<1>3. CASE ~(failed /\ retries[n] < MaxRetries)
  BY <1>1, <1>3 DEF handleErr, Forget, TypeOK
<1> QED
  BY <1>2, <1>3

(* The server's objects keep their types under every change made to them. *)
LEMMA RefType ==
  ASSUME TypeOK, NEW n \in Names
  PROVE  Ref(n, dep[n]) \in Refs /\ Ref(n, sync[n].d) \in Refs
BY DEF TypeOK, Ref, Refs, SyncType, DeploymentType

LEMMA TypeStep == TypeOK /\ [Next]_vars => TypeOK'
<1> SUFFICES ASSUME TypeOK, [Next]_vars PROVE TypeOK'
  OBVIOUS
<1>0. MaxRetries \in Nat /\ MaxUID \in Nat /\ MaxEdits \in Nat /\ MaxFaults \in Nat
  BY OwnershipAssumption
<1>1. ASSUME NEW n \in Names, HearDeployment(n) PROVE TypeOK'
  BY <1>1 DEF HearDeployment, TypeOK, bounds
<1>2. ASSUME NEW n \in Names, RetryFires(n) PROVE TypeOK'
  BY <1>2 DEF RetryFires, TypeOK, seen, bounds
<1>3. ASSUME NEW n \in Names, Get(n) PROVE TypeOK'
  <2>1. CASE seenDep[n].exists
    <3> DEFINE new == [busy |-> TRUE, d |-> seenDep[n], list |-> seenRS,
                todo |-> ToRelease(n, seenDep[n], seenRS) \cup ToAdopt(seenDep[n], seenRS),
                canAdopt |-> "unasked", failed |-> FALSE]
    <3>1. new \in SyncType
      BY DEF TypeOK, SyncType, ToRelease, ToAdopt
    <3>2. sync' = [sync EXCEPT ![n] = new]
      BY <1>3, <2>1 DEF Get
    <3> HIDE DEF new
    <3> QED
      BY <1>3, <2>1, <3>1, <3>2 DEF Get, TypeOK, seen, bounds
  <2>2. CASE ~seenDep[n].exists
    <3>1. Forget(n) /\ UNCHANGED sync
      BY <1>3, <2>2 DEF Get
    <3> QED
      BY <1>0, <1>3, <3>1 DEF Get, Forget, TypeOK, seen, bounds
  <2> QED
    BY <2>1, <2>2
<1>4. ASSUME NEW n \in Names, NEW yes \in BOOLEAN, Answered(n, yes)
      PROVE  sync' \in [Names -> SyncType]
  <2> DEFINE new == [sync[n] EXCEPT !.canAdopt = IF yes THEN "yes" ELSE "no",
                                    !.todo = IF yes THEN @ ELSE @ \ Orphans(n),
                                    !.failed = @ \/ ~yes]
  <2>1. new \in SyncType
    BY ZenonT(30) DEF TypeOK, SyncType
  <2>2. sync' = [sync EXCEPT ![n] = new]
    BY <1>4 DEF Answered, TypeOK
  <2> HIDE DEF new
  <2> QED
    BY <2>1, <2>2 DEF TypeOK
<1>5. ASSUME NEW n \in Names, NEW r \in Sets, NEW b \in BOOLEAN, Claimed(n, r, b)
      PROVE  sync' \in [Names -> SyncType]
  <2> DEFINE new == [sync[n] EXCEPT !.todo = @ \ {r}, !.failed = @ \/ b]
  <2>1. new \in SyncType
    BY DEF TypeOK, SyncType
  <2>2. sync' = [sync EXCEPT ![n] = new]
    BY <1>5 DEF Claimed, TypeOK
  <2> HIDE DEF new
  <2> QED
    BY <2>1, <2>2 DEF TypeOK
<1>6. ASSUME NEW n \in Names, CanAdopt(n) PROVE TypeOK'
  <2>1. RecheckDeletionTimestamp(n) \in BOOLEAN
    BY DEF RecheckDeletionTimestamp, TypeOK, DeploymentType
  <2>2. sync' \in [Names -> SyncType]
    BY <1>4, <1>6, <2>1 DEF CanAdopt
  <2> QED
    BY <1>6, <2>2 DEF CanAdopt, TypeOK, seen, queueVars, bounds
<1>7. ASSUME NEW n \in Names, NEW r \in Sets, AdoptReplicaSet(n, r) PROVE TypeOK'
  <2> DEFINE ok == SameSet(n, r) /\ rs[r].owner \in {NoRef, Ref(n, sync[n].d)}
  <2>1. (~ok /\ rs[r].exists) \in BOOLEAN
    OBVIOUS
  <2>2. sync' \in [Names -> SyncType]
    BY <1>5, <1>7, <2>1 DEF AdoptReplicaSet
  <2>3. rs' \in [Sets -> ReplicaSetType]
    BY <1>7, RefType DEF AdoptReplicaSet, TypeOK, ReplicaSetType
  <2> QED
    BY <1>7, <2>2, <2>3 DEF AdoptReplicaSet, TypeOK, seen, queueVars, bounds
<1>8. ASSUME NEW n \in Names, NEW r \in Sets, ReleaseReplicaSet(n, r) PROVE TypeOK'
  <2>1. sync' \in [Names -> SyncType]
    BY <1>5, <1>8 DEF ReleaseReplicaSet
  <2>2. rs' \in [Sets -> ReplicaSetType]
    BY <1>8, SMTT(30) DEF ReleaseReplicaSet, TypeOK, ReplicaSetType
  <2> QED
    BY <1>8, <2>1, <2>2 DEF ReleaseReplicaSet, TypeOK, seen, queueVars, bounds
<1>9. ASSUME NEW n \in Names, Return(n) PROVE TypeOK'
  <2>1. sync[n].failed \in BOOLEAN
    BY DEF TypeOK, SyncType
  <2>2. sync' \in [Names -> SyncType]
    BY <1>9, IdleType DEF Return, TypeOK
  <2> QED
    BY <1>9, <2>1, <2>2, HandleErrType DEF Return, TypeOK, seen, bounds
<1>10. ASSUME NEW r \in Sets, HearReplicaSet(r) PROVE TypeOK'
  <2>1. [seenRS[r] EXCEPT !.exists = FALSE] \in ReplicaSetType /\ rs[r] \in ReplicaSetType
    BY DEF TypeOK, ReplicaSetType
  <2>2. seenRS' \in [Sets -> ReplicaSetType]
    BY <1>10, <2>1 DEF HearReplicaSet, TypeOK
  <2>3. queue' \in SUBSET Names
    BY <1>10 DEF HearReplicaSet, TypeOK, deleteReplicaSet, addReplicaSet, updateReplicaSet,
         resolveControllerRef, getDeploymentsForReplicaSet
  <2> QED
    BY <1>10, <2>2, <2>3 DEF HearReplicaSet, TypeOK, bounds
<1>11. ASSUME NEW r \in Sets, Orphan(r) PROVE TypeOK'
  <2>1. rs[r].owner \in Refs
    BY <1>11, RefType DEF Orphan
  <2> DEFINE new == [rs[r] EXCEPT !.owner = NoRef, !.freed = @ \cup {rs[r].owner}]
  <2>3. new \in ReplicaSetType
    BY <2>1 DEF TypeOK, ReplicaSetType
  <2>4. rs' = [rs EXCEPT ![r] = new]
    BY <1>11 DEF Orphan, TypeOK
  <2> HIDE DEF new
  <2>2. rs' \in [Sets -> ReplicaSetType]
    BY <2>3, <2>4 DEF TypeOK
  <2> QED
    BY <1>11, <2>2 DEF Orphan, TypeOK, seen, queueVars, bounds
<1>12. ASSUME NEW n \in Names, Finalize(n) PROVE TypeOK'
  <2>1. dep' \in [Names -> DeploymentType]
    BY <1>12 DEF Finalize, TypeOK, DeploymentType
  <2> QED
    BY <1>12, <2>1 DEF Finalize, TypeOK, seen, queueVars, bounds
<1>13. ASSUME NEW r \in Sets, Collect(r) PROVE TypeOK'
  <2>1. rs' \in [Sets -> ReplicaSetType]
    BY <1>13, ZenonT(30) DEF Collect, TypeOK, ReplicaSetType
  <2> QED
    BY <1>13, <2>1 DEF Collect, TypeOK, seen, queueVars, bounds
<1>14. ASSUME User PROVE TypeOK'
  <2>1. /\ edits' \in 0..MaxEdits
        /\ UNCHANGED <<seenDep, seenRS, queue, backoff, retries, sync, faults>>
    BY <1>0, <1>14
       DEF User, CreateDeployment, DeleteDeployment, CreateReplicaSet, DeleteReplicaSet, Relabel,
           Edit, TypeOK, seen, queueVars
  <2>2. ASSUME NEW n \in Names, NEW l \in Labels, CreateDeployment(n, l)
        PROVE  dep' \in [Names -> DeploymentType] /\ rs' \in [Sets -> ReplicaSetType]
    <3>1. dep[n].uid + 1 \in UIDs
      BY <1>0, <2>2 DEF CreateDeployment, TypeOK, DeploymentType, UIDs
    <3>2. NewDeployment(dep[n].uid + 1, l) \in DeploymentType
      BY <3>1 DEF NewDeployment, DeploymentType
    <3> QED
      BY <2>2, <3>2 DEF CreateDeployment, TypeOK
  <2>3. ASSUME NEW n \in Names, NEW c, DeleteDeployment(n, c)
        PROVE  dep' \in [Names -> DeploymentType] /\ rs' \in [Sets -> ReplicaSetType]
    BY <2>3 DEF DeleteDeployment, TypeOK, DeploymentType
  <2>4. ASSUME NEW r \in Sets, NEW l \in Labels, CreateReplicaSet(r, l)
        PROVE  dep' \in [Names -> DeploymentType] /\ rs' \in [Sets -> ReplicaSetType]
    <3>1. rs[r].uid + 1 \in UIDs
      BY <1>0, <2>4 DEF CreateReplicaSet, TypeOK, ReplicaSetType, UIDs
    <3>2. NewReplicaSet(rs[r].uid + 1, l) \in ReplicaSetType
      BY <3>1 DEF NewReplicaSet, ReplicaSetType
    <3> QED
      BY <2>4, <3>2 DEF CreateReplicaSet, TypeOK
  <2>5. ASSUME NEW r \in Sets, NEW l \in Labels, DeleteReplicaSet(r) \/ Relabel(r, l)
        PROVE  dep' \in [Names -> DeploymentType] /\ rs' \in [Sets -> ReplicaSetType]
    <3>1. /\ [rs[r] EXCEPT !.deleting = TRUE] \in ReplicaSetType
          /\ [rs[r] EXCEPT !.label = l] \in ReplicaSetType
      BY DEF TypeOK, ReplicaSetType
    <3>2. CASE DeleteReplicaSet(r)
      BY <3>1, <3>2 DEF DeleteReplicaSet, TypeOK
    <3>3. CASE Relabel(r, l)
      BY <3>1, <3>3 DEF Relabel, TypeOK
    <3> QED
      BY <2>5, <3>2, <3>3
  <2>6. dep' \in [Names -> DeploymentType] /\ rs' \in [Sets -> ReplicaSetType]
    BY <1>14, <2>2, <2>3, <2>4, <2>5, OwnershipAssumption DEF User
  <2> QED
    BY <2>1, <2>6 DEF TypeOK
<1>15. ASSUME NEW n \in Names, CallFails(n) PROVE TypeOK'
  <2>1. sync' \in [Names -> SyncType]
    BY <1>4, <1>5, <1>15 DEF CallFails, TypeOK, SyncType
  <2>2. faults' \in 0..MaxFaults
    BY <1>0, <1>15 DEF CallFails, Fault, TypeOK
  <2> QED
    BY <1>15, <2>1, <2>2 DEF CallFails, Fault, TypeOK, seen, queueVars
<1>16. ASSUME Restart PROVE TypeOK'
  <2>1. faults' \in 0..MaxFaults
    BY <1>0, <1>16 DEF Restart, Fault, TypeOK
  <2> QED
    BY <1>0, <1>16, <2>1, IdleType DEF Restart, Fault, TypeOK
<1>17. CASE UNCHANGED vars
  BY <1>17 DEF TypeOK, vars
<1> QED
  BY <1>1, <1>2, <1>3, <1>6, <1>7, <1>8, <1>9, <1>10, <1>11, <1>12, <1>13, <1>14, <1>15,
     <1>16, <1>17 DEF Next, Worker

-----------------------------------------------------------------------------
(* Nobody comes back: a Deployment that is being deleted or gone stays so,  *)
(* and the next of its name has another UID.                                *)
LEMMA GoneStays ==
  ASSUME TypeOK, [Next]_vars, NEW ref \in Refs, Gone(ref)
  PROVE  Gone(ref)'
<1> DEFINE m == ref[1]
<1>1. m \in Names /\ ref[2] \in Nat
  BY OwnershipAssumption DEF Refs, UIDs
<1>2. dep[m].uid \in Nat
  BY <1>1, OwnershipAssumption DEF TypeOK, DeploymentType, UIDs
<1>3. \/ dep' = dep
      \/ \E n \in Names : Finalize(n)
      \/ \E n \in Names, l \in Labels : CreateDeployment(n, l)
      \/ \E n \in Names, c \in {"orphan", "background"} : DeleteDeployment(n, c)
  BY DEF Next, vars, Worker, HearDeployment, RetryFires, Get, CanAdopt, AdoptReplicaSet,
         ReleaseReplicaSet, Return, CallFails, Fault, HearReplicaSet, Orphan, Collect, User,
         CreateReplicaSet, DeleteReplicaSet, Relabel, Restart
<1>4. CASE dep' = dep
  BY <1>4 DEF Gone
<1>5. ASSUME NEW n \in Names, Finalize(n) PROVE Gone(ref)'
  BY <1>1, <1>2, <1>5 DEF Finalize, Gone, TypeOK, DeploymentType
<1>6. ASSUME NEW n \in Names, NEW l \in Labels, CreateDeployment(n, l) PROVE Gone(ref)'
  BY <1>1, <1>2, <1>6 DEF CreateDeployment, NewDeployment, Gone, TypeOK, DeploymentType
<1>7. ASSUME NEW n \in Names, NEW c \in {"orphan", "background"}, DeleteDeployment(n, c)
      PROVE  Gone(ref)'
  BY <1>1, <1>2, <1>7 DEF DeleteDeployment, Gone, TypeOK, DeploymentType
<1> QED
  BY <1>3, <1>4, <1>5, <1>6, <1>7

LEMMA ServerStep ==
  ASSUME OInv, [Next]_vars
  PROVE  \A r \in Sets : FreedByGone(rs[r])'
<1>1. SUFFICES ASSUME NEW r \in Sets, NEW ref \in rs'[r].freed PROVE Gone(ref)'
  BY DEF FreedByGone
<1>2. TypeOK /\ rs[r] \in ReplicaSetType /\ FreedByGone(rs[r])
  BY DEF OInv, TypeOK
<1>3. CASE \E x \in Sets : Orphan(x)
  <2>1. PICK x \in Sets : Orphan(x)
    BY <1>3
  <2>2. PICK n \in Names : dep[n].exists /\ dep[n].deleting /\ rs[x].owner = Ref(n, dep[n])
    BY <2>1 DEF Orphan
  <2>3. Ref(n, dep[n]) \in Refs /\ Gone(Ref(n, dep[n]))
    BY <1>2, <2>2, RefType DEF Gone, Ref
  <2>4. rs'[r].freed \subseteq rs[r].freed \cup {Ref(n, dep[n])}
    BY <1>2, <2>1, <2>2 DEF Orphan, TypeOK, ReplicaSetType
  <2>5. ref \in Refs /\ Gone(ref)
    BY <1>1, <1>2, <2>3, <2>4 DEF FreedByGone, ReplicaSetType
  <2> QED
    BY <1>2, <2>5, GoneStays
<1>4. CASE ~\E x \in Sets : Orphan(x)
  <2>1. CASE rs' = rs
    BY <1>1, <1>2, <2>1, GoneStays DEF FreedByGone, ReplicaSetType
  <2>2. CASE \E n \in Names, x \in Sets : AdoptReplicaSet(n, x) \/ ReleaseReplicaSet(n, x)
    <3>1. PICK n \in Names, x \in Sets, o \in Refs \cup {NoRef} :
            rs' \in {rs, [rs EXCEPT ![x].owner = o]}
      BY <1>2, <2>2, RefType DEF AdoptReplicaSet, ReleaseReplicaSet
    <3>2. rs'[r].freed = rs[r].freed
      BY <1>2, <3>1 DEF TypeOK, ReplicaSetType
    <3> QED
      BY <1>1, <1>2, <3>2, GoneStays DEF FreedByGone, ReplicaSetType
  <2>3. CASE \E x \in Sets : \/ Collect(x) \/ DeleteReplicaSet(x)
                             \/ \E l \in Labels : Relabel(x, l)
    <3>1. rs'[r].freed = rs[r].freed
      BY <1>2, <2>3 DEF Collect, DeleteReplicaSet, Relabel, TypeOK, ReplicaSetType
    <3> QED
      BY <1>1, <1>2, <3>1, GoneStays DEF FreedByGone, ReplicaSetType
  <2>4. CASE \E x \in Sets, l \in Labels : CreateReplicaSet(x, l)
    <3>1. rs'[r].freed \in {rs[r].freed, {}}
      BY <1>2, <2>4 DEF CreateReplicaSet, NewReplicaSet, TypeOK
    <3> QED
      BY <1>1, <1>2, <3>1, GoneStays DEF FreedByGone, ReplicaSetType
  <2>5. \/ rs' = rs
        \/ \E n \in Names, x \in Sets : AdoptReplicaSet(n, x) \/ ReleaseReplicaSet(n, x)
        \/ \E x \in Sets : Collect(x) \/ DeleteReplicaSet(x) \/ \E l \in Labels : Relabel(x, l)
        \/ \E x \in Sets, l \in Labels : CreateReplicaSet(x, l)
    BY <1>4 DEF Next, vars, Worker, HearDeployment, RetryFires, Get, CanAdopt, Return, Finalize,
         CallFails, Fault, HearReplicaSet, User, CreateDeployment, DeleteDeployment, Restart
  <2> QED
    BY <2>1, <2>2, <2>3, <2>4, <2>5
<1> QED
  BY <1>3, <1>4

LEMMA StoreStep ==
  ASSUME OInv, [Next]_vars
  PROVE  \A r \in Sets : FreedByGone(seenRS[r])'
<1>1. SUFFICES ASSUME NEW r \in Sets, NEW ref \in seenRS'[r].freed PROVE Gone(ref)'
  BY DEF FreedByGone
<1>2. /\ TypeOK /\ rs[r] \in ReplicaSetType /\ FreedByGone(rs[r])
      /\ seenRS[r] \in ReplicaSetType /\ FreedByGone(seenRS[r])
  BY DEF OInv, TypeOK
<1>3. seenRS'[r].freed \in {seenRS[r].freed, rs[r].freed}
  <2>1. CASE \E x \in Sets : HearReplicaSet(x)
    BY <1>2, <2>1 DEF HearReplicaSet, TypeOK, ReplicaSetType
  <2>2. CASE Restart
    BY <2>2 DEF Restart
  <2>3. CASE seenRS' = seenRS
    BY <2>3
  <2> QED
    BY <2>1, <2>2, <2>3
       DEF Next, vars, Worker, HearDeployment, RetryFires, Get, CanAdopt, AdoptReplicaSet,
           ReleaseReplicaSet, Return, Finalize, CallFails, Orphan, Collect, User,
           CreateDeployment, DeleteDeployment, CreateReplicaSet, DeleteReplicaSet, Relabel, Edit,
           seen
<1> QED
  BY <1>1, <1>2, <1>3, GoneStays DEF FreedByGone, ReplicaSetType

(* What a step makes of a sync: it begins, from the stores; it ends; it     *)
(* goes on, and only a live read that found the Deployment in place turns   *)
(* the answer of CanAdopt to yes.                                           *)
LEMMA SyncSteps ==
  ASSUME TypeOK, [Next]_vars, NEW n \in Names
  PROVE  \/ sync'[n].list = seenRS /\ sync'[n].canAdopt = "unasked"
         \/ sync'[n] = Idle
         \/ /\ sync'[n].list = sync[n].list /\ sync'[n].d = sync[n].d
            /\ sync'[n].canAdopt = "yes" =>
                  sync[n].canAdopt = "yes" \/ RecheckDeletionTimestamp(n)
<1>0. sync[n] \in SyncType
  BY DEF TypeOK
<1>1. CASE \E m \in Names : Get(m)
  BY <1>0, <1>1 DEF Get, TypeOK
<1>2. CASE \E m \in Names : CanAdopt(m)
  BY <1>0, <1>2 DEF CanAdopt, Answered, TypeOK, SyncType
<1>8. ASSUME NEW m \in Names, NEW r \in Sets, NEW b, Claimed(m, r, b)
      PROVE  /\ sync'[n].list = sync[n].list /\ sync'[n].d = sync[n].d
             /\ sync'[n].canAdopt = sync[n].canAdopt
  BY <1>0, <1>8 DEF Claimed, TypeOK, SyncType
<1>9. ASSUME NEW m \in Names, Answered(m, FALSE)
      PROVE  /\ sync'[n].list = sync[n].list /\ sync'[n].d = sync[n].d
             /\ sync'[n].canAdopt \in {sync[n].canAdopt, "no"}
  BY <1>0, <1>9 DEF Answered, TypeOK, SyncType
<1>3. CASE \E m \in Names, r \in Sets : AdoptReplicaSet(m, r) \/ ReleaseReplicaSet(m, r)
  BY <1>3, <1>8 DEF AdoptReplicaSet, ReleaseReplicaSet
<1>4. CASE \E m \in Names : Return(m)
  BY <1>0, <1>4 DEF Return, TypeOK
<1>5. CASE \E m \in Names : CallFails(m)
  <2>1. PICK m \in Names : CallFails(m)
    BY <1>5
  <2>2. \/ Answered(m, FALSE)
        \/ \E r \in Sets : Claimed(m, r, TRUE)
    BY <2>1 DEF CallFails, TypeOK, SyncType
  <2> QED
    BY <1>8, <1>9, <2>2
<1>6. CASE Restart
  BY <1>6 DEF Restart
<1>7. CASE sync' = sync
  BY <1>7
<1> QED
  BY <1>1, <1>2, <1>3, <1>4, <1>5, <1>6, <1>7
     DEF Next, vars, Worker, HearDeployment, RetryFires, Finalize, HearReplicaSet, Orphan,
         Collect, User, CreateDeployment, DeleteDeployment, CreateReplicaSet, DeleteReplicaSet,
         Relabel, Edit

LEMMA OInvStep == OInv /\ [Next]_vars => OInv'
<1> SUFFICES ASSUME OInv, [Next]_vars PROVE OInv'
  OBVIOUS
<1>1. TypeOK /\ TypeOK'
  BY TypeStep DEF OInv
<1>2. ASSUME NEW n \in Names, NEW r \in Sets PROVE FreedByGone(sync[n].list[r])'
  <2>1. SUFFICES ASSUME NEW ref \in sync'[n].list[r].freed PROVE Gone(ref)'
    BY DEF FreedByGone
  <2>2. /\ seenRS[r] \in ReplicaSetType /\ FreedByGone(seenRS[r])
        /\ sync[n].list[r] \in ReplicaSetType /\ FreedByGone(sync[n].list[r])
    BY <1>1 DEF OInv, TypeOK, SyncType
  <2>3. Idle.list[r].freed = {}
    BY DEF Idle, NewReplicaSet
  <2>4. sync'[n].list[r] \in {seenRS[r], sync[n].list[r]}
    BY <1>1, <2>1, <2>3, SyncSteps
  <2> QED
    BY <1>1, <2>1, <2>2, <2>4, GoneStays DEF FreedByGone, ReplicaSetType
<1>3. ASSUME NEW n \in Names, sync'[n].canAdopt = "yes", NEW r \in Sets
      PROVE  Ref(n, sync'[n].d) \notin sync'[n].list[r].freed
  <2>0. Idle.canAdopt = "unasked"
    BY DEF Idle
  <2>1. /\ sync'[n].list = sync[n].list /\ sync'[n].d = sync[n].d
        /\ sync[n].canAdopt = "yes" \/ RecheckDeletionTimestamp(n)
    BY <1>1, <1>3, <2>0, SyncSteps
  <2>2. CASE sync[n].canAdopt = "yes"
    BY <2>1, <2>2 DEF OInv
  <2>3. CASE RecheckDeletionTimestamp(n)
    <3>1. dep[n].uid \in Nat
      BY <1>1, OwnershipAssumption DEF TypeOK, DeploymentType, UIDs
    <3>2. ~Gone(Ref(n, sync[n].d))
      BY <2>3, <3>1 DEF RecheckDeletionTimestamp, Gone, Ref
    <3> QED
      BY <2>1, <3>2 DEF OInv, FreedByGone
  <2> QED
    BY <2>1, <2>2, <2>3
<1> QED
  BY <1>1, <1>2, <1>3, ServerStep, StoreStep DEF OInv, Ref

(* The invariant holds in every reachable state: TypeOK, and whoever freed  *)
(* a ReplicaSet with its deletion is gone, in every copy there is.          *)
THEOREM FreedForGood == SafetySpec => []OInv
<1>1. Init => OInv
  BY InitOInv
<1>2. OInv /\ [Next]_vars => OInv'
  BY OInvStep
<1> QED
  BY <1>1, <1>2, PTL DEF SafetySpec

-----------------------------------------------------------------------------
(* The steps that change an owner of a ReplicaSet that is not replaced. *)
LEMMA OwnerSteps ==
  ASSUME TypeOK, [Next]_vars, NEW r \in Sets,
         rs'[r].owner # rs[r].owner, rs'[r].uid = rs[r].uid \/ rs'[r].owner # NoRef
  PROVE  \/ \E n \in Names : AdoptReplicaSet(n, r) \/ ReleaseReplicaSet(n, r)
         \/ Orphan(r)
<1>0. rs[r] \in ReplicaSetType /\ rs[r].uid \in Nat
  BY OwnershipAssumption DEF TypeOK, ReplicaSetType, UIDs
<1>1. CASE rs' = rs
  BY <1>1
<1>2. ASSUME NEW n \in Names, NEW x \in Sets, AdoptReplicaSet(n, x) \/ ReleaseReplicaSet(n, x)
      PROVE  x = r
  BY <1>0, <1>2 DEF AdoptReplicaSet, ReleaseReplicaSet, TypeOK, ReplicaSetType
<1>3. ASSUME NEW x \in Sets, Orphan(x) PROVE x = r
  BY <1>0, <1>3 DEF Orphan, TypeOK, ReplicaSetType
<1>4. ASSUME NEW x \in Sets, NEW l \in Labels, Collect(x) \/ DeleteReplicaSet(x) \/ Relabel(x, l)
      PROVE  FALSE
  BY <1>0, <1>4 DEF Collect, DeleteReplicaSet, Relabel, TypeOK, ReplicaSetType
<1>5. ASSUME NEW x \in Sets, NEW l \in Labels, CreateReplicaSet(x, l) PROVE FALSE
  BY <1>0, <1>5 DEF CreateReplicaSet, NewReplicaSet, TypeOK, ReplicaSetType
<1>6. Labels # {}
  BY OwnershipAssumption
<1>7. \/ rs' = rs
      \/ \E n \in Names, x \in Sets : AdoptReplicaSet(n, x) \/ ReleaseReplicaSet(n, x)
      \/ \E x \in Sets : Orphan(x) \/ Collect(x) \/ DeleteReplicaSet(x)
      \/ \E x \in Sets, l \in Labels : CreateReplicaSet(x, l) \/ Relabel(x, l)
  BY DEF Next, vars, Worker, HearDeployment, RetryFires, Get, CanAdopt, Return, Finalize,
       CallFails, Fault, HearReplicaSet, User, CreateDeployment, DeleteDeployment, Restart
<1> QED
  BY <1>1, <1>2, <1>3, <1>4, <1>5, <1>6, <1>7

(* Two Deployments of different names never have the same reference. *)
LEMMA AdoptedBy ==
  ASSUME TypeOK, NEW n \in Names, NEW r \in Sets, AdoptReplicaSet(n, r),
         rs'[r].owner # rs[r].owner
  PROVE  /\ rs'[r].owner = Ref(n, sync[n].d) /\ rs'[r].owner # NoRef
         /\ rs[r].owner = NoRef /\ rs[r].uid = sync[n].list[r].uid
         /\ sync[n].canAdopt = "yes"
<1>1. SameSet(n, r) /\ rs[r].owner \in {NoRef, Ref(n, sync[n].d)}
  BY DEF AdoptReplicaSet
<1>2. rs'[r].owner = Ref(n, sync[n].d)
  BY <1>1 DEF AdoptReplicaSet, TypeOK, ReplicaSetType
<1> QED
  BY <1>1, <1>2 DEF AdoptReplicaSet, SameSet, Ref, NoRef

LEMMA OwnSetsStep ==
  ASSUME TypeOK, [Next]_vars, NEW r \in Sets,
         rs'[r].owner # rs[r].owner, rs'[r].uid = rs[r].uid
  PROVE  IF rs'[r].owner = NoRef
         THEN \E n \in Names : \/ rs[r].owner = Ref(n, sync[n].d) /\ r \in sync[n].todo
                               \/ rs[r].owner = Ref(n, dep[n]) /\ dep[n].deleting
         ELSE \E n \in Names : /\ rs'[r].owner = Ref(n, sync[n].d)
                               /\ rs[r].owner = NoRef
                               /\ rs[r].uid = sync[n].list[r].uid
<1>1. CASE \E n \in Names : AdoptReplicaSet(n, r)
  BY <1>1, AdoptedBy
<1>2. CASE \E n \in Names : ReleaseReplicaSet(n, r)
  <2>1. PICK n \in Names : ReleaseReplicaSet(n, r)
    BY <1>2
  <2>2. rs[r].owner = Ref(n, sync[n].d) /\ r \in sync[n].todo
    BY <2>1 DEF ReleaseReplicaSet
  <2>3. rs'[r].owner = NoRef
    BY <2>1 DEF ReleaseReplicaSet, TypeOK, ReplicaSetType
  <2> QED
    BY <2>2, <2>3
<1>3. CASE Orphan(r)
  <2>1. rs'[r].owner = NoRef
    BY <1>3 DEF Orphan, TypeOK, ReplicaSetType
  <2>2. \E n \in Names : rs[r].owner = Ref(n, dep[n]) /\ dep[n].deleting
    BY <1>3 DEF Orphan
  <2> QED
    BY <2>1, <2>2
<1> QED
  BY <1>1, <1>2, <1>3, OwnerSteps

(* However old their copies, the syncs never touch each other's ReplicaSets *)
(* (ClaimObject, and the UIDs that the patches of controller_ref_manager.go *)
(* carry).                                                                  *)
THEOREM OwnSetsOnlyHolds == SafetySpec => OwnSetsOnly
<1>1. OInv /\ [Next]_vars =>
        [\A r \in Sets : rs'[r].owner # rs[r].owner /\ rs'[r].uid = rs[r].uid =>
           IF rs'[r].owner = NoRef
           THEN \E n \in Names : \/ rs[r].owner = Ref(n, sync[n].d) /\ r \in sync[n].todo
                                 \/ rs[r].owner = Ref(n, dep[n]) /\ dep[n].deleting
           ELSE \E n \in Names : /\ rs'[r].owner = Ref(n, sync[n].d)
                                 /\ rs[r].owner = NoRef
                                 /\ rs[r].uid = sync[n].list[r].uid]_vars
  BY OwnSetsStep DEF OInv
<1> QED
  BY <1>1, FreedForGood, PTL DEF SafetySpec, OwnSetsOnly

LEMMA NotTakenBackStep ==
  ASSUME OInv, [Next]_vars, NEW n \in Names, NEW r \in Sets,
         rs[r].owner # Ref(n, sync[n].d), rs'[r].owner = Ref(n, sync[n].d)
  PROVE  Ref(n, sync[n].d) \notin sync[n].list[r].freed
<1>1. TypeOK /\ rs'[r].owner # NoRef
  BY DEF OInv, Ref, NoRef
<1>2. PICK m \in Names : AdoptReplicaSet(m, r)
  <2>1. ~Orphan(r)
    BY <1>1 DEF Orphan, TypeOK, ReplicaSetType
  <2>2. ~\E m \in Names : ReleaseReplicaSet(m, r)
    BY <1>1 DEF ReleaseReplicaSet, TypeOK, ReplicaSetType
  <2> QED
    BY <1>1, <2>1, <2>2, OwnerSteps
<1>3. rs'[r].owner = Ref(m, sync[m].d) /\ sync[m].canAdopt = "yes"
  BY <1>1, <1>2, AdoptedBy
<1>4. m = n
  BY <1>3 DEF Ref
<1> QED
  BY <1>3, <1>4 DEF OInv

(* A Deployment deleted with --cascade=orphan does not take back what its   *)
(* deletion orphaned: the live read of getReplicaSetsForDeployment comes    *)
(* after the list, so it sees the deletion that freed what is listed.       *)
THEOREM NotTakenBackHolds == SafetySpec => NotTakenBack
<1>1. OInv /\ [Next]_vars =>
        [\A n \in Names, r \in Sets :
           LET me == Ref(n, sync[n].d)
           IN  rs[r].owner # me /\ rs'[r].owner = me => me \notin sync[n].list[r].freed]_vars
  BY NotTakenBackStep
<1> QED
  BY <1>1, FreedForGood, PTL DEF SafetySpec, NotTakenBack
=============================================================================
