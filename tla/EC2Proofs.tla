----------------------------- MODULE EC2Proofs -----------------------------
(***************************************************************************)
(* Instances and volumes for every number of instances, volumes, tokens    *)
(* and goroutines: one launch per token, no volume deleted that its owner  *)
(* keeps, and every volume of an instance that ends settled.               *)
(***************************************************************************)
EXTENDS EC2, TLAPS

(***************************************************************************)
(* Type correctness                                                        *)
(***************************************************************************)

\* The type invariant in parts that an action disturbs one at a time.
InstType == setup \in Setups /\ inst \in [Insts -> States]
VolType ==
    /\ vol \in [Vols -> Volume]
    /\ \A v \in Vols : vol[v].state = "in-use" <=> vol[v].to # NoInst

LaunchRec == [at : {"idle", "provision", "volumes", "rollback", "delete", "finish", "wait"},
              tok : Tokens \union {NoToken}, ids : Seq(Insts), n : Nat, todo : SUBSET Vols]
LaunchType == launch \in [Launchers -> LaunchRec]

\* How far a launch is.
GoodLaunch(r) ==
    /\ r.n <= Len(r.ids)
    /\ r.at \in {"provision", "delete"} => r.n < Len(r.ids)
    /\ r.at = "volumes" => r.n > 0
    /\ r.at \in {"provision", "volumes", "finish"} =>
         /\ r.ids \in Launches
         /\ \A a, b \in DOMAIN r.ids : r.ids[a] = r.ids[b] => a = b
    /\ r.at \in {"idle", "wait"} => r.ids = <<>>

LaunchShape == \A l \in Launchers : GoodLaunch(launch[l])

TokenType ==
    /\ tokens \in [Tokens -> Launches \union {<<>>}]
    /\ inflight \subseteq Tokens
    /\ answers \in [Tokens -> SUBSET Launches]

TermRec == [at : {"idle", "change", "release", "emit"}, ids : Batches \union {<<>>}, n : Nat,
            changed : SUBSET Insts, todo : SUBSET Vols]
GoodTerm(r) == r.n <= Len(r.ids) /\ r.changed \subseteq ToSet(r.ids)
TermType == term \in [Terminators -> TermRec] /\ \A c \in Terminators : GoodTerm(term[c])

AttachType ==
    /\ attach \in [Attachers -> [v : Vols \union {NoVol}, i : Insts \union {NoInst}]]
    /\ \A a \in Attachers : attach[a].v # NoVol => attach[a].i \in Insts
    /\ del \in [Deleters -> Vols \union {NoVol}]

PastType ==
    /\ events \subseteq Insts /\ failed \subseteq Insts /\ stale \subseteq Insts
    /\ owned \subseteq Vols /\ asked \subseteq Vols /\ rolled \subseteq Vols

Types == /\ InstType /\ VolType /\ LaunchType /\ LaunchShape /\ TokenType /\ TermType
         /\ AttachType /\ PastType

\* The ids that clients pass.
LEMMA IdLists ==
    /\ Batches \union {<<>>} \subseteq Seq(Insts) /\ Launches \subseteq Seq(Insts)
    /\ <<>> \notin Launches
    /\ \A s \in Seq(Insts) : Len(s) \in Nat /\ DOMAIN s = 1..Len(s)
    /\ \A ids \in Launches : /\ Len(ids) > 0
                             /\ \A a, b \in DOMAIN ids : ids[a] = ids[b] => a = b
<1>1. <<>> \in Seq(Insts)
  OBVIOUS
<1>2. \A s \in Seq(Insts) : Len(s) \in Nat /\ DOMAIN s = 1..Len(s)
  OBVIOUS
<1>3. Launches \subseteq Seq(Insts) /\ <<>> \notin Launches /\ Batches \subseteq Seq(Insts)
  BY EC2Assumption
<1>4. \A s \in Seq(Insts) : s # <<>> => Len(s) > 0
  OBVIOUS
<1>5. \A ids \in Launches : \A a, b \in DOMAIN ids : ids[a] = ids[b] => a = b
  BY EC2Assumption
<1>6. \A ids \in Launches : Len(ids) > 0
  BY <1>3, <1>4
<1> QED
  BY <1>1, <1>2, <1>3, <1>5, <1>6

LEMMA TypesMean == Types => TypeOK
<1> SUFFICES ASSUME Types PROVE TypeOK
  OBVIOUS
<1>1. ASSUME NEW l \in Launchers
      PROVE  /\ launch[l].at \in {"idle", "provision", "volumes", "rollback", "delete", "finish", "wait"}
             /\ launch[l].tok \in Tokens \union {NoToken} /\ launch[l].ids \in Seq(Insts)
             /\ launch[l].n \in 0..Len(launch[l].ids) /\ launch[l].todo \subseteq Vols
  <2>1. launch[l] \in LaunchRec /\ launch[l].n <= Len(launch[l].ids)
    BY DEF Types, LaunchType, LaunchShape, GoodLaunch
  <2>2. launch[l].ids \in Seq(Insts) /\ launch[l].n \in Nat
    BY <2>1 DEF LaunchRec
  <2>3. launch[l].n \in 0..Len(launch[l].ids)
    BY <2>1, <2>2
  <2> QED
    BY <2>1, <2>2, <2>3 DEF LaunchRec
<1>2. ASSUME NEW c \in Terminators
      PROVE  /\ term[c].at \in {"idle", "change", "release", "emit"}
             /\ term[c].ids \in Batches \union {<<>>} /\ term[c].n \in 0..Len(term[c].ids)
             /\ term[c].changed \subseteq ToSet(term[c].ids) /\ term[c].todo \subseteq Vols
  <2>1. term[c] \in TermRec /\ GoodTerm(term[c])
    BY DEF Types, TermType
  <2>2. term[c].ids \in Seq(Insts)
    BY <2>1, IdLists DEF TermRec
  <2>3. Len(term[c].ids) \in Nat
    BY <2>2
  <2>4. term[c].n \in Nat /\ term[c].n <= Len(term[c].ids)
    BY <2>1 DEF TermRec, GoodTerm
  <2>5. term[c].n \in 0..Len(term[c].ids)
    BY <2>3, <2>4
  <2> QED
    BY <2>1, <2>5 DEF TermRec, GoodTerm
<1>3. InstType /\ VolType /\ TokenType /\ AttachType /\ PastType
  BY DEF Types
<1>4. /\ \A s \in {events, failed, stale} : s \subseteq Insts
      /\ \A s \in {owned, asked, rolled} : s \subseteq Vols
  BY <1>3 DEF PastType
<1> QED
  BY <1>1, <1>2, <1>3, <1>4 DEF TypeOK, InstType, VolType, TokenType, AttachType

\* Records and identities.
LEMMA Basics ==
    /\ NoInst \notin Insts /\ NoToken \notin Tokens /\ NoVol \notin Vols
    /\ Insts \subseteq Vols /\ UserVols \subseteq Vols /\ Insts \intersect UserVols = {}
    /\ IdleLaunch \in LaunchRec /\ GoodLaunch(IdleLaunch)
    /\ IdleTerm \in TermRec /\ GoodTerm(IdleTerm)
    /\ IdleAttach.v = NoVol
    /\ IdleAttach \in [v : Vols \union {NoVol}, i : Insts \union {NoInst}]
<1>1. <<>> \in Seq(Insts) /\ Len(<<>>) = 0
  OBVIOUS
<1>2. NoInst \notin Insts /\ NoToken \notin Tokens /\ NoVol \notin Vols /\ Insts \intersect UserVols = {}
  BY EC2Assumption
<1>3. IdleLaunch \in LaunchRec /\ GoodLaunch(IdleLaunch)
  BY <1>1 DEF IdleLaunch, LaunchRec, GoodLaunch
<1>4. IdleTerm \in TermRec /\ GoodTerm(IdleTerm)
  BY <1>1 DEF IdleTerm, TermRec, GoodTerm
<1> QED
  BY <1>2, <1>3, <1>4 DEF IdleAttach, Vols

LEMMA VolumeTypes ==
    /\ NoVolume \in Volume /\ FreeVolume \in Volume /\ DeletedVolume \in Volume
    /\ NoVolume.to = NoInst /\ FreeVolume.to = NoInst /\ DeletedVolume.to = NoInst
    /\ NoVolume.state = "none" /\ FreeVolume.state = "available" /\ DeletedVolume.state = "deleted"
    /\ \A i \in Insts, b \in BOOLEAN :
         [state |-> "in-use", to |-> i, delOnTerm |-> b] \in Volume
BY DEF NoVolume, FreeVolume, DeletedVolume, Volume

LEMMA TypesInit == Init => Types
<1> SUFFICES ASSUME Init PROVE Types
  OBVIOUS
<1>1. InstType /\ VolType
  BY VolumeTypes DEF Init, InstType, VolType, States
<1>2. LaunchType /\ LaunchShape
  BY Basics DEF Init, LaunchType, LaunchShape
<1>3. TokenType /\ PastType
  BY DEF Init, TokenType, PastType
<1>4. TermType
  BY Basics DEF Init, TermType
<1>5. AttachType
  BY Basics DEF Init, AttachType
<1> QED
  BY <1>1, <1>2, <1>3, <1>4, <1>5 DEF Types

\* A part none of whose variables changes keeps its type.
LEMMA TypesKept ==
    ASSUME Types
    PROVE  /\ UNCHANGED <<setup, inst>> => InstType'
           /\ UNCHANGED vol => VolType'
           /\ UNCHANGED launch => LaunchType' /\ LaunchShape'
           /\ UNCHANGED <<tokens, inflight, answers>> => TokenType'
           /\ UNCHANGED term => TermType'
           /\ UNCHANGED <<attach, del>> => AttachType'
           /\ UNCHANGED <<events, pastVars>> => PastType'
BY DEF Types, InstType, VolType, LaunchType, LaunchShape, TokenType, TermType, AttachType, PastType,
       pastVars

\* A launch's, a termination's and a volume's new record.
LEMMA LaunchUpdate ==
    ASSUME Types, NEW l \in Launchers, NEW r \in LaunchRec, GoodLaunch(r),
           launch' = [launch EXCEPT ![l] = r]
    PROVE  LaunchType' /\ LaunchShape'
BY DEF Types, LaunchType, LaunchShape

LEMMA TermUpdate ==
    ASSUME Types, NEW c \in Terminators, NEW r \in TermRec, GoodTerm(r),
           term' = [term EXCEPT ![c] = r]
    PROVE  TermType'
BY DEF Types, TermType

LEMMA VolUpdate ==
    ASSUME Types, NEW v \in Vols, NEW r \in Volume, r.state = "in-use" <=> r.to # NoInst,
           vol' = [vol EXCEPT ![v] = r]
    PROVE  VolType'
BY DEF Types, VolType

LEMMA Fields ==
    ASSUME Types
    PROVE  /\ \A l \in Launchers :
                /\ launch[l] \in LaunchRec /\ GoodLaunch(launch[l])
                /\ launch[l].ids \in Seq(Insts) /\ Len(launch[l].ids) \in Nat
                /\ launch[l].n \in Nat /\ launch[l].tok \in Tokens \union {NoToken}
                /\ DOMAIN launch[l].ids = 1..Len(launch[l].ids)
           /\ \A c \in Terminators :
                /\ term[c] \in TermRec /\ GoodTerm(term[c])
                /\ term[c].ids \in Seq(Insts) /\ Len(term[c].ids) \in Nat /\ term[c].n \in Nat
                /\ DOMAIN term[c].ids = 1..Len(term[c].ids)
           /\ \A v \in Vols : vol[v] \in Volume
<1>1. \A l \in Launchers : launch[l] \in LaunchRec /\ GoodLaunch(launch[l])
  BY DEF Types, LaunchType, LaunchShape
<1>2. \A c \in Terminators : term[c] \in TermRec /\ GoodTerm(term[c])
  BY DEF Types, TermType
<1>3. \A c \in Terminators : term[c].ids \in Seq(Insts)
  BY <1>2, IdLists DEF TermRec
<1>4. \A v \in Vols : vol[v] \in Volume
  BY DEF Types, VolType
<1>5. ASSUME NEW s \in Seq(Insts) PROVE Len(s) \in Nat /\ DOMAIN s = 1..Len(s)
  OBVIOUS
<1>6. \A l \in Launchers :
        /\ launch[l].ids \in Seq(Insts) /\ launch[l].n \in Nat
        /\ launch[l].tok \in Tokens \union {NoToken}
  BY <1>1 DEF LaunchRec
<1>7. \A c \in Terminators : term[c].n \in Nat
  BY <1>2 DEF TermRec
<1>8. \A l \in Launchers :
        Len(launch[l].ids) \in Nat /\ DOMAIN launch[l].ids = 1..Len(launch[l].ids)
  BY <1>5, <1>6
<1>9. \A c \in Terminators :
        Len(term[c].ids) \in Nat /\ DOMAIN term[c].ids = 1..Len(term[c].ids)
  BY <1>3, <1>5
<1> QED
  BY <1>1, <1>2, <1>3, <1>4, <1>6, <1>7, <1>8, <1>9

\* The steps of a launch.
LEMMA TypesLaunch ==
    ASSUME Types, NEW l \in Launchers,
           \/ \E t \in Tokens \union {NoToken}, ids \in Launches : StartLaunch(l, t, ids)
           \/ \E t \in Tokens : ReplayLaunch(l, t) \/ WaitForLaunch(l, t)
           \/ LaunchStep(l)
    PROVE  Types'
<1> DEFINE r == launch[l]
<1>0. /\ r \in LaunchRec /\ GoodLaunch(r) /\ r.ids \in Seq(Insts) /\ Len(r.ids) \in Nat
      /\ r.n \in Nat /\ DOMAIN r.ids = 1..Len(r.ids) /\ r.tok \in Tokens \union {NoToken}
  BY Fields
<1>1. ASSUME NEW t \in Tokens \union {NoToken}, NEW ids \in Launches, StartLaunch(l, t, ids)
      PROVE  Types'
  <2> DEFINE new == [IdleLaunch EXCEPT !.at = "provision", !.tok = t, !.ids = ids]
  <2>1. ids \in Seq(Insts) /\ Len(ids) > 0
    BY IdLists
  <2>2. new \in LaunchRec
    BY <2>1, Basics DEF LaunchRec
  <2>3. new.at = "provision" /\ new.ids = ids /\ new.n = 0
    BY Basics DEF IdleLaunch
  <2>6. launch' = [launch EXCEPT ![l] = new]
    BY <1>1 DEF StartLaunch
  <2> HIDE DEF new
  <2>7. GoodLaunch(new)
    BY <2>1, <2>3, IdLists DEF GoodLaunch
  <2>4. LaunchType' /\ LaunchShape'
    BY <2>2, <2>6, <2>7, LaunchUpdate
  <2>5. TokenType'
    BY <1>1 DEF StartLaunch, Types, TokenType
  <2> QED
    BY <1>1, <2>4, <2>5, TypesKept DEF StartLaunch, Types
<1>2. ASSUME NEW t \in Tokens, ReplayLaunch(l, t) PROVE Types'
  <2>1. TokenType'
    BY <1>2 DEF ReplayLaunch, Types, TokenType
  <2> QED
    BY <1>2, <2>1, TypesKept DEF ReplayLaunch, Types
<1>3. ASSUME NEW t \in Tokens, WaitForLaunch(l, t) PROVE Types'
  <2> DEFINE new == [IdleLaunch EXCEPT !.at = "wait", !.tok = t]
  <2>1. new \in LaunchRec /\ GoodLaunch(new)
    BY Basics DEF IdleLaunch, LaunchRec, GoodLaunch
  <2>2. launch' = [launch EXCEPT ![l] = new]
    BY <1>3 DEF WaitForLaunch
  <2> HIDE DEF new
  <2>3. LaunchType' /\ LaunchShape'
    BY <2>1, <2>2, LaunchUpdate
  <2> QED
    BY <1>3, <2>3, TypesKept DEF WaitForLaunch, Types
<1>4. ASSUME Provision(l) PROVE Types'
  <2> DEFINE k == r.n + 1
             new == [r EXCEPT !.at = "volumes", !.n = k]
  <2>1. r.at = "provision" /\ launch' = [launch EXCEPT ![l] = new]
    BY <1>4 DEF Provision
  <2>2. k \in Nat /\ k > 0 /\ k <= Len(r.ids) /\ r.ids \in Launches
    BY <1>0, <2>1 DEF GoodLaunch
  <2> HIDE DEF k
  <2>5. new \in LaunchRec /\ new.at = "volumes" /\ new.ids = r.ids /\ new.n = k
    BY <1>0, <2>2 DEF LaunchRec
  <2> HIDE DEF new
  <2>6. GoodLaunch(new)
    BY <2>2, <2>5, IdLists DEF GoodLaunch
  <2>3. LaunchType' /\ LaunchShape'
    BY <2>1, <2>5, <2>6, LaunchUpdate
  <2>4. InstType'
    BY <1>4 DEF Provision, Types, InstType, States
  <2> QED
    BY <1>4, <2>3, <2>4, TypesKept DEF Provision, Types
<1>5. ASSUME NEW b \in BOOLEAN, MaterializeInstanceVolumes(l, b) PROVE Types'
  <2> DEFINE i == r.ids[r.n]
             next == IF r.n < Len(r.ids) THEN "provision" ELSE "finish"
             new == [r EXCEPT !.at = next]
  <2>1. r.at = "volumes" /\ launch' = [launch EXCEPT ![l] = new]
    BY <1>5 DEF MaterializeInstanceVolumes
  <2>2. /\ r.ids \in Launches /\ r.n > 0 /\ r.n <= Len(r.ids)
        /\ next \in {"provision", "finish"}
        /\ next = "provision" => r.n < Len(r.ids)
    BY <1>0, <2>1 DEF GoodLaunch
  <2> HIDE DEF next
  <2>12. new \in LaunchRec
    BY <1>0, <2>2 DEF LaunchRec
  <2>9. new.at = next /\ new.ids = r.ids /\ new.n = r.n
    BY <1>0 DEF LaunchRec
  <2> HIDE DEF new
  <2>10. GoodLaunch(new)
    BY <1>0, <2>2, <2>9, IdLists DEF GoodLaunch
  <2>3. LaunchType' /\ LaunchShape'
    BY <2>1, <2>9, <2>10, <2>12, LaunchUpdate
  <2>4. i \in Insts
    BY <1>0, <2>2
  <2>5. vol' = [vol EXCEPT ![i] = [state |-> "in-use", to |-> i, delOnTerm |-> b]]
    BY <1>5 DEF MaterializeInstanceVolumes
  <2>6. stale' \in {stale, stale \union {i}}
    BY <1>5 DEF MaterializeInstanceVolumes
  <2> HIDE DEF i
  <2>7. VolType'
    BY <2>4, <2>5, Basics, VolumeTypes, VolUpdate
  <2>8. PastType'
    BY <1>5, <2>4, <2>6 DEF MaterializeInstanceVolumes, Types, PastType
  <2> QED
    BY <1>5, <2>3, <2>7, <2>8, TypesKept DEF MaterializeInstanceVolumes, Types
<1>6. ASSUME ProvisionFails(l) PROVE Types'
  <2> DEFINE q == SubSeq(r.ids, 1, r.n)
             new == [r EXCEPT !.at = "rollback", !.ids = q, !.n = 0]
  <2>1. launch' = [launch EXCEPT ![l] = new]
    BY <1>6 DEF ProvisionFails
  <2>2. q \in Seq(Insts)
    BY <1>0 DEF GoodLaunch
  <2> HIDE DEF q
  <2>3. new \in LaunchRec /\ new.at = "rollback" /\ new.ids = q /\ new.n = 0
    BY <1>0, <2>2 DEF LaunchRec
  <2> HIDE DEF new
  <2>5. Len(q) \in Nat
    BY <2>2, IdLists
  <2>6. GoodLaunch(new)
    BY <2>3, <2>5 DEF GoodLaunch
  <2>4. LaunchType' /\ LaunchShape'
    BY <2>1, <2>3, <2>6, LaunchUpdate
  <2> QED
    BY <1>6, <2>4, TypesKept DEF ProvisionFails, Types
<1>7. ASSUME RollbackInstance(l) PROVE Types'
  <2> DEFINE new == [r EXCEPT !.at = "delete", !.todo = {v \in Vols : Stored(v)}]
  <2>1. new \in LaunchRec /\ GoodLaunch(new)
    BY <1>0, <1>7 DEF RollbackInstance, LaunchRec, GoodLaunch
  <2>2. launch' = [launch EXCEPT ![l] = new]
    BY <1>7 DEF RollbackInstance, Types, LaunchType
  <2> HIDE DEF new
  <2>3. LaunchType' /\ LaunchShape'
    BY <2>1, <2>2, LaunchUpdate
  <2>4. InstType'
    BY <1>7 DEF RollbackInstance, Types, InstType, States
  <2> QED
    BY <1>7, <2>3, <2>4, TypesKept DEF RollbackInstance, Types
<1>8. ASSUME NEW v \in Vols, DeleteInstanceVolume(l, v) PROVE Types'
  <2> DEFINE new == [r EXCEPT !.todo = @ \ {v}]
  <2>1. new \in LaunchRec /\ GoodLaunch(new)
    BY <1>0 DEF LaunchRec, GoodLaunch
  <2>2. launch' = [launch EXCEPT ![l] = new]
    BY <1>8 DEF DeleteInstanceVolume, Types, LaunchType
  <2> HIDE DEF new
  <2>3. LaunchType' /\ LaunchShape'
    BY <2>1, <2>2, LaunchUpdate
  <2>4. vol' = vol \/ vol' = [vol EXCEPT ![v] = DeletedVolume]
    BY <1>8 DEF DeleteInstanceVolume
  <2>5. VolType'
    BY <2>4, VolumeTypes, VolUpdate, TypesKept
  <2>6. PastType'
    BY <1>8 DEF DeleteInstanceVolume, Types, PastType
  <2> QED
    BY <1>8, <2>3, <2>5, <2>6, TypesKept DEF DeleteInstanceVolume, Types
<1>9. ASSUME NextRollback(l) PROVE Types'
  <2> DEFINE k == r.n + 1
             new == [r EXCEPT !.at = "rollback", !.n = k]
  <2>1. r.at = "delete" /\ launch' = [launch EXCEPT ![l] = new]
    BY <1>9 DEF NextRollback
  <2>2. k \in Nat /\ k <= Len(r.ids)
    BY <1>0, <2>1 DEF GoodLaunch
  <2> HIDE DEF k
  <2>4. new \in LaunchRec /\ new.at = "rollback" /\ new.ids = r.ids /\ new.n = k
    BY <1>0, <2>2 DEF LaunchRec
  <2> HIDE DEF new
  <2>5. GoodLaunch(new)
    BY <2>2, <2>4 DEF GoodLaunch
  <2>3. LaunchType' /\ LaunchShape'
    BY <2>1, <2>4, <2>5, LaunchUpdate
  <2> QED
    BY <1>9, <2>3, TypesKept DEF NextRollback, Types
<1>10. ASSUME Return(l) PROVE LaunchType' /\ LaunchShape'
  BY <1>10, Basics DEF Return, Types, LaunchType, LaunchShape
<1>11. ASSUME FailLaunch(l) PROVE Types'
  <2>1. TokenType'
    BY <1>11 DEF FailLaunch, Types, TokenType
  <2> QED
    BY <1>10, <1>11, <2>1, TypesKept DEF FailLaunch, Types
<1>12. ASSUME FinishLaunch(l) PROVE Types'
  <2>1. r.ids \in Launches /\ inflight' = inflight \ {r.tok}
    BY <1>0, <1>12 DEF FinishLaunch, GoodLaunch
  <2>4. TokenType'
    <3>2. CASE tokens' = tokens /\ answers' = answers
      BY <2>1, <3>2 DEF Types, TokenType
    <3>3. CASE /\ r.tok # NoToken /\ tokens' = [tokens EXCEPT ![r.tok] = r.ids]
               /\ answers' = [answers EXCEPT ![r.tok] = @ \union {r.ids}]
      <4> DEFINE t == r.tok
                 s == r.ids
      <4>1. t \in Tokens /\ s \in Launches
        BY <1>0, <2>1, <3>3
      <4>2. /\ tokens' = [tokens EXCEPT ![t] = s]
            /\ answers' = [answers EXCEPT ![t] = @ \union {s}]
            /\ inflight' = inflight \ {t}
        BY <2>1, <3>3
      <4> HIDE DEF t, s
      <4> QED
        BY <4>1, <4>2 DEF Types, TokenType
    <3> QED
      BY <1>12, <3>2, <3>3 DEF FinishLaunch
  <2> QED
    BY <1>10, <1>12, <2>4, TypesKept DEF FinishLaunch, Types
<1> QED
  BY <1>1, <1>2, <1>3, <1>4, <1>5, <1>6, <1>7, <1>8, <1>9, <1>11, <1>12 DEF LaunchStep

\* The steps of a termination.
LEMMA TypesTerminate ==
    ASSUME Types, NEW c \in Terminators,
           TerminateStep(c) \/ \E ids \in Batches : TerminateInstances(c, ids)
    PROVE  Types'
<1> DEFINE r == term[c]
<1>0. /\ r \in TermRec /\ GoodTerm(r) /\ r.ids \in Seq(Insts) /\ Len(r.ids) \in Nat
      /\ r.n \in Nat /\ DOMAIN r.ids = 1..Len(r.ids)
  BY Fields
<1>1. ASSUME NEW ids \in Batches, TerminateInstances(c, ids) PROVE Types'
  <2> DEFINE new == [IdleTerm EXCEPT !.at = "change", !.ids = ids]
  <2>1. ids \in Seq(Insts) /\ Len(ids) \in Nat
    BY IdLists
  <2>2. new \in TermRec
    BY Basics DEF TermRec
  <2>3. new.ids = ids /\ new.n = 0 /\ new.changed = {} /\ term' = [term EXCEPT ![c] = new]
    BY <1>1, Basics DEF IdleTerm, TerminateInstances
  <2> HIDE DEF new
  <2>4. GoodTerm(new)
    BY <2>1, <2>3 DEF GoodTerm
  <2>5. TermType'
    BY <2>2, <2>3, <2>4, TermUpdate
  <2> QED
    BY <1>1, <2>5, TypesKept DEF TerminateInstances, Types, launchVars
<1>2. ASSUME TerminateOne(c) PROVE Types'
  <2> DEFINE k == r.n + 1
             i == r.ids[k]
  <2>1. k \in Nat /\ k <= Len(r.ids) /\ i \in Insts /\ i \in ToSet(r.ids)
    BY <1>0, <1>2 DEF TerminateOne, ToSet
  <2>2. CASE inst[i] \in {"running", "stopped"}
    <3> DEFINE new == [r EXCEPT !.n = k, !.changed = @ \union {i}]
    <3>1. /\ term' = [term EXCEPT ![c] = new] /\ inst' = [inst EXCEPT ![i] = "terminated"]
          /\ failed' = failed
      BY <1>2, <2>2 DEF TerminateOne
    <3> HIDE DEF k, i
    <3>2. new \in TermRec
      BY <1>0, <2>1 DEF TermRec
    <3>3. new.ids = r.ids /\ new.n = k /\ new.changed = r.changed \union {i}
      BY <1>0 DEF TermRec
    <3> HIDE DEF new
    <3>4. GoodTerm(new)
      BY <1>0, <2>1, <3>3 DEF GoodTerm
    <3>5. TermType'
      BY <3>1, <3>2, <3>4, TermUpdate
    <3>6. InstType'
      BY <1>2, <3>1 DEF TerminateOne, Types, InstType, States
    <3>7. PastType'
      BY <1>2, <3>1 DEF TerminateOne, Types, PastType
    <3> QED
      BY <1>2, <3>5, <3>6, <3>7, TypesKept DEF TerminateOne, Types, launchVars
  <2>3. CASE inst[i] \notin {"running", "stopped"}
    <3> DEFINE new == [r EXCEPT !.at = "emit"]
    <3>1. /\ term' = [term EXCEPT ![c] = new] /\ inst' = inst
          /\ failed' = failed \union r.changed
      BY <1>2, <2>3 DEF TerminateOne
    <3>2. /\ new \in TermRec /\ r.changed \subseteq Insts
          /\ new.ids = r.ids /\ new.n = r.n /\ new.changed = r.changed
      BY <1>0 DEF TermRec
    <3> HIDE DEF new
    <3>4. GoodTerm(new)
      BY <1>0, <3>2 DEF GoodTerm
    <3>5. TermType'
      BY <3>1, <3>2, <3>4, TermUpdate
    <3>7. PastType'
      BY <1>2, <3>1, <3>2 DEF TerminateOne, Types, PastType
    <3> QED
      BY <1>2, <3>1, <3>5, <3>7, TypesKept DEF TerminateOne, Types, launchVars
  <2> QED
    BY <2>2, <2>3
<1>3. ASSUME ListVolumes(c) PROVE Types'
  <2> DEFINE new == [r EXCEPT !.at = "release", !.todo = {v \in Vols : Stored(v)}]
  <2>1. term' = [term EXCEPT ![c] = new]
    BY <1>3 DEF ListVolumes
  <2>2. new \in TermRec /\ new.ids = r.ids /\ new.n = r.n /\ new.changed = r.changed
    BY <1>0 DEF TermRec
  <2> HIDE DEF new
  <2>3. GoodTerm(new)
    BY <1>0, <2>2 DEF GoodTerm
  <2>4. TermType'
    BY <2>1, <2>2, <2>3, TermUpdate
  <2> QED
    BY <1>3, <2>4, TypesKept DEF ListVolumes, Types, launchVars
<1>4. ASSUME NEW v \in Vols, ReleaseVolume(c, v) PROVE Types'
  <2> DEFINE new == [r EXCEPT !.todo = @ \ {v}]
  <2>1. term' = [term EXCEPT ![c] = new]
    BY <1>4 DEF ReleaseVolume
  <2>2. new \in TermRec /\ new.ids = r.ids /\ new.n = r.n /\ new.changed = r.changed
    BY <1>0 DEF TermRec
  <2> HIDE DEF new
  <2>3. GoodTerm(new)
    BY <1>0, <2>2 DEF GoodTerm
  <2>4. TermType'
    BY <2>1, <2>2, <2>3, TermUpdate
  <2>5. \/ vol' = vol
        \/ vol' = [vol EXCEPT ![v] = DeletedVolume] \/ vol' = [vol EXCEPT ![v] = FreeVolume]
    BY <1>4 DEF ReleaseVolume
  <2>6. VolType'
    BY <2>5, VolumeTypes, VolUpdate, TypesKept
  <2> QED
    BY <1>4, <2>4, <2>6, TypesKept DEF ReleaseVolume, Types, launchVars
<1>5. ASSUME ReleaseDone(c) PROVE Types'
  <2> DEFINE new == [r EXCEPT !.at = "emit"]
  <2>1. term' = [term EXCEPT ![c] = new]
    BY <1>5 DEF ReleaseDone
  <2>2. new \in TermRec /\ new.ids = r.ids /\ new.n = r.n /\ new.changed = r.changed
    BY <1>0 DEF TermRec
  <2> HIDE DEF new
  <2>3. GoodTerm(new)
    BY <1>0, <2>2 DEF GoodTerm
  <2>4. TermType'
    BY <2>1, <2>2, <2>3, TermUpdate
  <2> QED
    BY <1>5, <2>4, TypesKept DEF ReleaseDone, Types, launchVars
<1>6. ASSUME Emit(c) PROVE Types'
  <2>1. TermType'
    BY <1>6, Basics, TermUpdate DEF Emit
  <2>2. r.changed \subseteq Insts
    BY <1>0 DEF TermRec
  <2>3. PastType'
    BY <1>6, <2>2 DEF Emit, pastVars, Types, PastType
  <2> QED
    BY <1>6, <2>1, <2>3, TypesKept DEF Emit, Types, launchVars
<1> QED
  BY <1>1, <1>2, <1>3, <1>4, <1>5, <1>6 DEF TerminateStep

\* The steps of volumes.
LEMMA TypesVolumes ==
    ASSUME Types,
           \/ \E v \in UserVols : CreateVolume(v)
           \/ \E v \in Vols : DetachVolume(v)
           \/ \E d \in Deleters : RemoveVolume(d) \/ \E v \in Vols : DeleteVolume(d, v)
           \/ \E a \in Attachers :
                MarkAttached(a) \/ \E v \in Vols, i \in Insts : AttachVolume(a, v, i)
    PROVE  Types'
<1>1. ASSUME NEW v \in UserVols, CreateVolume(v) PROVE Types'
  <2>1. VolType'
    BY <1>1, Basics, VolumeTypes, VolUpdate DEF CreateVolume
  <2>2. PastType'
    BY <1>1, Basics DEF CreateVolume, Types, PastType
  <2> QED
    BY <1>1, <2>1, <2>2, TypesKept DEF CreateVolume, Types, launchVars
<1>2. ASSUME NEW v \in Vols, DetachVolume(v) PROVE Types'
  <2>1. VolType'
    BY <1>2, VolumeTypes, VolUpdate DEF DetachVolume
  <2>2. PastType'
    BY <1>2 DEF DetachVolume, Types, PastType
  <2> QED
    BY <1>2, <2>1, <2>2, TypesKept DEF DetachVolume, Types, launchVars
<1>3. ASSUME NEW d \in Deleters, RemoveVolume(d) PROVE Types'
  <2> DEFINE v == del[d]
  <2>1. v \in Vols
    BY <1>3 DEF RemoveVolume, Types, AttachType
  <2>2. /\ vol' = [vol EXCEPT ![v] = DeletedVolume] /\ del' = [del EXCEPT ![d] = NoVol]
        /\ asked' = asked \union {v}
    BY <1>3 DEF RemoveVolume
  <2>3. AttachType'
    BY <1>3, <2>2 DEF RemoveVolume, Types, AttachType
  <2> HIDE DEF v
  <2>4. VolType'
    BY <2>1, <2>2, VolumeTypes, VolUpdate
  <2>5. PastType'
    BY <1>3, <2>1, <2>2 DEF RemoveVolume, Types, PastType
  <2> QED
    BY <1>3, <2>3, <2>4, <2>5, TypesKept DEF RemoveVolume, Types, launchVars
<1>4. ASSUME NEW d \in Deleters, NEW v \in Vols, DeleteVolume(d, v) PROVE Types'
  <2>1. AttachType'
    BY <1>4 DEF DeleteVolume, Types, AttachType
  <2> QED
    BY <1>4, <2>1, TypesKept DEF DeleteVolume, Types, launchVars
<1>5. ASSUME NEW a \in Attachers, NEW v \in Vols, NEW i \in Insts, AttachVolume(a, v, i)
      PROVE  Types'
  <2>1. AttachType'
    BY <1>5 DEF AttachVolume, Types, AttachType
  <2> QED
    BY <1>5, <2>1, TypesKept DEF AttachVolume, Types, launchVars
<1>6. ASSUME NEW a \in Attachers, MarkAttached(a) PROVE Types'
  <2> DEFINE v == attach[a].v
             i == attach[a].i
             b == vol[v].delOnTerm
  <2>1. v \in Vols /\ i \in Insts
    BY <1>6 DEF MarkAttached, Types, AttachType
  <2>2. b \in BOOLEAN
    BY <2>1, Fields DEF Volume
  <2>3. /\ attach' = [attach EXCEPT ![a] = IdleAttach]
        /\ \/ /\ vol' = [vol EXCEPT ![v] = [state |-> "in-use", to |-> i, delOnTerm |-> b]]
              /\ stale' \in {stale, stale \union {i}}
           \/ vol' = vol /\ stale' = stale
    BY <1>6 DEF MarkAttached
  <2>4. AttachType'
    BY <1>6, <2>3, Basics DEF MarkAttached, Types, AttachType
  <2> HIDE DEF v, i, b
  <2>5. VolType'
    BY <2>1, <2>2, <2>3, Basics, VolumeTypes, VolUpdate, TypesKept
  <2>6. PastType'
    BY <1>6, <2>1, <2>3 DEF MarkAttached, Types, PastType
  <2> QED
    BY <1>6, <2>4, <2>5, <2>6, TypesKept DEF MarkAttached, Types, launchVars
<1> QED
  BY <1>1, <1>2, <1>3, <1>4, <1>5, <1>6

LEMMA TypesNext == Types /\ [Next]_vars => Types'
<1> SUFFICES ASSUME Types, [Next]_vars PROVE Types'
  OBVIOUS
<1>1. CASE \E l \in Launchers :
         \/ \E ids \in Launches, t \in Tokens \union {NoToken} : StartLaunch(l, t, ids)
         \/ \E t \in Tokens : ReplayLaunch(l, t) \/ WaitForLaunch(l, t)
         \/ LaunchStep(l)
  BY <1>1, TypesLaunch
<1>2. ASSUME NEW i \in Insts, Stop(i) \/ Start(i) PROVE Types'
  <2>1. InstType'
    BY <1>2 DEF Stop, Start, Types, InstType, States
  <2> QED
    BY <1>2, <2>1, TypesKept DEF Stop, Start, Types, launchVars
<1>3. CASE \E c \in Terminators :
         TerminateStep(c) \/ \E ids \in Batches : TerminateInstances(c, ids)
  BY <1>3, TypesTerminate
<1>4. CASE \/ \E v \in UserVols : CreateVolume(v)
           \/ \E v \in Vols : DetachVolume(v)
           \/ \E d \in Deleters : RemoveVolume(d) \/ \E v \in Vols : DeleteVolume(d, v)
           \/ \E a \in Attachers :
                MarkAttached(a) \/ \E v \in Vols, i \in Insts : AttachVolume(a, v, i)
  BY <1>4, TypesVolumes
<1>5. CASE UNCHANGED vars
  BY <1>5, TypesKept DEF vars, launchVars, Types
<1> QED
  BY <1>1, <1>2, <1>3, <1>4, <1>5 DEF Next

\* Every state has the shape TypeOK says.
THEOREM TypeCorrect == Spec => []TypeOK
<1>1. Init => Types
  BY TypesInit
<1>2. Types /\ [Next]_vars => Types'
  BY TypesNext
<1> QED
  BY <1>1, <1>2, TypesMean, PTL DEF Spec

(***************************************************************************)
(* One launch per token                                                    *)
(***************************************************************************)

\* A launch under way keeps its token, and only StartLaunch begins one.
LEMMA LaunchingShrinks ==
    ASSUME Types, NEW l \in Launchers,
           LaunchStep(l) \/ \E t \in Tokens : ReplayLaunch(l, t) \/ WaitForLaunch(l, t),
           NEW m \in Launchers, NEW s \in Tokens, Launching(m, s)'
    PROVE  Launching(m, s)
<1> DEFINE r == launch[l]
<1>0. launch \in [Launchers -> LaunchRec] /\ r \in LaunchRec
  BY Fields DEF Types, LaunchType
<1>1. CASE m # l
  <2>1. CASE Return(l)
    BY <1>1, <2>1, <1>0 DEF Return, Launching, IdleLaunch
  <2>2. CASE ~Return(l)
    <3>1. launch'[m] = launch[m]
      BY <1>0, <1>1, <2>2
         DEF LaunchStep, ReplayLaunch, WaitForLaunch, Provision, ProvisionFails,
             MaterializeInstanceVolumes, RollbackInstance, DeleteInstanceVolume, NextRollback,
             FailLaunch, FinishLaunch
    <3> QED
      BY <3>1 DEF Launching
  <2> QED
    BY <2>1, <2>2
<1>2. CASE m = l
  <2>2. CASE r.at \in {"idle", "wait"}
    BY <1>0, <1>2, <2>2
       DEF LaunchStep, ReplayLaunch, WaitForLaunch, Provision, ProvisionFails,
           MaterializeInstanceVolumes, RollbackInstance, DeleteInstanceVolume, NextRollback,
           FailLaunch, FinishLaunch, Launching, IdleLaunch, LaunchRec
  <2>3. CASE Return(l)
    BY <1>0, <1>2, <2>3 DEF Return, Launching, IdleLaunch
  <2>4. CASE r.at \notin {"idle", "wait"} /\ ~Return(l)
    <3>1. Provision(l) => launch'[l].tok = r.tok
      BY <1>0 DEF Provision, LaunchRec
    <3>2. ProvisionFails(l) => launch'[l].tok = r.tok
      BY <1>0 DEF ProvisionFails, LaunchRec
    <3>3. ASSUME NEW b \in BOOLEAN, MaterializeInstanceVolumes(l, b)
          PROVE  launch'[l].tok = r.tok
      BY <1>0, <3>3 DEF MaterializeInstanceVolumes, LaunchRec
    <3>4. RollbackInstance(l) => launch'[l].tok = r.tok
      BY <1>0 DEF RollbackInstance, LaunchRec
    <3>5. ASSUME NEW v \in Vols, DeleteInstanceVolume(l, v) PROVE launch'[l].tok = r.tok
      BY <1>0, <3>5 DEF DeleteInstanceVolume, LaunchRec
    <3>6. NextRollback(l) => launch'[l].tok = r.tok
      BY <1>0 DEF NextRollback, LaunchRec
    <3>7. launch'[l].tok = r.tok
      BY <2>4, <3>1, <3>2, <3>3, <3>4, <3>5, <3>6
         DEF LaunchStep, ReplayLaunch, WaitForLaunch, FailLaunch, FinishLaunch
    <3> QED
      BY <1>2, <2>4, <3>7 DEF Launching
  <2> QED
    BY <2>2, <2>3, <2>4
<1> QED
  BY <1>1, <1>2

LEMMA OneLaunchNext == Types /\ OneLaunchPerToken /\ [Next]_vars => OneLaunchPerToken'
<1> SUFFICES ASSUME Types, OneLaunchPerToken, [Next]_vars PROVE OneLaunchPerToken'
  OBVIOUS
<1>0. /\ launch \in [Launchers -> LaunchRec] /\ tokens \in [Tokens -> Launches \union {<<>>}]
      /\ answers \in [Tokens -> SUBSET Launches] /\ <<>> \notin Launches
  BY IdLists DEF Types, LaunchType, TokenType
<1>1. ASSUME NEW l \in Launchers, NEW ids \in Launches, NEW t \in Tokens \union {NoToken},
             StartLaunch(l, t, ids)
      PROVE  OneLaunchPerToken'
  <2>1. \A m \in Launchers, s \in Tokens : Launching(m, s)' => Launching(m, s) \/ (m = l /\ s = t)
    BY <1>0, <1>1 DEF StartLaunch, Launching, IdleLaunch
  <2>2. tokens' = tokens /\ answers' = answers /\ inflight \subseteq inflight'
    BY <1>1 DEF StartLaunch
  <2>3. t \in Tokens => tokens[t] = <<>> /\ t \notin inflight /\ t \in inflight'
    BY <1>1, Basics DEF StartLaunch
  <2> QED
    BY <2>1, <2>2, <2>3 DEF OneLaunchPerToken
<1>2. ASSUME NEW l \in Launchers,
             LaunchStep(l) \/ \E t \in Tokens : ReplayLaunch(l, t) \/ WaitForLaunch(l, t)
      PROVE  OneLaunchPerToken'
  <2>1. \A m \in Launchers, s \in Tokens : Launching(m, s)' => Launching(m, s)
    BY <1>2, LaunchingShrinks
  <2>2. CASE UNCHANGED <<tokens, inflight, answers>>
    BY <2>1, <2>2 DEF OneLaunchPerToken
  <2>3. ASSUME NEW t \in Tokens, ReplayLaunch(l, t) PROVE OneLaunchPerToken'
    <3>1. /\ tokens' = tokens /\ inflight' = inflight
          /\ \A s \in Tokens : answers'[s] \subseteq answers[s] \union {tokens[s]}
      BY <1>0, <2>3 DEF ReplayLaunch
    <3> QED
      BY <2>1, <3>1 DEF OneLaunchPerToken
  <2>5. PICK u \in Tokens \union {NoToken} : u = launch[l].tok
    BY Fields
  <2>4. CASE FailLaunch(l) \/ FinishLaunch(l)
    <3>1. Return(l) /\ inflight' = inflight \ {u} /\ (u \in Tokens => Launching(l, u))
      BY <2>4, <2>5 DEF FailLaunch, FinishLaunch, Launching
    <3>2. \A m \in Launchers : u \in Tokens => ~Launching(m, u)'
      <4>1. ~Launching(l, u)'
        BY <1>0, <3>1 DEF Return, Launching, IdleLaunch
      <4> QED
        BY <2>1, <3>1, <4>1 DEF OneLaunchPerToken
    <3>3. \A s \in Tokens, m \in Launchers :
             Launching(m, s)' => Launching(m, s) /\ s # u /\ (s \in inflight => s \in inflight')
      BY <2>1, <3>1, <3>2
    <3>4. CASE UNCHANGED <<tokens, answers>>
      BY <3>3, <3>4 DEF OneLaunchPerToken
    <3>5. CASE /\ u # NoToken /\ tokens' = [tokens EXCEPT ![u] = launch[l].ids]
               /\ answers' = [answers EXCEPT ![u] = @ \union {launch[l].ids}]
      <4>1. u \in Tokens
        BY <2>5, <3>5
      <4>2. tokens[u] = <<>> /\ answers[u] \subseteq {<<>>}
        BY <3>1, <4>1 DEF OneLaunchPerToken
      <4>3. answers[u] = {}
        BY <1>0, <4>1, <4>2
      <4> DEFINE ids == launch[l].ids
      <4>4. /\ tokens' = [tokens EXCEPT ![u] = ids]
            /\ answers' = [answers EXCEPT ![u] = @ \union {ids}]
        BY <3>5
      <4> HIDE DEF ids
      <4>5. answers'[u] \subseteq {tokens'[u]}
        BY <1>0, <4>1, <4>3, <4>4
      <4>6. \A s \in Tokens : s # u => answers'[s] = answers[s] /\ tokens'[s] = tokens[s]
        BY <1>0, <4>4
      <4>7. \A s \in Tokens : answers'[s] \subseteq {tokens'[s]}
        BY <4>5, <4>6 DEF OneLaunchPerToken
      <4> QED
        BY <3>3, <4>6, <4>7 DEF OneLaunchPerToken
    <3> QED
      BY <2>4, <2>5, <3>4, <3>5 DEF FailLaunch, FinishLaunch
  <2> QED
    BY <1>2, <2>2, <2>3, <2>4
       DEF LaunchStep, WaitForLaunch, Provision, ProvisionFails, MaterializeInstanceVolumes,
           RollbackInstance, DeleteInstanceVolume, NextRollback
<1>3. CASE UNCHANGED launchVars
  BY <1>3 DEF launchVars, OneLaunchPerToken, Launching
<1>4. CASE \E i \in Insts : Stop(i) \/ Start(i)
  BY <1>3, <1>4 DEF Stop, Start
<1>5. CASE \E c \in Terminators :
         TerminateStep(c) \/ \E ids \in Batches : TerminateInstances(c, ids)
  BY <1>3, <1>5 DEF TerminateStep, TerminateInstances, TerminateOne, ListVolumes, ReleaseVolume,
                    ReleaseDone, Emit
<1>6. CASE \/ \E v \in UserVols : CreateVolume(v)
           \/ \E v \in Vols : DetachVolume(v)
           \/ \E d \in Deleters : RemoveVolume(d) \/ \E v \in Vols : DeleteVolume(d, v)
           \/ \E a \in Attachers :
                MarkAttached(a) \/ \E v \in Vols, i \in Insts : AttachVolume(a, v, i)
  BY <1>3, <1>6 DEF CreateVolume, DetachVolume, RemoveVolume, DeleteVolume, MarkAttached, AttachVolume
<1> QED
  BY <1>1, <1>2, <1>3, <1>4, <1>5, <1>6 DEF Next, vars

\* For a client token at most one call launches, and all calls that succeed
\* return the ids it recorded: runInstancesIdempotent.
THEOREM TokensLaunchOnce == Spec => []OneLaunchPerToken
<1>1. Init => Types /\ OneLaunchPerToken
  BY TypesInit DEF Init, OneLaunchPerToken, Launching, IdleLaunch
<1>2. Types /\ OneLaunchPerToken /\ [Next]_vars => Types' /\ OneLaunchPerToken'
  BY TypesNext, OneLaunchNext
<1> QED
  BY <1>1, <1>2, PTL DEF Spec

(***************************************************************************)
(* Instances and volumes that are not there yet                            *)
(***************************************************************************)

\* No two launches draw the same id.
Apart ==
    \A l, m \in Launchers : l # m =>
        \A a \in DOMAIN launch[l].ids, b \in DOMAIN launch[m].ids :
            launch[l].ids[a] # launch[m].ids[b]

\* The ids a launch has not come to are not in the store; the others have been.
Coming(r) == r.at \in {"provision", "volumes"}
ToCome ==
    \A l \in Launchers : \A a \in DOMAIN launch[l].ids :
        inst[launch[l].ids[a]] = "none" <=> Coming(launch[l]) /\ a > launch[l].n

\* The volume of an instance is not in its store before the launch puts it there.
Unused(i) == vol[i] = NoVolume /\ i \notin owned
Unlaunched ==
    /\ \A i \in Insts : inst[i] = "none" => Unused(i)
    /\ \A l \in Launchers : launch[l].at = "volumes" => Unused(launch[l].ids[launch[l].n])

\* A call deletes a volume that was once stored.
Deletable == \A d \in Deleters : del[d] # NoVol => vol[del[d]].state # "none"

Unborn == Apart /\ ToCome /\ Unlaunched /\ Deletable

LEMMA UnbornInit == Init => Unborn
<1> SUFFICES ASSUME Init PROVE Unborn
  OBVIOUS
<1>1. \A l \in Launchers : launch[l].ids = <<>> /\ launch[l].at = "idle"
  BY DEF Init, IdleLaunch
<1>2. \A i \in Insts : Unused(i)
  BY Basics DEF Init, Unused
<1>3. \A d \in Deleters : del[d] = NoVol
  BY DEF Init
<1> QED
  BY <1>1, <1>2, <1>3 DEF Unborn, Apart, ToCome, Unlaunched, Deletable

\* Steps that launch nothing: the ids of a launch stay, or the launch is past
\* them; no instance comes, no unused volume is used.
LEMMA UnbornKept ==
    ASSUME Types, Types', Unborn,
           \A m \in Launchers :
             \/ launch'[m] = launch[m]
             \/ /\ ~Coming(launch'[m])
                /\ \A a \in DOMAIN launch'[m].ids :
                     /\ a \in DOMAIN launch[m].ids /\ launch'[m].ids[a] = launch[m].ids[a]
                     /\ inst[launch[m].ids[a]] # "none",
           \A i \in Insts : inst'[i] = "none" <=> inst[i] = "none",
           \A i \in Insts : Unused(i) => Unused(i)',
           \A d \in Deleters : del'[d] # NoVol => vol'[del'[d]].state # "none"
    PROVE  Unborn'
<1>0. \A m \in Launchers :
        /\ launch[m].ids \in Seq(Insts) /\ DOMAIN launch[m].ids = 1..Len(launch[m].ids)
        /\ Len(launch[m].ids) \in Nat /\ launch[m].n \in Nat /\ GoodLaunch(launch[m])
  BY Fields
<1>1. Apart'
  BY DEF Unborn, Apart
<1>2. ASSUME NEW m \in Launchers, NEW a \in DOMAIN launch'[m].ids
      PROVE  inst'[launch'[m].ids[a]] = "none" <=> Coming(launch'[m]) /\ a > launch'[m].n
  <2>1. a \in DOMAIN launch[m].ids /\ launch'[m].ids[a] = launch[m].ids[a]
    BY <1>2
  <2>2. launch[m].ids[a] \in Insts
    BY <1>0, <2>1
  <2>3. inst[launch[m].ids[a]] = "none" <=> Coming(launch[m]) /\ a > launch[m].n
    BY <2>1 DEF Unborn, ToCome
  <2> QED
    BY <1>2, <2>1, <2>2, <2>3
<1>3. ToCome'
  BY <1>2 DEF ToCome, Coming
<1>4. Unlaunched'
  <2>1. \A m \in Launchers : launch'[m].at = "volumes" => launch'[m] = launch[m]
    BY DEF Coming
  <2>2. \A m \in Launchers : launch[m].at = "volumes" => launch[m].ids[launch[m].n] \in Insts
    BY <1>0 DEF GoodLaunch
  <2>3. ASSUME NEW m \in Launchers, launch'[m].at = "volumes"
        PROVE  Unused(launch[m].ids[launch[m].n])'
    <3>1. PICK i \in Insts : i = launch[m].ids[launch[m].n] /\ i = launch'[m].ids[launch'[m].n]
      BY <2>1, <2>2, <2>3
    <3>2. Unused(i)
      BY <2>1, <2>3, <3>1 DEF Unborn, Unlaunched
    <3>3. Unused(i)'
      BY <3>2
    <3> QED
      BY <3>1, <3>3 DEF Unused
  <2> QED
    BY <2>3 DEF Unborn, Unlaunched, Unused
<1>5. Deletable'
  BY DEF Deletable
<1> QED
  BY <1>1, <1>3, <1>4, <1>5 DEF Unborn

\* The variables the invariant speaks of.
unbornVars == <<inst, vol, owned, del>>

LEMMA UnbornSame ==
    ASSUME Types, Unborn, UNCHANGED unbornVars
    PROVE  /\ \A i \in Insts : inst'[i] = "none" <=> inst[i] = "none"
           /\ \A i \in Insts : Unused(i) => Unused(i)'
           /\ \A d \in Deleters : del'[d] # NoVol => vol'[del'[d]].state # "none"
BY DEF unbornVars, Unused, Unborn, Deletable

\* How a launch's record changes.
LEMMA LaunchSteps ==
    ASSUME Types, NEW l \in Launchers
    PROVE  /\ \A t \in Tokens : WaitForLaunch(l, t) =>
                /\ launch'[l].at = "wait" /\ launch'[l].ids = <<>>
                /\ \A m \in Launchers : m # l => launch'[m] = launch[m]
           /\ Provision(l) =>
                /\ launch[l].at = "provision" /\ launch'[l].at = "volumes"
                /\ launch'[l].ids = launch[l].ids /\ launch'[l].n = launch[l].n + 1
                /\ \A m \in Launchers : m # l => launch'[m] = launch[m]
           /\ \A b \in BOOLEAN : MaterializeInstanceVolumes(l, b) =>
                /\ launch[l].at = "volumes"
                /\ \/ launch'[l].at = "provision"
                   \/ launch'[l].at = "finish" /\ launch[l].n >= Len(launch[l].ids)
                /\ launch'[l].ids = launch[l].ids /\ launch'[l].n = launch[l].n
                /\ \A m \in Launchers : m # l => launch'[m] = launch[m]
           /\ ProvisionFails(l) =>
                /\ launch[l].at = "provision" /\ launch'[l].at = "rollback"
                /\ launch'[l].ids = SubSeq(launch[l].ids, 1, launch[l].n)
                /\ \A m \in Launchers : m # l => launch'[m] = launch[m]
           /\ RollbackInstance(l) =>
                /\ launch[l].at = "rollback" /\ launch'[l].at = "delete"
                /\ launch'[l].ids = launch[l].ids /\ launch'[l].n = launch[l].n
                /\ launch'[l].todo = {v \in Vols : Stored(v)}
                /\ \A m \in Launchers : m # l => launch'[m] = launch[m]
           /\ \A v \in Vols : DeleteInstanceVolume(l, v) =>
                /\ launch[l].at = "delete" /\ launch'[l].at = "delete"
                /\ launch'[l].ids = launch[l].ids /\ launch'[l].n = launch[l].n
                /\ launch'[l].todo = launch[l].todo \ {v}
                /\ \A m \in Launchers : m # l => launch'[m] = launch[m]
           /\ NextRollback(l) =>
                /\ launch[l].at = "delete" /\ launch'[l].at = "rollback"
                /\ launch'[l].ids = launch[l].ids
                /\ \A m \in Launchers : m # l => launch'[m] = launch[m]
           /\ FailLaunch(l) \/ FinishLaunch(l) =>
                /\ launch[l].at \in {"rollback", "finish"}
                /\ \A m \in Launchers :
                     \/ launch'[m] = launch[m]
                     \/ /\ launch'[m].at = "idle" /\ launch'[m].ids = <<>>
                        /\ launch[m].at \in {"rollback", "finish", "wait"}
<1> DEFINE r == launch[l]
<1>0. launch \in [Launchers -> LaunchRec] /\ r \in LaunchRec /\ r.n \in Nat /\ Len(r.ids) \in Nat
  BY Fields DEF Types, LaunchType
<1>1. ASSUME NEW t \in Tokens, WaitForLaunch(l, t)
      PROVE  /\ launch'[l].at = "wait" /\ launch'[l].ids = <<>>
             /\ \A m \in Launchers : m # l => launch'[m] = launch[m]
  BY <1>0, <1>1 DEF WaitForLaunch, IdleLaunch
<1>2. ASSUME Provision(l)
      PROVE  /\ r.at = "provision" /\ launch'[l].at = "volumes"
             /\ launch'[l].ids = r.ids /\ launch'[l].n = r.n + 1
             /\ \A m \in Launchers : m # l => launch'[m] = launch[m]
  <2> DEFINE k == r.n + 1
  <2>1. r.at = "provision" /\ launch' = [launch EXCEPT ![l] = [r EXCEPT !.at = "volumes", !.n = k]]
    BY <1>2 DEF Provision
  <2> HIDE DEF k
  <2>2. launch'[l].at = "volumes" /\ launch'[l].ids = r.ids /\ launch'[l].n = k
    BY <1>0, <2>1 DEF LaunchRec
  <2> QED
    BY <1>0, <2>1, <2>2 DEF k
<1>3. ASSUME NEW b \in BOOLEAN, MaterializeInstanceVolumes(l, b)
      PROVE  /\ r.at = "volumes"
             /\ \/ launch'[l].at = "provision"
                \/ launch'[l].at = "finish" /\ r.n >= Len(r.ids)
             /\ launch'[l].ids = r.ids /\ launch'[l].n = r.n
             /\ \A m \in Launchers : m # l => launch'[m] = launch[m]
  <2> DEFINE next == IF r.n < Len(r.ids) THEN "provision" ELSE "finish"
  <2>1. r.at = "volumes" /\ launch' = [launch EXCEPT ![l] = [r EXCEPT !.at = next]]
    BY <1>3 DEF MaterializeInstanceVolumes
  <2>2. next = "provision" \/ (next = "finish" /\ r.n >= Len(r.ids))
    BY <1>0
  <2> HIDE DEF next
  <2>3. launch'[l].at = next /\ launch'[l].ids = r.ids /\ launch'[l].n = r.n
    BY <1>0, <2>1 DEF LaunchRec
  <2> QED
    BY <1>0, <2>1, <2>2, <2>3
<1>4. ASSUME ProvisionFails(l)
      PROVE  /\ r.at = "provision" /\ launch'[l].at = "rollback"
             /\ launch'[l].ids = SubSeq(r.ids, 1, r.n)
             /\ \A m \in Launchers : m # l => launch'[m] = launch[m]
  BY <1>0, <1>4 DEF ProvisionFails, LaunchRec
<1>5. ASSUME RollbackInstance(l)
      PROVE  /\ r.at = "rollback" /\ launch'[l].at = "delete"
             /\ launch'[l].ids = r.ids /\ launch'[l].n = r.n
             /\ launch'[l].todo = {v \in Vols : Stored(v)}
             /\ \A m \in Launchers : m # l => launch'[m] = launch[m]
  BY <1>0, <1>5 DEF RollbackInstance, LaunchRec
<1>6. ASSUME NEW v \in Vols, DeleteInstanceVolume(l, v)
      PROVE  /\ r.at = "delete" /\ launch'[l].at = "delete"
             /\ launch'[l].ids = r.ids /\ launch'[l].n = r.n /\ launch'[l].todo = r.todo \ {v}
             /\ \A m \in Launchers : m # l => launch'[m] = launch[m]
  BY <1>0, <1>6 DEF DeleteInstanceVolume, LaunchRec
<1>7. ASSUME NextRollback(l)
      PROVE  /\ r.at = "delete" /\ launch'[l].at = "rollback" /\ launch'[l].ids = r.ids
             /\ \A m \in Launchers : m # l => launch'[m] = launch[m]
  BY <1>0, <1>7 DEF NextRollback, LaunchRec
<1>8. ASSUME FailLaunch(l) \/ FinishLaunch(l)
      PROVE  /\ r.at \in {"rollback", "finish"}
             /\ \A m \in Launchers :
                  \/ launch'[m] = launch[m]
                  \/ /\ launch'[m].at = "idle" /\ launch'[m].ids = <<>>
                     /\ launch[m].at \in {"rollback", "finish", "wait"}
  <2>1. r.at \in {"rollback", "finish"} /\ Return(l)
    BY <1>8 DEF FailLaunch, FinishLaunch
  <2> QED
    BY <1>0, <2>1 DEF Return, IdleLaunch
<1> QED
  BY <1>1, <1>2, <1>3, <1>4, <1>5, <1>6, <1>7, <1>8

\* A launch that starts draws ids nothing has.
LEMMA UnbornStart ==
    ASSUME Types, Types', Unborn, NEW l \in Launchers, NEW ids \in Launches,
           NEW t \in Tokens \union {NoToken}, StartLaunch(l, t, ids)
    PROVE  Unborn'
<1>0. launch \in [Launchers -> LaunchRec] /\ DOMAIN ids = 1..Len(ids) /\ ids \in Seq(Insts)
  BY IdLists DEF Types, LaunchType
<1>1. /\ launch'[l].at = "provision" /\ launch'[l].ids = ids /\ launch'[l].n = 0
      /\ \A m \in Launchers : m # l => launch'[m] = launch[m]
  BY <1>0 DEF StartLaunch, IdleLaunch
<1>2. UNCHANGED unbornVars /\ Fresh(ids)
  BY DEF StartLaunch, unbornVars, pastVars
<1>3. \A m \in Launchers : \A a \in DOMAIN ids, b \in DOMAIN launch[m].ids : ids[a] # launch[m].ids[b]
  BY <1>2 DEF Fresh, ToSet
<1>4. Apart'
  BY <1>1, <1>3 DEF Unborn, Apart
<1>5. ToCome'
  <2>1. \A a \in DOMAIN ids : inst'[ids[a]] = "none" /\ a > 0
    BY <1>0, <1>2 DEF Fresh, unbornVars
  <2>2. \A m \in Launchers : m # l => \A a \in DOMAIN launch'[m].ids :
          inst'[launch'[m].ids[a]] = "none" <=> Coming(launch'[m]) /\ a > launch'[m].n
    BY <1>1, <1>2 DEF Unborn, ToCome, unbornVars
  <2>3. Coming(launch'[l])
    BY <1>1 DEF Coming
  <2> QED
    BY <1>1, <2>1, <2>2, <2>3 DEF ToCome, Coming
<1>6. Unlaunched'
  BY <1>1, <1>2 DEF Unborn, Unlaunched, Unused, unbornVars
<1>7. Deletable'
  BY <1>2 DEF Unborn, Deletable, unbornVars
<1> QED
  BY <1>4, <1>5, <1>6, <1>7 DEF Unborn

\* An instance comes with no volume yet.
LEMMA UnbornProvision ==
    ASSUME Types, Types', Unborn, NEW l \in Launchers, Provision(l)
    PROVE  Unborn'
<1> DEFINE r == launch[l]
           k == r.n + 1
           i == r.ids[k]
<1>0. /\ r.ids \in Seq(Insts) /\ DOMAIN r.ids = 1..Len(r.ids) /\ Len(r.ids) \in Nat /\ r.n \in Nat
      /\ GoodLaunch(r)
  BY Fields
<1>1. /\ r.at = "provision" /\ launch'[l].at = "volumes" /\ launch'[l].ids = r.ids
      /\ launch'[l].n = k /\ \A m \in Launchers : m # l => launch'[m] = launch[m]
  BY LaunchSteps
<1>2. k \in DOMAIN r.ids /\ k > r.n /\ i \in Insts
  BY <1>0, <1>1 DEF GoodLaunch
<1>3. /\ inst' = [inst EXCEPT ![i] = "running"] /\ vol' = vol /\ owned' = owned /\ del' = del
  BY DEF Provision, pastVars
<1>4. inst[i] = "none" /\ Unused(i)
  BY <1>1, <1>2 DEF Unborn, ToCome, Unlaunched, Coming
<1>5. /\ inst'[i] # "none" /\ \A j \in Insts : j # i => inst'[j] = inst[j]
  BY <1>2, <1>3 DEF Types, InstType
<1>6. \A a \in DOMAIN r.ids : r.ids[a] = i => a = k
  BY <1>0, <1>1, <1>2 DEF GoodLaunch
<1>7. Apart'
  BY <1>1 DEF Unborn, Apart
<1>8. ASSUME NEW m \in Launchers, NEW a \in DOMAIN launch'[m].ids
      PROVE  inst'[launch'[m].ids[a]] = "none" <=> Coming(launch'[m]) /\ a > launch'[m].n
  <2>1. CASE m = l
    <3>1. a \in DOMAIN r.ids /\ a \in Nat /\ launch'[m].ids[a] = r.ids[a] /\ r.ids[a] \in Insts
      BY <1>0, <1>1, <1>8, <2>1
    <3>2. inst[r.ids[a]] = "none" <=> a > r.n
      BY <1>1, <3>1 DEF Unborn, ToCome, Coming
    <3>3. Coming(launch'[m]) /\ launch'[m].n = k
      BY <1>1, <2>1 DEF Coming
    <3>4. a > k <=> a > r.n /\ a # k
      BY <1>0, <3>1
    <3>5. CASE a = k
      BY <1>5, <3>1, <3>3, <3>4, <3>5
    <3>6. CASE a # k
      <4>1. inst'[r.ids[a]] = inst[r.ids[a]]
        BY <1>5, <1>6, <3>1, <3>6
      <4> QED
        BY <3>1, <3>2, <3>3, <3>4, <3>6, <4>1
    <3> QED
      BY <3>5, <3>6
  <2>2. CASE m # l
    <3>1. launch'[m] = launch[m] /\ a \in DOMAIN launch[m].ids
      BY <1>1, <1>8, <2>2
    <3>2. launch[m].ids[a] \in Insts /\ launch[m].ids[a] # i
      BY <1>2, <2>2, <3>1, Fields DEF Unborn, Apart
    <3> QED
      BY <1>5, <3>1, <3>2 DEF Unborn, ToCome, Coming
  <2> QED
    BY <2>1, <2>2
<1>9. ToCome'
  BY <1>8 DEF ToCome, Coming
<1>10. \A j \in Insts : Unused(j)' <=> Unused(j)
  BY <1>3 DEF Unused
<1>11. Unlaunched'
  <2>1. \A j \in Insts : inst'[j] = "none" => Unused(j)'
    BY <1>5, <1>10 DEF Unborn, Unlaunched
  <2>2. \A m \in Launchers : launch'[m].at = "volumes" =>
          vol'[launch'[m].ids[launch'[m].n]] = NoVolume /\ launch'[m].ids[launch'[m].n] \notin owned'
    BY <1>1, <1>3, <1>4 DEF Unborn, Unlaunched, Unused
  <2> QED
    BY <2>1, <2>2 DEF Unlaunched, Unused
<1>12. Deletable'
  BY <1>3 DEF Unborn, Deletable
<1> QED
  BY <1>7, <1>9, <1>11, <1>12 DEF Unborn

\* A volume is put where there was none.
LEMMA UnbornMaterialize ==
    ASSUME Types, Types', Unborn, NEW l \in Launchers, NEW b \in BOOLEAN,
           MaterializeInstanceVolumes(l, b)
    PROVE  Unborn'
<1> DEFINE r == launch[l]
           i == r.ids[r.n]
<1>0. /\ r.ids \in Seq(Insts) /\ DOMAIN r.ids = 1..Len(r.ids) /\ Len(r.ids) \in Nat /\ r.n \in Nat
      /\ GoodLaunch(r)
  BY Fields
<1>1. /\ r.at = "volumes"
      /\ \/ launch'[l].at = "provision"
         \/ launch'[l].at = "finish" /\ r.n >= Len(r.ids)
      /\ launch'[l].ids = r.ids /\ launch'[l].n = r.n
      /\ \A m \in Launchers : m # l => launch'[m] = launch[m]
  BY LaunchSteps
<1>2. r.n \in DOMAIN r.ids /\ i \in Insts
  BY <1>0, <1>1 DEF GoodLaunch
<1>3. /\ vol' = [vol EXCEPT ![i] = [state |-> "in-use", to |-> i, delOnTerm |-> b]]
      /\ inst' = inst /\ owned' = owned /\ del' = del
  BY DEF MaterializeInstanceVolumes
<1>4. inst[i] # "none"
  BY <1>0, <1>1, <1>2 DEF Unborn, ToCome, Coming
<1>5. vol'[i].state = "in-use" /\ \A v \in Vols : v # i => vol'[v] = vol[v]
  BY <1>2, <1>3, Basics DEF Types, VolType
<1>6. Apart'
  BY <1>1 DEF Unborn, Apart
<1>7. ASSUME NEW m \in Launchers, NEW a \in DOMAIN launch'[m].ids
      PROVE  inst'[launch'[m].ids[a]] = "none" <=> Coming(launch'[m]) /\ a > launch'[m].n
  <2>1. CASE m = l
    <3>1. a \in DOMAIN r.ids /\ launch'[m].ids[a] = r.ids[a] /\ launch'[m].n = r.n
      BY <1>1, <1>7, <2>1
    <3>2. a > r.n => Coming(launch'[m])
      BY <1>0, <1>1, <2>1, <3>1 DEF Coming
    <3>3. Coming(launch[m])
      BY <1>1, <2>1 DEF Coming
    <3> QED
      BY <1>3, <2>1, <3>1, <3>2, <3>3 DEF Unborn, ToCome
  <2>2. CASE m # l
    BY <1>1, <1>3, <1>7, <2>2 DEF Unborn, ToCome, Coming
  <2> QED
    BY <2>1, <2>2
<1>8. ToCome'
  BY <1>7 DEF ToCome, Coming
<1>9. Unlaunched'
  <2>1. ASSUME NEW j \in Insts, inst'[j] = "none" PROVE Unused(j)'
    BY <1>3, <1>4, <1>5, <2>1, Basics DEF Unborn, Unlaunched, Unused
  <2>2. ASSUME NEW m \in Launchers, launch'[m].at = "volumes"
        PROVE  vol'[launch'[m].ids[launch'[m].n]] = NoVolume /\ launch'[m].ids[launch'[m].n] \notin owned'
    <3>1. m # l /\ launch'[m] = launch[m]
      BY <1>1, <2>2
    <3>2. /\ launch[m].n \in DOMAIN launch[m].ids /\ launch[m].ids[launch[m].n] \in Insts
      BY <2>2, <3>1, Fields DEF GoodLaunch
    <3>3. launch[m].ids[launch[m].n] # i
      BY <1>2, <3>1, <3>2 DEF Unborn, Apart
    <3> QED
      BY <1>3, <1>5, <2>2, <3>1, <3>2, <3>3, Basics DEF Unborn, Unlaunched, Unused
  <2> QED
    BY <2>1, <2>2 DEF Unlaunched, Unused
<1>10. Deletable'
  BY <1>3, <1>5 DEF Unborn, Deletable, Types, AttachType
<1> QED
  BY <1>6, <1>8, <1>9, <1>10 DEF Unborn

\* The other steps of a launch.
LEMMA UnbornLaunch ==
    ASSUME Types, Types', Unborn, NEW l \in Launchers,
           \/ \E t \in Tokens : ReplayLaunch(l, t) \/ WaitForLaunch(l, t)
           \/ LaunchStep(l)
    PROVE  Unborn'
<1> DEFINE r == launch[l]
<1>0. /\ r.ids \in Seq(Insts) /\ DOMAIN r.ids = 1..Len(r.ids) /\ Len(r.ids) \in Nat /\ r.n \in Nat
      /\ GoodLaunch(r)
  BY Fields
<1>1. ASSUME NEW t \in Tokens, ReplayLaunch(l, t) PROVE Unborn'
  <2>1. UNCHANGED unbornVars /\ launch' = launch
    BY <1>1 DEF ReplayLaunch, unbornVars, pastVars
  <2> QED
    BY <2>1, UnbornSame, UnbornKept
<1>2. ASSUME NEW t \in Tokens, WaitForLaunch(l, t) PROVE Unborn'
  <2>1. UNCHANGED unbornVars
    BY <1>2 DEF WaitForLaunch, unbornVars, pastVars
  <2>2. /\ ~Coming(launch'[l]) /\ launch'[l].ids = <<>>
        /\ \A m \in Launchers : m # l => launch'[m] = launch[m]
    BY <1>2, LaunchSteps DEF Coming
  <2>3. DOMAIN launch'[l].ids = {}
    BY <2>2
  <2> QED
    BY <2>1, <2>2, <2>3, UnbornSame, UnbornKept
<1>3. ASSUME ProvisionFails(l) PROVE Unborn'
  <2>1. UNCHANGED unbornVars
    BY <1>3 DEF ProvisionFails, unbornVars, pastVars
  <2>2. /\ r.at = "provision" /\ ~Coming(launch'[l]) /\ launch'[l].ids = SubSeq(r.ids, 1, r.n)
        /\ \A m \in Launchers : m # l => launch'[m] = launch[m]
    BY <1>3, LaunchSteps DEF Coming
  <2>3. ASSUME NEW a \in DOMAIN launch'[l].ids
        PROVE  /\ a \in DOMAIN r.ids /\ launch'[l].ids[a] = r.ids[a]
               /\ inst[r.ids[a]] # "none"
    <3>1. a \in 1..r.n /\ a \in DOMAIN r.ids /\ launch'[l].ids[a] = r.ids[a]
      BY <1>0, <2>2, <2>3 DEF GoodLaunch
    <3>2. ~(a > r.n)
      BY <1>0, <3>1
    <3> QED
      BY <3>1, <3>2 DEF Unborn, ToCome
  <2> QED
    BY <2>1, <2>2, <2>3, UnbornSame, UnbornKept
<1>4. ASSUME RollbackInstance(l) PROVE Unborn'
  <2> DEFINE k == r.n + 1
             i == r.ids[k]
  <2>1. /\ r.at = "rollback" /\ ~Coming(launch'[l]) /\ ~Coming(r) /\ launch'[l].ids = r.ids
        /\ \A m \in Launchers : m # l => launch'[m] = launch[m]
    BY <1>4, LaunchSteps DEF Coming
  <2>2. k \in DOMAIN r.ids /\ i \in Insts
    BY <1>0, <1>4 DEF RollbackInstance
  <2>3. \A a \in DOMAIN r.ids : inst[r.ids[a]] # "none"
    BY <2>1 DEF Unborn, ToCome
  <2>4. inst' = [inst EXCEPT ![i] = "gone"] /\ vol' = vol /\ owned' = owned /\ del' = del
    BY <1>4 DEF RollbackInstance, pastVars
  <2>5. inst[i] # "none"
    BY <2>2, <2>3
  <2>6. \A j \in Insts : inst'[j] = "none" <=> inst[j] = "none"
    BY <2>2, <2>4, <2>5 DEF Types, InstType
  <2>7. \A j \in Insts : Unused(j) => Unused(j)'
    BY <2>4 DEF Unused
  <2>8. \A d \in Deleters : del'[d] # NoVol => vol'[del'[d]].state # "none"
    BY <2>4 DEF Unborn, Deletable
  <2> HIDE DEF k, i
  <2> QED
    BY <2>1, <2>3, <2>6, <2>7, <2>8, UnbornKept
<1>5. ASSUME NEW v \in Vols, DeleteInstanceVolume(l, v) PROVE Unborn'
  <2>1. /\ r.at = "delete" /\ ~Coming(launch'[l]) /\ ~Coming(r) /\ launch'[l].ids = r.ids
        /\ \A m \in Launchers : m # l => launch'[m] = launch[m]
    BY <1>5, LaunchSteps DEF Coming
  <2>2. \A a \in DOMAIN r.ids : inst[r.ids[a]] # "none"
    BY <2>1 DEF Unborn, ToCome
  <2>3. inst' = inst /\ owned' = owned /\ del' = del
    BY <1>5 DEF DeleteInstanceVolume
  <2>4. \/ vol' = vol
        \/ /\ vol' = [vol EXCEPT ![v] = DeletedVolume]
           /\ vol[v].to = r.ids[r.n + 1]
    BY <1>5 DEF DeleteInstanceVolume
  <2>5. r.n + 1 \in DOMAIN r.ids
    BY <1>0, <2>1 DEF GoodLaunch
  <2>6. r.ids[r.n + 1] \in Insts
    BY <1>0, <2>5
  <2>7. vol[v] # NoVolume \/ vol' = vol
    BY <2>4, <2>6, Basics, VolumeTypes
  <2>8. \A j \in Insts : Unused(j) => Unused(j)'
    BY <2>3, <2>4, <2>7, Basics DEF Unused, Types, VolType
  <2>9. \A d \in Deleters : del'[d] # NoVol => vol'[del'[d]].state # "none"
    BY <2>3, <2>4, VolumeTypes DEF Unborn, Deletable, Types, VolType, AttachType
  <2> QED
    BY <2>1, <2>2, <2>3, <2>8, <2>9, UnbornKept
<1>6. ASSUME NextRollback(l) PROVE Unborn'
  <2>1. /\ r.at = "delete" /\ ~Coming(launch'[l]) /\ ~Coming(r) /\ launch'[l].ids = r.ids
        /\ \A m \in Launchers : m # l => launch'[m] = launch[m]
    BY <1>6, LaunchSteps DEF Coming
  <2>2. \A a \in DOMAIN r.ids : inst[r.ids[a]] # "none"
    BY <2>1 DEF Unborn, ToCome
  <2>3. UNCHANGED unbornVars
    BY <1>6 DEF NextRollback, unbornVars, pastVars
  <2> QED
    BY <2>1, <2>2, <2>3, UnbornSame, UnbornKept
<1>7. ASSUME FailLaunch(l) \/ FinishLaunch(l) PROVE Unborn'
  <2>1. \A m \in Launchers :
          \/ launch'[m] = launch[m]
          \/ launch'[m].at = "idle" /\ launch'[m].ids = <<>>
    BY <1>7, LaunchSteps
  <2>2. \A m \in Launchers :
          \/ launch'[m] = launch[m]
          \/ ~Coming(launch'[m]) /\ DOMAIN launch'[m].ids = {}
    BY <2>1 DEF Coming
  <2>3. UNCHANGED unbornVars
    BY <1>7 DEF FailLaunch, FinishLaunch, unbornVars, pastVars
  <2> QED
    BY <2>2, <2>3, UnbornSame, UnbornKept
<1> QED
  BY <1>1, <1>2, <1>3, <1>4, <1>5, <1>6, <1>7, UnbornProvision, UnbornMaterialize DEF LaunchStep

\* The steps of terminations and of volumes.
LEMMA UnbornOther ==
    ASSUME Types, Types', Unborn, launch' = launch,
           \/ \E i \in Insts : Stop(i) \/ Start(i)
           \/ \E c \in Terminators :
                TerminateStep(c) \/ \E ids \in Batches : TerminateInstances(c, ids)
           \/ \E v \in UserVols : CreateVolume(v)
           \/ \E v \in Vols : DetachVolume(v)
           \/ \E d \in Deleters : RemoveVolume(d) \/ \E v \in Vols : DeleteVolume(d, v)
           \/ \E a \in Attachers :
                MarkAttached(a) \/ \E v \in Vols, i \in Insts : AttachVolume(a, v, i)
    PROVE  Unborn'
<1>1. CASE UNCHANGED unbornVars
  BY <1>1, UnbornSame, UnbornKept
<1>2. ASSUME UNCHANGED <<vol, owned, del>>,
             NEW i \in Insts, inst[i] # "none", NEW s \in States, s # "none",
             inst' = [inst EXCEPT ![i] = s]
      PROVE  Unborn'
  <2>1. \A j \in Insts : inst'[j] = "none" <=> inst[j] = "none"
    BY <1>2 DEF Types, InstType
  <2>2. \A j \in Insts : Unused(j) => Unused(j)'
    BY <1>2 DEF Unused
  <2>3. \A d \in Deleters : del'[d] # NoVol => vol'[del'[d]].state # "none"
    BY <1>2 DEF Unborn, Deletable
  <2> QED
    BY <2>1, <2>2, <2>3, UnbornKept
<1>3. ASSUME inst' = inst, NEW v \in Vols, vol' = [vol EXCEPT ![v] = vol'[v]],
             vol'[v].state # "none", v \in Insts => vol[v].state # "none",
             owned' \in {owned, owned \union {v}},
             \A d \in Deleters : del'[d] \in {NoVol, del[d]}
      PROVE  Unborn'
  <2>1. ASSUME NEW j \in Insts, Unused(j) PROVE Unused(j)'
    <3>1. j # v
      BY <1>3, <2>1, VolumeTypes DEF Unused
    <3> QED
      BY <1>3, <2>1, <3>1, Basics DEF Unused, Types, VolType
  <2>2. \A d \in Deleters : del'[d] # NoVol => vol'[del'[d]].state # "none"
    BY <1>3 DEF Unborn, Deletable, Types, VolType, AttachType
  <2> QED
    BY <1>3, <2>1, <2>2, UnbornKept
<1>4. ASSUME NEW i \in Insts, Stop(i) \/ Start(i) PROVE Unborn'
  BY <1>2, <1>4 DEF Stop, Start, States, pastVars
<1>5. ASSUME NEW c \in Terminators,
             TerminateStep(c) \/ \E ids \in Batches : TerminateInstances(c, ids)
      PROVE  Unborn'
  <2>1. ASSUME TerminateOne(c) PROVE Unborn'
    <3>1. CASE inst' = inst
      BY <1>1, <2>1, <3>1 DEF TerminateOne, unbornVars
    <3> DEFINE i == term[c].ids[term[c].n + 1]
    <3>2. CASE inst[i] \in {"running", "stopped"} /\ inst' = [inst EXCEPT ![i] = "terminated"]
      <4>1. i \in Insts /\ UNCHANGED <<vol, owned, del>>
        BY <2>1, Fields DEF TerminateOne
      <4> HIDE DEF i
      <4> QED
        BY <1>2, <3>2, <4>1 DEF States
    <3> QED
      BY <2>1, <3>1, <3>2 DEF TerminateOne
  <2>2. ASSUME NEW v \in Vols, ReleaseVolume(c, v) PROVE Unborn'
    <3>1. CASE vol' = vol
      BY <1>1, <2>2, <3>1 DEF ReleaseVolume, unbornVars, pastVars
    <3>2. CASE /\ vol[v].to \in ToSet(term[c].ids)
               /\ vol' = [vol EXCEPT ![v] = IF @.delOnTerm THEN DeletedVolume ELSE FreeVolume]
      <4>1. vol'[v] \in {DeletedVolume, FreeVolume}
        BY <3>2 DEF Types, VolType
      <4>2. vol[v].to \in Insts
        BY <3>2, Fields DEF ToSet
      <4>3. vol[v].state = "in-use"
        BY <4>2, Basics DEF Types, VolType
      <4>4. vol' = [vol EXCEPT ![v] = vol'[v]]
        BY <3>2 DEF Types, VolType
      <4> QED
        BY <1>3, <2>2, <4>1, <4>3, <4>4, VolumeTypes DEF ReleaseVolume, pastVars
    <3> QED
      BY <2>2, <3>1, <3>2 DEF ReleaseVolume
  <2> QED
    BY <1>1, <1>5, <2>1, <2>2
       DEF TerminateStep, TerminateInstances, ListVolumes, ReleaseDone, Emit, unbornVars, pastVars
<1>6. ASSUME NEW v \in UserVols, CreateVolume(v) PROVE Unborn'
  <2>1. v \in Vols /\ v \notin Insts
    BY Basics
  <2> QED
    BY <1>3, <1>6, <2>1, VolumeTypes DEF CreateVolume, Types, VolType
<1>7. ASSUME NEW v \in Vols, DetachVolume(v) PROVE Unborn'
  BY <1>3, <1>7, VolumeTypes DEF DetachVolume, Types, VolType
<1>8. ASSUME NEW d \in Deleters, RemoveVolume(d) PROVE Unborn'
  <2>1. PICK v \in Vols : v = del[d]
    BY <1>8 DEF RemoveVolume, Types, AttachType
  <2>2. vol[v].state # "none"
    BY <1>8, <2>1 DEF RemoveVolume, Unborn, Deletable
  <2> QED
    BY <1>3, <1>8, <2>1, <2>2, VolumeTypes DEF RemoveVolume, Types, VolType, AttachType
<1>9. ASSUME NEW d \in Deleters, NEW v \in Vols, DeleteVolume(d, v) PROVE Unborn'
  <2>1. UNCHANGED <<inst, vol, owned>>
    BY <1>9 DEF DeleteVolume, pastVars
  <2>2. \A e \in Deleters : del'[e] # NoVol => vol'[del'[e]].state # "none"
    BY <1>9 DEF DeleteVolume, Stored, Unborn, Deletable, Types, AttachType
  <2> QED
    BY <2>1, <2>2, UnbornKept DEF Unused
<1>10. ASSUME NEW a \in Attachers, MarkAttached(a) PROVE Unborn'
  <2>1. CASE vol' = vol
    BY <1>1, <1>10, <2>1 DEF MarkAttached, unbornVars
  <2>2. CASE vol' # vol
    <3>1. PICK v \in Vols : v = attach[a].v
      BY <1>10 DEF MarkAttached, Types, AttachType
    <3>2. /\ vol[v].state = "available" /\ vol'[v].state = "in-use"
          /\ vol' = [vol EXCEPT ![v] = vol'[v]]
      BY <1>10, <2>2, <3>1 DEF MarkAttached, Types, VolType
    <3> QED
      BY <1>3, <1>10, <3>2 DEF MarkAttached
  <2> QED
    BY <2>1, <2>2
<1> QED
  BY <1>1, <1>4, <1>5, <1>6, <1>7, <1>8, <1>9, <1>10 DEF AttachVolume, unbornVars, pastVars

LEMMA UnbornNext == Types /\ Types' /\ Unborn /\ [Next]_vars => Unborn'
<1> SUFFICES ASSUME Types, Types', Unborn, [Next]_vars PROVE Unborn'
  OBVIOUS
<1>1. CASE \E l \in Launchers :
         \/ \E ids \in Launches, t \in Tokens \union {NoToken} : StartLaunch(l, t, ids)
         \/ \E t \in Tokens : ReplayLaunch(l, t) \/ WaitForLaunch(l, t)
         \/ LaunchStep(l)
  BY <1>1, UnbornStart, UnbornLaunch
<1>2. CASE UNCHANGED vars
  <2>1. UNCHANGED unbornVars /\ launch' = launch
    BY <1>2 DEF vars, unbornVars, launchVars, pastVars
  <2> QED
    BY <2>1, UnbornSame, UnbornKept
<1>3. ASSUME \/ \E i \in Insts : Stop(i) \/ Start(i)
             \/ \E c \in Terminators :
                  TerminateStep(c) \/ \E ids \in Batches : TerminateInstances(c, ids)
             \/ \E v \in UserVols : CreateVolume(v)
             \/ \E v \in Vols : DetachVolume(v)
             \/ \E d \in Deleters : RemoveVolume(d) \/ \E v \in Vols : DeleteVolume(d, v)
             \/ \E a \in Attachers :
                  MarkAttached(a) \/ \E v \in Vols, i \in Insts : AttachVolume(a, v, i)
      PROVE  Unborn'
  <2>1. launch' = launch
    BY <1>3 DEF Stop, Start, TerminateStep, TerminateInstances, TerminateOne, ListVolumes,
                ReleaseVolume, ReleaseDone, Emit, CreateVolume, DetachVolume, RemoveVolume,
                DeleteVolume, MarkAttached, AttachVolume, launchVars
  <2> QED
    BY <1>3, <2>1, UnbornOther
<1> QED
  BY <1>1, <1>2, <1>3 DEF Next

\* What the steps of a launch and of a termination leave alone.
LEMMA LaunchLeaves ==
    ASSUME NEW l \in Launchers,
           \/ \E ids \in Launches, t \in Tokens \union {NoToken} : StartLaunch(l, t, ids)
           \/ \E t \in Tokens : ReplayLaunch(l, t) \/ WaitForLaunch(l, t)
           \/ LaunchStep(l)
    PROVE  UNCHANGED <<term, attach, del, events>>
BY DEF StartLaunch, ReplayLaunch, WaitForLaunch, LaunchStep, Provision, ProvisionFails,
       MaterializeInstanceVolumes, RollbackInstance, DeleteInstanceVolume, NextRollback,
       FailLaunch, FinishLaunch

LEMMA TerminateLeaves ==
    ASSUME NEW c \in Terminators,
           TerminateStep(c) \/ \E ids \in Batches : TerminateInstances(c, ids)
    PROVE  UNCHANGED <<launchVars, attach, del>>
BY DEF TerminateStep, TerminateInstances, TerminateOne, ListVolumes, ReleaseVolume, ReleaseDone, Emit

(***************************************************************************)
(* What a step does to a volume                                            *)
(***************************************************************************)

\* The kinds of steps a volume v sees.
Put(v) ==
    /\ \E l \in Launchers : launch[l].at = "volumes" /\ launch[l].ids[launch[l].n] = v
    /\ v \in Insts /\ vol'[v].state = "in-use" /\ vol'[v].to = v
    /\ stale' = IF Dead(v) THEN stale \union {v} ELSE stale
    /\ UNCHANGED <<owned, asked, rolled>>
TakenBack(v) ==
    /\ vol[v].state = "in-use" /\ vol'[v] = DeletedVolume
    /\ rolled' = rolled \union {v}
    /\ UNCHANGED <<owned, asked, stale>>
Released(v) ==
    /\ vol[v].state = "in-use"
    /\ vol'[v] = IF vol[v].delOnTerm THEN DeletedVolume ELSE FreeVolume
    /\ UNCHANGED <<owned, asked, rolled, stale>>
Freed(v) ==
    /\ vol'[v] = FreeVolume /\ owned' = owned \union {v}
    /\ UNCHANGED <<asked, rolled, stale>>
Removed(v) ==
    /\ \E d \in Deleters : del[d] = v
    /\ vol'[v] = DeletedVolume /\ asked' = asked \union {v}
    /\ UNCHANGED <<owned, rolled, stale>>
Attached(v) ==
    /\ vol[v].state = "available"
    /\ \E i \in Insts :
         /\ vol'[v] = [state |-> "in-use", to |-> i, delOnTerm |-> vol[v].delOnTerm]
         /\ stale' = IF Dead(i) THEN stale \union {i} ELSE stale
    /\ UNCHANGED <<owned, asked, rolled>>

\* Every step changes one volume at most, and in one of these ways.
VolumeStep ==
    \/ UNCHANGED <<vol, owned, asked, rolled, stale>>
    \/ \E v \in Vols :
         /\ \A w \in Vols : w # v => vol'[w] = vol[w]
         /\ Put(v) \/ TakenBack(v) \/ Released(v) \/ Freed(v) \/ Removed(v) \/ Attached(v)

LEMMA VolumeSteps == Types /\ Types' /\ [Next]_vars => VolumeStep
<1> SUFFICES ASSUME Types, Types', [Next]_vars PROVE VolumeStep
  OBVIOUS
<1>0. vol \in [Vols -> Volume]
  BY DEF Types, VolType
<1>1. ASSUME NEW l \in Launchers, NEW b \in BOOLEAN, MaterializeInstanceVolumes(l, b)
      PROVE  VolumeStep
  <2>1. /\ launch[l].at = "volumes" /\ launch[l].n \in DOMAIN launch[l].ids
        /\ launch[l].ids[launch[l].n] \in Insts
    BY <1>1, Fields DEF MaterializeInstanceVolumes, GoodLaunch
  <2>2. PICK v \in Insts : v = launch[l].ids[launch[l].n]
    BY <2>1
  <2>3. /\ v \in Vols /\ vol' = [vol EXCEPT ![v] = [state |-> "in-use", to |-> v, delOnTerm |-> b]]
        /\ stale' = IF Dead(v) THEN stale \union {v} ELSE stale
    BY <1>1, <2>2, Basics DEF MaterializeInstanceVolumes
  <2>4. vol'[v].state = "in-use" /\ vol'[v].to = v /\ \A w \in Vols : w # v => vol'[w] = vol[w]
    BY <1>0, <2>3
  <2>5. Put(v)
    BY <1>1, <2>1, <2>2, <2>3, <2>4 DEF MaterializeInstanceVolumes, Put
  <2> QED
    BY <2>3, <2>4, <2>5 DEF VolumeStep
<1>2. ASSUME NEW l \in Launchers, NEW v \in Vols, DeleteInstanceVolume(l, v) PROVE VolumeStep
  <2>1. CASE vol' = vol /\ rolled' = rolled
    BY <1>2, <2>1 DEF DeleteInstanceVolume, VolumeStep
  <2>2. CASE /\ vol[v].to = launch[l].ids[launch[l].n + 1]
             /\ vol' = [vol EXCEPT ![v] = DeletedVolume] /\ rolled' = rolled \union {v}
    <3>1. launch[l].n + 1 \in DOMAIN launch[l].ids
      BY <1>2, Fields DEF DeleteInstanceVolume, GoodLaunch
    <3>2. vol[v].to \in Insts
      BY <2>2, <3>1, Fields
    <3>3. vol[v].state = "in-use"
      BY <3>2, Basics DEF Types, VolType
    <3>4. TakenBack(v) /\ \A w \in Vols : w # v => vol'[w] = vol[w]
      BY <1>0, <1>2, <2>2, <3>3 DEF DeleteInstanceVolume, TakenBack
    <3> QED
      BY <3>4 DEF VolumeStep
  <2> QED
    BY <1>2, <2>1, <2>2 DEF DeleteInstanceVolume
<1>3. ASSUME NEW c \in Terminators, NEW v \in Vols, ReleaseVolume(c, v) PROVE VolumeStep
  <2>1. CASE vol' = vol
    BY <1>3, <2>1 DEF ReleaseVolume, VolumeStep, pastVars
  <2>2. CASE /\ vol[v].to \in ToSet(term[c].ids)
             /\ vol' = [vol EXCEPT ![v] = IF @.delOnTerm THEN DeletedVolume ELSE FreeVolume]
    <3>1. vol[v].to \in Insts
      BY <2>2, Fields DEF ToSet
    <3>2. vol[v].state = "in-use"
      BY <3>1, Basics DEF Types, VolType
    <3>3. Released(v) /\ \A w \in Vols : w # v => vol'[w] = vol[w]
      BY <1>0, <1>3, <2>2, <3>2 DEF ReleaseVolume, Released, pastVars
    <3> QED
      BY <3>3 DEF VolumeStep
  <2> QED
    BY <1>3, <2>1, <2>2 DEF ReleaseVolume
<1>4. ASSUME NEW v \in Vols, CreateVolume(v) \/ DetachVolume(v) PROVE VolumeStep
  <2>1. Freed(v) /\ \A w \in Vols : w # v => vol'[w] = vol[w]
    BY <1>0, <1>4 DEF CreateVolume, DetachVolume, Freed
  <2> QED
    BY <2>1 DEF VolumeStep
<1>5. ASSUME NEW d \in Deleters, RemoveVolume(d) PROVE VolumeStep
  <2>1. PICK v \in Vols : v = del[d]
    BY <1>5 DEF RemoveVolume, Types, AttachType
  <2>2. Removed(v) /\ \A w \in Vols : w # v => vol'[w] = vol[w]
    BY <1>0, <1>5, <2>1 DEF RemoveVolume, Removed
  <2> QED
    BY <2>2 DEF VolumeStep
<1>6. ASSUME NEW a \in Attachers, MarkAttached(a) PROVE VolumeStep
  <2>1. PICK v \in Vols, i \in Insts : v = attach[a].v /\ i = attach[a].i
    BY <1>6 DEF MarkAttached, Types, AttachType
  <2>2. CASE vol' = vol /\ stale' = stale
    BY <1>6, <2>2 DEF MarkAttached, VolumeStep
  <2>3. CASE /\ vol[v].state = "available"
             /\ vol' = [vol EXCEPT ![v] = [state |-> "in-use", to |-> i, delOnTerm |-> @.delOnTerm]]
             /\ stale' = IF Dead(i) THEN stale \union {i} ELSE stale
    <3>1. Attached(v) /\ \A w \in Vols : w # v => vol'[w] = vol[w]
      BY <1>0, <1>6, <2>3 DEF MarkAttached, Attached
    <3> QED
      BY <3>1 DEF VolumeStep
  <2> QED
    BY <1>6, <2>1, <2>2, <2>3 DEF MarkAttached
<1>7. CASE UNCHANGED <<vol, owned, asked, rolled, stale>>
  BY <1>7 DEF VolumeStep
<1>8. ASSUME NEW l \in Launchers,
             \/ \E ids \in Launches, t \in Tokens \union {NoToken} : StartLaunch(l, t, ids)
             \/ \E t \in Tokens : ReplayLaunch(l, t) \/ WaitForLaunch(l, t)
             \/ LaunchStep(l)
      PROVE  VolumeStep
  BY <1>1, <1>2, <1>7, <1>8
     DEF StartLaunch, ReplayLaunch, WaitForLaunch, LaunchStep, Provision, ProvisionFails,
         RollbackInstance, NextRollback, FailLaunch, FinishLaunch, pastVars
<1>9. ASSUME NEW c \in Terminators,
             TerminateStep(c) \/ \E ids \in Batches : TerminateInstances(c, ids)
      PROVE  VolumeStep
  BY <1>3, <1>7, <1>9
     DEF TerminateStep, TerminateInstances, TerminateOne, ListVolumes, ReleaseDone, Emit, pastVars
<1>10. CASE \E i \in Insts : Stop(i) \/ Start(i)
  BY <1>7, <1>10 DEF Stop, Start, pastVars
<1>11. CASE \E d \in Deleters, v \in Vols : DeleteVolume(d, v)
  BY <1>7, <1>11 DEF DeleteVolume, pastVars
<1>12. CASE \E a \in Attachers, v \in Vols, i \in Insts : AttachVolume(a, v, i)
  BY <1>7, <1>12 DEF AttachVolume, pastVars
<1>13. CASE UNCHANGED vars
  BY <1>7, <1>13 DEF vars, pastVars
<1> QED
  BY <1>4, <1>5, <1>6, <1>8, <1>9, <1>10, <1>11, <1>12, <1>13, Basics DEF Next

(***************************************************************************)
(* Volumes that clients own, and volumes that are deleted                  *)
(***************************************************************************)

\* A volume its client freed is not deleted with an instance.
Kept == \A v \in owned : /\ ~vol[v].delOnTerm
                         /\ vol[v].state = "deleted" => v \in asked \union rolled

LEMMA KeptNext == Types /\ Types' /\ Unborn /\ Kept /\ [Next]_vars => Kept'
<1> SUFFICES ASSUME Types, Types', Unborn, Kept, VolumeStep PROVE Kept'
  BY VolumeSteps
<1>0. owned \subseteq Vols
  BY DEF Types, PastType
<1>1. CASE UNCHANGED <<vol, owned, asked, rolled, stale>>
  BY <1>1 DEF Kept
<1>2. ASSUME NEW v \in Vols, \A w \in Vols : w # v => vol'[w] = vol[w],
             Put(v) \/ TakenBack(v) \/ Released(v) \/ Freed(v) \/ Removed(v) \/ Attached(v)
      PROVE  Kept'
  <2>1. owned' \subseteq owned \union {v} /\ asked \subseteq asked' /\ rolled \subseteq rolled'
    BY <1>2 DEF Put, TakenBack, Released, Freed, Removed, Attached
  <2>2. v \in owned' => ~vol'[v].delOnTerm /\ (vol'[v].state = "deleted" => v \in asked' \union rolled')
    <3>1. CASE Put(v)
      BY <3>1 DEF Put, Unborn, Unlaunched, Unused
    <3>2. CASE TakenBack(v)
      BY <3>2 DEF TakenBack, DeletedVolume
    <3>3. CASE Released(v)
      BY <3>3 DEF Released, Kept, FreeVolume
    <3>4. CASE Freed(v)
      BY <3>4 DEF Freed, FreeVolume
    <3>5. CASE Removed(v)
      BY <3>5 DEF Removed, DeletedVolume
    <3>6. CASE Attached(v)
      <4>1. owned' = owned /\ vol'[v].state = "in-use" /\ vol'[v].delOnTerm = vol[v].delOnTerm
        BY <3>6 DEF Attached
      <4> QED
        BY <4>1 DEF Kept
    <3> QED
      BY <1>2, <3>1, <3>2, <3>3, <3>4, <3>5, <3>6
  <2>3. \A w \in owned' : w # v =>
          ~vol'[w].delOnTerm /\ (vol'[w].state = "deleted" => w \in asked' \union rolled')
    BY <1>0, <1>2, <2>1 DEF Kept
  <2> QED
    BY <2>2, <2>3 DEF Kept
<1> QED
  BY <1>1, <1>2 DEF VolumeStep

\* Whatever runs at once, a volume that a client created or detached is deleted
\* by a client only, or with an instance a rollback takes back.
THEOREM DetachedSurvive == Spec => []DetachedVolumeSurvives
<1>1. Init => Types /\ Unborn /\ Kept
  BY TypesInit, UnbornInit DEF Init, Kept
<1>2. Types /\ Unborn /\ Kept /\ [Next]_vars => Types' /\ Unborn' /\ Kept'
  BY TypesNext, UnbornNext, KeptNext
<1>3. Kept => DetachedVolumeSurvives
  BY DEF Kept, DetachedVolumeSurvives
<1> QED
  BY <1>1, <1>2, <1>3, PTL DEF Spec

(***************************************************************************)
(* Volumes of instances that end                                           *)
(***************************************************************************)

\* A termination, or a rollback, that will settle the volume v ...
ByTerm(c, v) ==
    /\ vol[v].to \in term[c].changed
    /\ term[c].at = "change" \/ (term[c].at = "release" /\ v \in term[c].todo)
ByLaunch(l, v) ==
    /\ launch[l].at = "delete" /\ v \in launch[l].todo
    /\ launch[l].ids[launch[l].n + 1] = vol[v].to

\* ... and a termination that is past v.
Late(c, v) ==
    /\ vol[v].to \in term[c].changed /\ term[c].at \in {"release", "emit"}
    /\ ~(term[c].at = "release" /\ v \in term[c].todo)

\* A volume of an instance that is not set aside: if the instance ended, someone
\* will settle it, and no one who should have has passed it by.
VolSettled(v) ==
    vol[v].to \in Insts /\ vol[v].to \notin stale \union failed =>
        /\ Dead(vol[v].to) => (\E c \in Terminators : ByTerm(c, v)) \/ (\E l \in Launchers : ByLaunch(l, v))
        /\ vol[v].to \notin events
        /\ \A c \in Terminators : ~Late(c, v)

\* What is terminated, or published as terminated, has ended.
Ended == /\ \A i \in events : Dead(i)
         /\ \A c \in Terminators : \A i \in term[c].changed : Dead(i)

Settled == Ended /\ \A v \in Vols : VolSettled(v)

LEMMA SettledInit == Init => Settled
<1> SUFFICES ASSUME Init PROVE Settled
  OBVIOUS
<1>1. \A v \in Vols : vol[v].to = NoInst
  BY DEF Init, NoVolume
<1>2. \A c \in Terminators : term[c].changed = {}
  BY DEF Init, IdleTerm
<1> QED
  BY <1>1, <1>2, Basics DEF Init, Settled, Ended, VolSettled

LEMMA SettledMeans == Types /\ Settled => ReleasedUnlessRaced
<1> SUFFICES ASSUME Types, Settled, NEW v \in Vols, Dead(vol[v].to),
                    vol[v].to \notin stale \union failed
             PROVE  Releasing(v) /\ vol[v].to \notin events
  BY DEF ReleasedUnlessRaced
<1>1. vol[v].to \in Insts
  BY DEF Dead, Types, VolType, Volume
<1>2. VolSettled(v)
  BY DEF Settled
<1> QED
  BY <1>1, <1>2 DEF VolSettled, ByTerm, ByLaunch, Releasing

\* A step that leaves a volume where it is, ends no instance of it, and lets
\* those who will settle it go on.
LEMMA SettledStays ==
    ASSUME Types, Settled, NEW v \in Vols, vol'[v] = vol[v],
           stale \subseteq stale', failed \subseteq failed',
           Dead(vol[v].to)' => Dead(vol[v].to),
           vol[v].to \in events' => vol[v].to \in events,
           \A c \in Terminators : ByTerm(c, v) => ByTerm(c, v)',
           \A c \in Terminators : Late(c, v)' => Late(c, v),
           \A l \in Launchers : ByLaunch(l, v) => ByLaunch(l, v)'
    PROVE  VolSettled(v)'
BY DEF Settled, VolSettled

\* One that puts it elsewhere: on an instance that has not ended, or is set aside.
LEMMA SettledMoves ==
    ASSUME Types, Settled, NEW v \in Vols, UNCHANGED <<inst, term, events>>,
           \/ vol'[v].to = NoInst
           \/ \E i \in Insts :
                vol'[v].to = i /\ stale' = IF Dead(i) THEN stale \union {i} ELSE stale
    PROVE  VolSettled(v)'
<1>1. CASE vol'[v].to = NoInst
  BY <1>1, Basics DEF VolSettled
<1>2. ASSUME NEW i \in Insts, vol'[v].to = i, stale' = IF Dead(i) THEN stale \union {i} ELSE stale
      PROVE  VolSettled(v)'
  <2>1. CASE Dead(i)
    BY <1>2, <2>1 DEF VolSettled
  <2>2. CASE ~Dead(i)
    <3>1. ~Dead(i)' /\ i \notin events' /\ \A c \in Terminators : i \notin term'[c].changed
      BY <2>2 DEF Dead, Settled, Ended
    <3> QED
      BY <1>2, <3>1 DEF VolSettled, Late
  <2> QED
    BY <2>1, <2>2
<1> QED
  BY <1>1, <1>2

\* What has ended never comes back.
LEMMA DeadStays ==
    ASSUME Types, Unborn, [Next]_vars, NEW i \in Insts, Dead(i)
    PROVE  Dead(i)'
<1>0. inst \in [Insts -> States]
  BY DEF Types, InstType
<1>1. CASE inst' = inst
  BY <1>1 DEF Dead
<1>2. ASSUME NEW l \in Launchers, Provision(l) PROVE Dead(i)'
  <2>1. launch[l].at = "provision" /\ launch[l].n + 1 \in DOMAIN launch[l].ids
    BY <1>2, Fields DEF Provision, GoodLaunch
  <2>2. launch[l].n + 1 > launch[l].n
    BY Fields
  <2>3. inst[launch[l].ids[launch[l].n + 1]] = "none"
    BY <2>1, <2>2 DEF Unborn, ToCome, Coming
  <2> QED
    BY <1>0, <1>2, <2>3 DEF Provision, Dead
<1>3. ASSUME NEW l \in Launchers, RollbackInstance(l) PROVE Dead(i)'
  BY <1>0, <1>3 DEF RollbackInstance, Dead
<1>4. ASSUME NEW j \in Insts, Stop(j) \/ Start(j) PROVE Dead(i)'
  BY <1>0, <1>4 DEF Stop, Start, Dead
<1>5. ASSUME NEW c \in Terminators, TerminateOne(c) PROVE Dead(i)'
  BY <1>0, <1>1, <1>5 DEF TerminateOne, Dead
<1> QED
  BY <1>1, <1>2, <1>3, <1>4, <1>5
     DEF Next, vars, StartLaunch, ReplayLaunch, WaitForLaunch, LaunchStep,
         ProvisionFails, MaterializeInstanceVolumes, DeleteInstanceVolume,
         NextRollback, FailLaunch, FinishLaunch, TerminateStep, TerminateInstances,
         ListVolumes, ReleaseVolume, ReleaseDone, Emit, CreateVolume, DetachVolume,
         RemoveVolume, DeleteVolume, MarkAttached, AttachVolume

\* How a termination's record changes.
LEMMA TermSteps ==
    ASSUME Types, NEW c \in Terminators
    PROVE  /\ \A ids \in Batches : TerminateInstances(c, ids) =>
                /\ term[c].at = "idle" /\ term'[c].at = "change" /\ term'[c].changed = {}
                /\ \A e \in Terminators : e # c => term'[e] = term[e]
           /\ TerminateOne(c) =>
                /\ term[c].at = "change" /\ term[c].ids[term[c].n + 1] \in Insts
                /\ \/ /\ term'[c].at = "change"
                      /\ term'[c].changed = term[c].changed \union {term[c].ids[term[c].n + 1]}
                      /\ inst' = [inst EXCEPT ![term[c].ids[term[c].n + 1]] = "terminated"]
                      /\ failed' = failed
                   \/ /\ term'[c].at = "emit" /\ term'[c].changed = term[c].changed
                      /\ inst' = inst /\ failed' = failed \union term[c].changed
                /\ \A e \in Terminators : e # c => term'[e] = term[e]
           /\ ListVolumes(c) =>
                /\ term[c].at = "change" /\ term'[c].at = "release"
                /\ term'[c].changed = term[c].changed
                /\ term'[c].todo = {v \in Vols : Stored(v)}
                /\ \A e \in Terminators : e # c => term'[e] = term[e]
           /\ \A v \in Vols : ReleaseVolume(c, v) =>
                /\ term[c].at = "release" /\ term'[c].at = "release"
                /\ term'[c].changed = term[c].changed /\ term'[c].todo = term[c].todo \ {v}
                /\ \A e \in Terminators : e # c => term'[e] = term[e]
           /\ ReleaseDone(c) =>
                /\ term[c].at = "release" /\ term[c].todo = {} /\ term'[c].at = "emit"
                /\ term'[c].changed = term[c].changed
                /\ \A e \in Terminators : e # c => term'[e] = term[e]
           /\ Emit(c) =>
                /\ term[c].at = "emit" /\ term'[c].at = "idle" /\ term'[c].changed = {}
                /\ \A e \in Terminators : e # c => term'[e] = term[e]
<1> DEFINE r == term[c]
<1>0. /\ term \in [Terminators -> TermRec] /\ r \in TermRec /\ r.n \in Nat
      /\ r.ids \in Seq(Insts) /\ Len(r.ids) \in Nat
  BY Fields DEF Types, TermType
<1>1. ASSUME NEW ids \in Batches, TerminateInstances(c, ids)
      PROVE  /\ r.at = "idle" /\ term'[c].at = "change" /\ term'[c].changed = {}
             /\ \A e \in Terminators : e # c => term'[e] = term[e]
  BY <1>0, <1>1 DEF TerminateInstances, IdleTerm
<1>2. ASSUME TerminateOne(c)
      PROVE  /\ r.at = "change" /\ r.ids[r.n + 1] \in Insts
             /\ \/ /\ term'[c].at = "change" /\ term'[c].changed = r.changed \union {r.ids[r.n + 1]}
                   /\ inst' = [inst EXCEPT ![r.ids[r.n + 1]] = "terminated"] /\ failed' = failed
                \/ /\ term'[c].at = "emit" /\ term'[c].changed = r.changed
                   /\ inst' = inst /\ failed' = failed \union r.changed
             /\ \A e \in Terminators : e # c => term'[e] = term[e]
  <2> DEFINE k == r.n + 1
             i == r.ids[k]
  <2>1. r.at = "change" /\ i \in Insts
    BY <1>0, <1>2 DEF TerminateOne
  <2>2. \/ /\ term' = [term EXCEPT ![c] = [r EXCEPT !.n = k, !.changed = @ \union {i}]]
           /\ inst' = [inst EXCEPT ![i] = "terminated"] /\ failed' = failed
        \/ /\ term' = [term EXCEPT ![c] = [r EXCEPT !.at = "emit"]]
           /\ inst' = inst /\ failed' = failed \union r.changed
    BY <1>2 DEF TerminateOne
  <2> HIDE DEF k, i
  <2>3. CASE /\ term' = [term EXCEPT ![c] = [r EXCEPT !.n = k, !.changed = @ \union {i}]]
             /\ inst' = [inst EXCEPT ![i] = "terminated"] /\ failed' = failed
    <3>1. /\ term'[c].at = "change" /\ term'[c].changed = r.changed \union {i}
          /\ \A e \in Terminators : e # c => term'[e] = term[e]
      BY <1>0, <2>1, <2>3 DEF TermRec
    <3> QED
      BY <2>1, <2>3, <3>1 DEF k, i
  <2>4. CASE /\ term' = [term EXCEPT ![c] = [r EXCEPT !.at = "emit"]]
             /\ inst' = inst /\ failed' = failed \union r.changed
    <3>1. /\ term'[c].at = "emit" /\ term'[c].changed = r.changed
          /\ \A e \in Terminators : e # c => term'[e] = term[e]
      BY <1>0, <2>4 DEF TermRec
    <3> QED
      BY <2>1, <2>4, <3>1 DEF k, i
  <2> QED
    BY <2>2, <2>3, <2>4
<1>3. ASSUME ListVolumes(c)
      PROVE  /\ r.at = "change" /\ term'[c].at = "release" /\ term'[c].changed = r.changed
             /\ term'[c].todo = {v \in Vols : Stored(v)}
             /\ \A e \in Terminators : e # c => term'[e] = term[e]
  BY <1>0, <1>3 DEF ListVolumes, TermRec
<1>4. ASSUME NEW v \in Vols, ReleaseVolume(c, v)
      PROVE  /\ r.at = "release" /\ term'[c].at = "release" /\ term'[c].changed = r.changed
             /\ term'[c].todo = r.todo \ {v}
             /\ \A e \in Terminators : e # c => term'[e] = term[e]
  BY <1>0, <1>4 DEF ReleaseVolume, TermRec
<1>5. ASSUME ReleaseDone(c)
      PROVE  /\ r.at = "release" /\ r.todo = {} /\ term'[c].at = "emit" /\ term'[c].changed = r.changed
             /\ \A e \in Terminators : e # c => term'[e] = term[e]
  BY <1>0, <1>5 DEF ReleaseDone, TermRec
<1>6. ASSUME Emit(c)
      PROVE  /\ r.at = "emit" /\ term'[c].at = "idle" /\ term'[c].changed = {}
             /\ \A e \in Terminators : e # c => term'[e] = term[e]
  BY <1>0, <1>6 DEF Emit, IdleTerm
<1> QED
  BY <1>1, <1>2, <1>3, <1>4, <1>5, <1>6

LEMMA EndedNext == Types /\ Unborn /\ Settled /\ [Next]_vars => Ended'
<1> SUFFICES ASSUME Types, Unborn, Settled, [Next]_vars PROVE Ended'
  OBVIOUS
<1>0. /\ events \subseteq Insts /\ \A c \in Terminators : term[c].changed \subseteq Insts
      /\ \A i \in events : Dead(i) /\ \A c \in Terminators : \A j \in term[c].changed : Dead(j)
  BY Fields DEF Types, PastType, TermRec, Settled, Ended
<1>1. \A i \in events : Dead(i)'
  BY <1>0, DeadStays
<1>2. ASSUME NEW c \in Terminators, NEW i \in term[c].changed PROVE Dead(i)'
  <2>1. i \in Insts /\ Dead(i)
    BY <1>2, Fields DEF TermRec, Settled, Ended
  <2> QED
    BY <2>1, DeadStays
<1>3. CASE events' = events /\ term' = term
  BY <1>1, <1>2, <1>3 DEF Ended
<1>4. ASSUME NEW c \in Terminators,
             TerminateStep(c) \/ \E ids \in Batches : TerminateInstances(c, ids)
      PROVE  Ended'
  <2>1. \/ events' = events
        \/ events' = events \union term[c].changed
    BY <1>4 DEF TerminateStep, TerminateInstances, TerminateOne, ListVolumes, ReleaseVolume,
                ReleaseDone, Emit
  <2>2. ASSUME NEW e \in Terminators, NEW i \in term'[e].changed PROVE Dead(i)'
    <3>1. CASE i \in term[e].changed
      BY <1>2, <3>1
    <3>2. CASE i \notin term[e].changed
      <4>1. TerminateOne(c) /\ e = c /\ i = term[c].ids[term[c].n + 1]
        BY <1>4, <2>2, <3>2, TermSteps DEF TerminateStep
      <4>2. i \in Insts /\ inst' = [inst EXCEPT ![i] = "terminated"]
        BY <2>2, <3>2, <4>1, TermSteps
      <4> QED
        BY <4>2, Basics DEF Dead, Types, InstType
    <3> QED
      BY <3>1, <3>2
  <2>3. \A i \in events' : Dead(i)'
    BY <1>1, <1>2, <2>1
  <2> QED
    BY <2>2, <2>3 DEF Ended
<1>5. CASE \E l \in Launchers :
         \/ \E ids \in Launches, t \in Tokens \union {NoToken} : StartLaunch(l, t, ids)
         \/ \E t \in Tokens : ReplayLaunch(l, t) \/ WaitForLaunch(l, t)
         \/ LaunchStep(l)
  BY <1>3, <1>5, LaunchLeaves
<1>6. CASE \/ \E i \in Insts : Stop(i) \/ Start(i)
           \/ \E v \in UserVols : CreateVolume(v)
           \/ \E v \in Vols : DetachVolume(v)
           \/ \E d \in Deleters : RemoveVolume(d) \/ \E v \in Vols : DeleteVolume(d, v)
           \/ \E a \in Attachers :
                MarkAttached(a) \/ \E v \in Vols, i \in Insts : AttachVolume(a, v, i)
  BY <1>3, <1>6 DEF Stop, Start, CreateVolume, DetachVolume, RemoveVolume, DeleteVolume,
                    MarkAttached, AttachVolume
<1>7. CASE UNCHANGED vars
  BY <1>3, <1>7 DEF vars
<1> QED
  BY <1>4, <1>5, <1>6, <1>7 DEF Next

\* A termination settles the volumes of the instances it ends before it
\* publishes their end.
LEMMA SettledTerminate ==
    ASSUME Types, Types', Settled, NEW c \in Terminators,
           TerminateStep(c) \/ \E ids \in Batches : TerminateInstances(c, ids),
           NEW v \in Vols
    PROVE  VolSettled(v)'
<1> DEFINE r == term[c]
           i == vol[v].to
<1>0. /\ launch' = launch /\ stale' = stale
  BY DEF TerminateStep, TerminateInstances, TerminateOne, ListVolumes, ReleaseVolume,
         ReleaseDone, Emit, launchVars, pastVars
<1>1. \A l \in Launchers : vol'[v] = vol[v] /\ ByLaunch(l, v) => ByLaunch(l, v)'
  BY <1>0 DEF ByLaunch
<1>2. ASSUME vol'[v] = vol[v], \A e \in Terminators : e # c => term'[e] = term[e]
      PROVE  \A e \in Terminators : e # c =>
               (ByTerm(e, v) => ByTerm(e, v)') /\ (Late(e, v)' => Late(e, v))
  BY <1>2 DEF ByTerm, Late
<1>3. r.changed \subseteq Insts
  BY Fields DEF TermRec
<1>4. ASSUME NEW ids \in Batches, TerminateInstances(c, ids) PROVE VolSettled(v)'
  <2>1. /\ vol' = vol /\ inst' = inst /\ events' = events /\ failed' = failed
    BY <1>4 DEF TerminateInstances, pastVars
  <2>2. /\ r.at = "idle" /\ term'[c].changed = {}
        /\ \A e \in Terminators : e # c => term'[e] = term[e]
    BY <1>4, TermSteps
  <2>3. ~ByTerm(c, v) /\ ~Late(c, v)'
    BY <2>2 DEF ByTerm, Late
  <2>4. Dead(i)' => Dead(i)
    BY <2>1 DEF Dead
  <2> QED
    BY <1>0, <1>1, <1>2, <2>1, <2>2, <2>3, <2>4, SettledStays
<1>5. ASSUME TerminateOne(c) PROVE VolSettled(v)'
  <2> DEFINE j == r.ids[r.n + 1]
  <2>1. vol' = vol /\ events' = events /\ vol'[v] = vol[v]
    BY <1>5 DEF TerminateOne
  <2>2. /\ r.at = "change" /\ j \in Insts
        /\ \A e \in Terminators : e # c => term'[e] = term[e]
    BY <1>5, TermSteps
  <2>3. CASE /\ term'[c].at = "change" /\ term'[c].changed = r.changed \union {j}
             /\ inst' = [inst EXCEPT ![j] = "terminated"] /\ failed' = failed
    <3>1. ~Late(c, v)' /\ (ByTerm(c, v) => ByTerm(c, v)')
      BY <2>1, <2>3 DEF Late, ByTerm
    <3>2. CASE i = j
      <4>1. ByTerm(c, v)'
        BY <2>1, <2>3, <3>2 DEF ByTerm
      <4>2. \A e \in Terminators : Late(e, v)' => Late(e, v)
        BY <1>2, <2>1, <2>2, <3>1
      <4>3. VolSettled(v)
        BY DEF Settled
      <4> QED
        BY <1>0, <2>1, <2>3, <4>1, <4>2, <4>3 DEF VolSettled
    <3>3. CASE i # j
      <4>1. Dead(i)' => Dead(i)
        BY <2>1, <2>2, <2>3, <3>3 DEF Dead, Types, InstType, VolType, Volume
      <4> QED
        BY <1>0, <1>1, <1>2, <2>1, <2>2, <2>3, <3>1, <4>1, SettledStays
    <3> QED
      BY <3>2, <3>3
  <2>4. CASE /\ term'[c].at = "emit" /\ term'[c].changed = r.changed
             /\ inst' = inst /\ failed' = failed \union r.changed
    <3>1. CASE i \in r.changed
      BY <2>1, <2>4, <3>1 DEF VolSettled
    <3>2. CASE i \notin r.changed
      <4>1. ~ByTerm(c, v) /\ ~Late(c, v)'
        BY <2>1, <2>4, <3>2 DEF ByTerm, Late
      <4>2. Dead(i)' => Dead(i)
        BY <2>1, <2>4 DEF Dead
      <4> QED
        BY <1>0, <1>1, <1>2, <2>1, <2>2, <2>4, <4>1, <4>2, SettledStays
    <3> QED
      BY <3>1, <3>2
  <2> QED
    BY <1>5, <2>3, <2>4, TermSteps
<1>6. ASSUME ListVolumes(c) PROVE VolSettled(v)'
  <2>1. vol' = vol /\ inst' = inst /\ events' = events /\ failed' = failed /\ vol'[v] = vol[v]
    BY <1>6 DEF ListVolumes, pastVars
  <2>2. /\ term'[c].at = "release" /\ term'[c].changed = r.changed
        /\ term'[c].todo = {w \in Vols : Stored(w)}
        /\ \A e \in Terminators : e # c => term'[e] = term[e]
    BY <1>6, TermSteps
  <2>3. i \in Insts => Stored(v)
    BY Basics DEF Stored, Types, VolType
  <2>4. ~Late(c, v)' /\ (ByTerm(c, v) => ByTerm(c, v)')
    BY <1>3, <2>1, <2>2, <2>3 DEF Late, ByTerm
  <2>5. Dead(i)' => Dead(i)
    BY <2>1 DEF Dead
  <2> QED
    BY <1>0, <1>1, <1>2, <2>1, <2>2, <2>4, <2>5, SettledStays
<1>7. ASSUME NEW w \in Vols, ReleaseVolume(c, w) PROVE VolSettled(v)'
  <2>1. /\ inst' = inst /\ events' = events /\ failed' = failed
        /\ w \in r.todo
        /\ \/ vol' = vol /\ vol[w].to \notin ToSet(r.ids)
           \/ vol' = [vol EXCEPT ![w] = IF @.delOnTerm THEN DeletedVolume ELSE FreeVolume]
    BY <1>7 DEF ReleaseVolume, pastVars
  <2>2. /\ r.at = "release" /\ term'[c].at = "release" /\ term'[c].changed = r.changed
        /\ term'[c].todo = r.todo \ {w}
        /\ \A e \in Terminators : e # c => term'[e] = term[e]
    BY <1>7, TermSteps
  <2>3. Dead(i)' => Dead(i)
    <3>1. inst' = inst
      BY <2>1
    <3>2. CASE vol'[v] = vol[v]
      BY <3>1, <3>2 DEF Dead
    <3>3. CASE vol'[v] # vol[v]
      <4>1. vol'[v] \in {DeletedVolume, FreeVolume}
        BY <2>1, <3>3 DEF Types, VolType
      <4> QED
        BY <4>1, VolumeTypes DEF Dead
    <3> QED
      BY <3>2, <3>3
  <2>4. CASE vol'[v] = vol[v] /\ (v # w \/ i \notin r.changed)
    <3>1. (ByTerm(c, v) => ByTerm(c, v)') /\ (Late(c, v)' => Late(c, v))
      BY <2>2, <2>4 DEF Late, ByTerm
    <3> QED
      BY <1>0, <1>1, <1>2, <2>1, <2>2, <2>3, <2>4, <3>1, SettledStays
  <2>5. CASE vol'[v].to = NoInst
    BY <1>0, <2>1, <2>5, Basics DEF VolSettled
  <2>6. CASE v # w
    BY <2>1, <2>4, <2>6 DEF Types, VolType
  <2>7. CASE v = w
    <3>1. CASE vol' = vol /\ vol[w].to \notin ToSet(r.ids)
      BY <2>4, <2>7, <3>1, Fields DEF GoodTerm
    <3>2. CASE vol' = [vol EXCEPT ![w] = IF @.delOnTerm THEN DeletedVolume ELSE FreeVolume]
      BY <2>5, <2>7, <3>2, VolumeTypes DEF Types, VolType
    <3> QED
      BY <2>1, <3>1, <3>2
  <2> QED
    BY <2>6, <2>7
<1>8. ASSUME ReleaseDone(c) PROVE VolSettled(v)'
  <2>1. vol' = vol /\ inst' = inst /\ events' = events /\ failed' = failed /\ vol'[v] = vol[v]
    BY <1>8 DEF ReleaseDone, pastVars
  <2>2. /\ r.at = "release" /\ r.todo = {} /\ term'[c].at = "emit" /\ term'[c].changed = r.changed
        /\ \A e \in Terminators : e # c => term'[e] = term[e]
    BY <1>8, TermSteps
  <2>3. ~ByTerm(c, v) /\ (Late(c, v)' => Late(c, v))
    BY <2>1, <2>2 DEF Late, ByTerm
  <2>4. Dead(i)' => Dead(i)
    BY <2>1 DEF Dead
  <2> QED
    BY <1>0, <1>1, <1>2, <2>1, <2>2, <2>3, <2>4, SettledStays
<1>9. ASSUME Emit(c) PROVE VolSettled(v)'
  <2>1. /\ vol' = vol /\ inst' = inst /\ failed' = failed /\ vol'[v] = vol[v]
        /\ events' = events \union r.changed
    BY <1>9 DEF Emit, pastVars
  <2>2. /\ r.at = "emit" /\ term'[c].at = "idle" /\ term'[c].changed = {}
        /\ \A e \in Terminators : e # c => term'[e] = term[e]
    BY <1>9, TermSteps
  <2>3. ~ByTerm(c, v) /\ ~Late(c, v)' /\ (i \in r.changed => Late(c, v))
    BY <2>2 DEF Late, ByTerm
  <2>4. Dead(i)' => Dead(i)
    BY <2>1 DEF Dead
  <2>5. CASE i \in r.changed
    <3>1. VolSettled(v) /\ Late(c, v)
      BY <2>3, <2>5 DEF Settled
    <3> QED
      BY <1>0, <2>1, <3>1 DEF VolSettled
  <2>6. CASE i \notin r.changed
    BY <1>0, <1>1, <1>2, <2>1, <2>2, <2>3, <2>4, <2>6, SettledStays
  <2> QED
    BY <2>5, <2>6
<1> QED
  BY <1>4, <1>5, <1>6, <1>7, <1>8, <1>9 DEF TerminateStep

\* A rollback settles the volumes of the instances it drops.
LEMMA SettledLaunch ==
    ASSUME Types, Types', Settled, NEW l \in Launchers,
           \/ \E ids \in Launches, t \in Tokens \union {NoToken} : StartLaunch(l, t, ids)
           \/ \E t \in Tokens : ReplayLaunch(l, t) \/ WaitForLaunch(l, t)
           \/ LaunchStep(l),
           NEW v \in Vols
    PROVE  VolSettled(v)'
<1> DEFINE r == launch[l]
           i == vol[v].to
<1>0. /\ term' = term /\ events' = events /\ failed' = failed
      /\ launch \in [Launchers -> LaunchRec] /\ inst \in [Insts -> States]
  BY DEF StartLaunch, ReplayLaunch, WaitForLaunch, LaunchStep, Provision, ProvisionFails,
         MaterializeInstanceVolumes, RollbackInstance, DeleteInstanceVolume, NextRollback,
         FailLaunch, FinishLaunch, pastVars, Types, LaunchType, InstType
<1>1. vol'[v] = vol[v] => \A c \in Terminators :
        (ByTerm(c, v) => ByTerm(c, v)') /\ (Late(c, v)' => Late(c, v))
  BY <1>0 DEF ByTerm, Late
\* Nothing changes but the records of launches that settle nothing.
<1>2. ASSUME vol' = vol, stale' = stale, Dead(i)' => Dead(i),
             \A m \in Launchers : launch'[m] = launch[m] \/ ~ByLaunch(m, v)
      PROVE  VolSettled(v)'
  <2>1. vol'[v] = vol[v]
    BY <1>2
  <2>2. \A m \in Launchers : ByLaunch(m, v) => ByLaunch(m, v)'
    BY <1>2, <2>1 DEF ByLaunch
  <2> QED
    BY <1>0, <1>1, <1>2, <2>1, <2>2, SettledStays
<1>3. inst' = inst /\ vol' = vol => (Dead(i)' => Dead(i))
  BY DEF Dead
<1>4. ASSUME NEW ids \in Launches, NEW t \in Tokens \union {NoToken}, StartLaunch(l, t, ids)
      PROVE  VolSettled(v)'
  <2>1. \A m \in Launchers : launch'[m] = launch[m] \/ ~ByLaunch(m, v)
    BY <1>0, <1>4 DEF StartLaunch, ByLaunch
  <2> QED
    BY <1>2, <1>3, <1>4, <2>1 DEF StartLaunch, pastVars
<1>5. ASSUME NEW t \in Tokens, ReplayLaunch(l, t) \/ WaitForLaunch(l, t)
      PROVE  VolSettled(v)'
  <2>1. \A m \in Launchers : launch'[m] = launch[m] \/ ~ByLaunch(m, v)
    BY <1>0, <1>5 DEF ReplayLaunch, WaitForLaunch, ByLaunch
  <2> QED
    BY <1>2, <1>3, <1>5, <2>1 DEF ReplayLaunch, WaitForLaunch, pastVars
<1>6. ASSUME Provision(l) PROVE VolSettled(v)'
  <2>1. \A m \in Launchers : launch'[m] = launch[m] \/ ~ByLaunch(m, v)
    BY <1>6, LaunchSteps DEF ByLaunch
  <2>2. vol' = vol /\ stale' = stale /\ inst' = [inst EXCEPT ![r.ids[r.n + 1]] = "running"]
    BY <1>6 DEF Provision, pastVars
  <2>3. Dead(i)' => Dead(i)
    BY <1>0, <2>2 DEF Dead, Types, VolType, Volume
  <2> QED
    BY <1>2, <2>1, <2>2, <2>3
<1>7. ASSUME ProvisionFails(l) PROVE VolSettled(v)'
  <2>1. \A m \in Launchers : launch'[m] = launch[m] \/ ~ByLaunch(m, v)
    BY <1>7, LaunchSteps DEF ByLaunch
  <2> QED
    BY <1>2, <1>3, <1>7, <2>1 DEF ProvisionFails, pastVars
<1>8. ASSUME NEW b \in BOOLEAN, MaterializeInstanceVolumes(l, b) PROVE VolSettled(v)'
  <2>1. /\ r.at = "volumes" /\ \A m \in Launchers : m # l => launch'[m] = launch[m]
    BY <1>8, LaunchSteps
  <2>2. PICK j \in Insts : j = r.ids[r.n]
    BY <2>1, Fields DEF GoodLaunch
  <2>3. /\ inst' = inst /\ vol' = [vol EXCEPT ![j] = [state |-> "in-use", to |-> j, delOnTerm |-> b]]
        /\ stale' = IF Dead(j) THEN stale \union {j} ELSE stale
    BY <1>8, <2>2 DEF MaterializeInstanceVolumes
  <2>4. CASE v = j
    <3>1. vol'[v].to = j
      BY <2>3, <2>4, Basics DEF Types, VolType
    <3> QED
      BY <1>0, <2>3, <3>1, SettledMoves
  <2>5. CASE v # j
    <3>1. vol'[v] = vol[v] /\ stale \subseteq stale'
      BY <2>3, <2>5 DEF Types, VolType
    <3>2. \A m \in Launchers : ByLaunch(m, v) => ByLaunch(m, v)'
      BY <2>1, <3>1 DEF ByLaunch
    <3>3. Dead(i)' => Dead(i)
      BY <2>3, <3>1 DEF Dead
    <3> QED
      BY <1>0, <1>1, <3>1, <3>2, <3>3, SettledStays
  <2> QED
    BY <2>4, <2>5
<1>9. ASSUME RollbackInstance(l) PROVE VolSettled(v)'
  <2> DEFINE j == r.ids[r.n + 1]
  <2>1. /\ r.at = "rollback" /\ launch'[l].at = "delete"
        /\ launch'[l].ids = r.ids /\ launch'[l].n = r.n
        /\ launch'[l].todo = {w \in Vols : Stored(w)}
        /\ \A m \in Launchers : m # l => launch'[m] = launch[m]
    BY <1>9, LaunchSteps
  <2>2. vol' = vol /\ vol'[v] = vol[v] /\ stale' = stale /\ inst' = [inst EXCEPT ![j] = "gone"]
    BY <1>9 DEF RollbackInstance, pastVars
  <2>3. CASE i = j /\ i \in Insts
    <3>1. Stored(v)
      BY <2>3, Basics DEF Stored, Types, VolType
    <3>2. ByLaunch(l, v)'
      BY <2>1, <2>2, <2>3, <3>1 DEF ByLaunch
    <3>3. VolSettled(v)
      BY DEF Settled
    <3> QED
      BY <1>0, <1>1, <2>2, <3>2, <3>3 DEF VolSettled
  <2>4. CASE i # j
    <3>1. \A m \in Launchers : launch'[m] = launch[m] \/ ~ByLaunch(m, v)
      BY <2>1 DEF ByLaunch
    <3>2. Dead(i)' => Dead(i)
      BY <1>0, <2>2, <2>4 DEF Dead, Types, VolType, Volume
    <3> QED
      BY <1>2, <2>2, <3>1, <3>2
  <2>5. CASE i \notin Insts
    BY <2>2, <2>5 DEF VolSettled
  <2> QED
    BY <2>3, <2>4, <2>5
<1>10. ASSUME NEW w \in Vols, DeleteInstanceVolume(l, w) PROVE VolSettled(v)'
  <2>1. /\ launch'[l].at = "delete" /\ launch'[l].ids = r.ids /\ launch'[l].n = r.n
        /\ launch'[l].todo = r.todo \ {w}
        /\ \A m \in Launchers : m # l => launch'[m] = launch[m]
    BY <1>10, LaunchSteps
  <2>2. /\ inst' = inst /\ stale' = stale
        /\ \/ vol[w].to # r.ids[r.n + 1] /\ vol' = vol
           \/ vol' = [vol EXCEPT ![w] = DeletedVolume]
    BY <1>10 DEF DeleteInstanceVolume
  <2>3. CASE vol'[v] = vol[v] /\ (v # w \/ i # r.ids[r.n + 1])
    <3>1. \A m \in Launchers : ByLaunch(m, v) => ByLaunch(m, v)'
      BY <2>1, <2>3 DEF ByLaunch
    <3>2. Dead(i)' => Dead(i)
      BY <2>2, <2>3 DEF Dead
    <3> QED
      BY <1>0, <1>1, <2>2, <2>3, <3>1, <3>2, SettledStays
  <2>4. CASE v # w
    BY <2>2, <2>3, <2>4 DEF Types, VolType
  <2>5. CASE v = w
    <3>1. CASE vol[w].to # r.ids[r.n + 1] /\ vol' = vol
      BY <2>3, <2>5, <3>1
    <3>2. CASE vol' = [vol EXCEPT ![w] = DeletedVolume]
      <4>1. vol'[v].to = NoInst
        BY <2>5, <3>2, VolumeTypes DEF Types, VolType
      <4> QED
        BY <1>0, <2>2, <4>1, SettledMoves
    <3> QED
      BY <2>2, <3>1, <3>2
  <2> QED
    BY <2>4, <2>5
<1>11. ASSUME NextRollback(l) PROVE VolSettled(v)'
  <2>1. r.todo = {} /\ \A m \in Launchers : m # l => launch'[m] = launch[m]
    BY <1>11, LaunchSteps DEF NextRollback
  <2>2. \A m \in Launchers : launch'[m] = launch[m] \/ ~ByLaunch(m, v)
    BY <2>1 DEF ByLaunch
  <2> QED
    BY <1>2, <1>3, <1>11, <2>2 DEF NextRollback, pastVars
<1>12. ASSUME FailLaunch(l) \/ FinishLaunch(l) PROVE VolSettled(v)'
  <2>1. \A m \in Launchers : launch'[m] = launch[m] \/ ~ByLaunch(m, v)
    BY <1>12, LaunchSteps DEF ByLaunch
  <2> QED
    BY <1>2, <1>3, <1>12, <2>1 DEF FailLaunch, FinishLaunch, pastVars
<1> QED
  BY <1>4, <1>5, <1>6, <1>7, <1>8, <1>9, <1>10, <1>11, <1>12 DEF LaunchStep

LEMMA SettledNext == Types /\ Types' /\ Unborn /\ Settled /\ [Next]_vars => Settled'
<1> SUFFICES ASSUME Types, Types', Unborn, Settled, [Next]_vars, NEW v \in Vols
             PROVE  VolSettled(v)'
  BY EndedNext DEF Settled
<1>1. CASE \E l \in Launchers :
         \/ \E ids \in Launches, t \in Tokens \union {NoToken} : StartLaunch(l, t, ids)
         \/ \E t \in Tokens : ReplayLaunch(l, t) \/ WaitForLaunch(l, t)
         \/ LaunchStep(l)
  BY <1>1, SettledLaunch
<1>2. CASE \E c \in Terminators :
         TerminateStep(c) \/ \E ids \in Batches : TerminateInstances(c, ids)
  BY <1>2, SettledTerminate
<1>3. ASSUME UNCHANGED <<launch, term, events, failed>>, Dead(vol[v].to)' => Dead(vol[v].to),
             vol'[v] = vol[v], stale \subseteq stale'
      PROVE  VolSettled(v)'
  BY <1>3, SettledStays DEF ByTerm, ByLaunch, Late
<1>4. ASSUME UNCHANGED <<inst, launch, term, events, failed>> PROVE VolSettled(v)'
  <2>1. VolumeStep
    BY VolumeSteps
  <2>2. stale \subseteq stale'
    BY <2>1 DEF VolumeStep, Put, TakenBack, Released, Freed, Removed, Attached
  <2>3. CASE vol'[v] = vol[v]
    BY <1>3, <1>4, <2>2, <2>3 DEF Dead
  <2>4. CASE vol'[v] # vol[v]
    <3>1. Put(v) \/ TakenBack(v) \/ Released(v) \/ Freed(v) \/ Removed(v) \/ Attached(v)
      BY <2>1, <2>4 DEF VolumeStep
    <3>2. CASE TakenBack(v) \/ Released(v) \/ Freed(v) \/ Removed(v)
      BY <1>4, <3>2, VolumeTypes, SettledMoves DEF TakenBack, Released, Freed, Removed
    <3>3. CASE Put(v) \/ Attached(v)
      <4>1. \E i \in Insts :
              vol'[v].to = i /\ stale' = IF Dead(i) THEN stale \union {i} ELSE stale
        <5>1. CASE Put(v)
          BY <5>1 DEF Put
        <5>2. ASSUME NEW i \in Insts,
                     vol'[v] = [state |-> "in-use", to |-> i, delOnTerm |-> vol[v].delOnTerm],
                     stale' = IF Dead(i) THEN stale \union {i} ELSE stale
              PROVE  vol'[v].to = i /\ stale' = IF Dead(i) THEN stale \union {i} ELSE stale
          BY <5>2
        <5>3. CASE Attached(v)
          BY <5>2, <5>3 DEF Attached
        <5> QED
          BY <3>3, <5>1, <5>3
      <4> QED
        BY <1>4, <4>1, SettledMoves
    <3> QED
      BY <3>1, <3>2, <3>3
  <2> QED
    BY <2>3, <2>4
<1>5. ASSUME NEW i \in Insts, Stop(i) \/ Start(i) PROVE VolSettled(v)'
  <2>1. /\ UNCHANGED <<launch, term, events, failed, stale>> /\ vol' = vol
        /\ inst' = [inst EXCEPT ![i] = "stopped"] \/ inst' = [inst EXCEPT ![i] = "running"]
    BY <1>5 DEF Stop, Start, launchVars, pastVars
  <2>2. Dead(vol[v].to)' => Dead(vol[v].to)
    BY <2>1 DEF Dead, Types, InstType, VolType, Volume
  <2> QED
    BY <1>3, <2>1, <2>2
<1>6. CASE \/ \E w \in UserVols : CreateVolume(w)
           \/ \E w \in Vols : DetachVolume(w)
           \/ \E d \in Deleters : RemoveVolume(d) \/ \E w \in Vols : DeleteVolume(d, w)
           \/ \E a \in Attachers :
                MarkAttached(a) \/ \E w \in Vols, i \in Insts : AttachVolume(a, w, i)
  BY <1>4, <1>6 DEF CreateVolume, DetachVolume, RemoveVolume, DeleteVolume, MarkAttached,
                    AttachVolume, launchVars, pastVars
<1>7. CASE UNCHANGED vars
  BY <1>4, <1>7 DEF vars, launchVars, pastVars
<1> QED
  BY <1>1, <1>2, <1>5, <1>6, <1>7 DEF Next

\* Set the instances aside that got a volume after their end, or that a batch
\* ended which then failed: a volume on an instance that ended has a call that
\* will settle it, and is not seen attached by who hears of the end.
THEOREM ReleasedInTime == Spec => []ReleasedUnlessRaced
<1>1. Init => Types /\ Unborn /\ Settled
  BY TypesInit, UnbornInit, SettledInit
<1>2. Types /\ Unborn /\ Settled /\ [Next]_vars => Types' /\ Unborn' /\ Settled'
  BY TypesNext, UnbornNext, SettledNext
<1> QED
  BY <1>1, <1>2, SettledMeans, PTL DEF Spec

(***************************************************************************)
(* The ends that are published                                             *)
(***************************************************************************)

\* EndAnnouncedOnce for one instance.
Announced(i) ==
    /\ inst[i] = "terminated" => i \in events \/ \E c \in Terminators : i \in term[c].changed
    /\ i \in events => \A c \in Terminators : i \notin term[c].changed
    /\ \A c, d \in Terminators : i \in term[c].changed /\ i \in term[d].changed => c = d

\* A termination that has not started has nothing to publish.
IdleHasNone == \A c \in Terminators : term[c].at = "idle" => term[c].changed = {}

\* Only TerminateOne ends an instance.
LEMMA EndsByTermination ==
    ASSUME Types, [Next]_vars, NEW i \in Insts, inst'[i] = "terminated",
           inst[i] # "terminated"
    PROVE  \E c \in Terminators : TerminateOne(c)
<1>0. inst \in [Insts -> States]
  BY DEF Types, InstType
<1>1. inst' # inst
  OBVIOUS
<1>2. ASSUME NEW l \in Launchers, Provision(l) \/ RollbackInstance(l) PROVE FALSE
  BY <1>0, <1>2 DEF Provision, RollbackInstance
<1>3. ASSUME NEW j \in Insts, Stop(j) \/ Start(j) PROVE FALSE
  BY <1>0, <1>3 DEF Stop, Start
<1> QED
  BY <1>1, <1>2, <1>3
     DEF Next, vars, StartLaunch, ReplayLaunch, WaitForLaunch, LaunchStep,
         ProvisionFails, MaterializeInstanceVolumes, DeleteInstanceVolume,
         NextRollback, FailLaunch, FinishLaunch, TerminateStep, TerminateInstances,
         ListVolumes, ReleaseVolume, ReleaseDone, Emit, CreateVolume, DetachVolume,
         RemoveVolume, DeleteVolume, MarkAttached, AttachVolume

\* A termination that ends an instance moves its own record.
LEMMA OneMoves ==
    ASSUME Types, UNCHANGED term
    PROVE  \A c \in Terminators : ~TerminateOne(c)
<1> SUFFICES ASSUME NEW c \in Terminators, TerminateOne(c) PROVE FALSE
  OBVIOUS
<1>1. term \in [Terminators -> TermRec] /\ term[c].n \in Nat
  BY Fields DEF Types, TermType
<1>2. CASE term' = [term EXCEPT ![c].at = "emit"]
  BY <1>1, <1>2 DEF TerminateOne, TermRec
<1>3. term'[c].n = term[c].n + 1 \/ term' = [term EXCEPT ![c].at = "emit"]
  BY <1>1 DEF TerminateOne, TermRec
<1> QED
  BY <1>1, <1>2, <1>3

\* An end goes from the call that brought it about to the published ones; what
\* has not ended is with neither.
LEMMA AnnouncedTerminate ==
    ASSUME Types, Settled, IdleHasNone, NEW c \in Terminators,
           TerminateStep(c) \/ \E ids \in Batches : TerminateInstances(c, ids),
           NEW i \in Insts, Announced(i),
           inst'[i] = "terminated" /\ inst[i] # "terminated" => TerminateOne(c)
    PROVE  Announced(i)'
<1> DEFINE j == term[c].ids[term[c].n + 1]
<1>1. ASSUME events' = events, term'[c].changed = term[c].changed,
             \A e \in Terminators : e # c => term'[e] = term[e],
             inst'[i] = "terminated" => inst[i] = "terminated"
      PROVE  Announced(i)'
  BY <1>1 DEF Announced
<1>2. ASSUME NEW ids \in Batches, TerminateInstances(c, ids) PROVE Announced(i)'
  <2>1. term[c].changed = {}
    BY <1>2 DEF TerminateInstances, IdleHasNone
  <2> QED
    BY <1>1, <1>2, <2>1, TermSteps DEF TerminateInstances
<1>3. CASE TerminateOne(c)
  <2>1. /\ events' = events /\ j \in Insts
        /\ \A e \in Terminators : e # c => term'[e] = term[e]
    BY <1>3, TermSteps DEF TerminateOne
  <2>2. CASE inst' = inst /\ term'[c].changed = term[c].changed
    BY <1>1, <2>1, <2>2
  <2>3. CASE /\ inst[j] \in {"running", "stopped"}
             /\ inst' = [inst EXCEPT ![j] = "terminated"]
             /\ term'[c].changed = term[c].changed \union {j}
    <3>1. j \notin events /\ \A e \in Terminators : j \notin term[e].changed
      BY <2>3 DEF Settled, Ended, Dead
    <3>2. CASE i = j
      BY <2>1, <2>3, <3>1, <3>2 DEF Announced
    <3>3. CASE i # j
      BY <2>1, <2>3, <3>3 DEF Announced, Types, InstType
    <3> QED
      BY <3>2, <3>3
  <2>4. \/ inst' = inst /\ term'[c].changed = term[c].changed
        \/ /\ inst' = [inst EXCEPT ![j] = "terminated"]
           /\ term'[c].changed = term[c].changed \union {j}
    BY <1>3, TermSteps
  <2>5. inst[j] \in {"running", "stopped"} \/ inst' = inst
    BY <1>3 DEF TerminateOne
  <2>6. CASE inst[j] \in {"running", "stopped"}
    BY <2>2, <2>3, <2>4, <2>6
  <2>7. CASE inst[j] \notin {"running", "stopped"}
    <3>1. term' = [term EXCEPT ![c].at = "emit"]
      BY <1>3, <2>7 DEF TerminateOne
    <3>2. term'[c].changed = term[c].changed
      BY <3>1 DEF Types, TermType, TermRec
    <3> QED
      BY <2>2, <2>5, <2>7, <3>2
  <2> QED
    BY <2>6, <2>7
<1>4. CASE ListVolumes(c) \/ ReleaseDone(c) \/ \E v \in Vols : ReleaseVolume(c, v)
  BY <1>1, <1>4, TermSteps DEF ListVolumes, ReleaseDone, ReleaseVolume
<1>5. CASE Emit(c)
  <2>1. /\ events' = events \union term[c].changed /\ term'[c].changed = {}
        /\ \A e \in Terminators : e # c => term'[e] = term[e]
        /\ inst' = inst
    BY <1>5, TermSteps DEF Emit
  <2> QED
    BY <2>1 DEF Announced
<1> QED
  BY <1>2, <1>3, <1>4, <1>5 DEF TerminateStep

\* Over every step.
LEMMA AnnouncedNext ==
    Types /\ Unborn /\ Settled /\ IdleHasNone /\ EndAnnouncedOnce /\ [Next]_vars
    => IdleHasNone' /\ EndAnnouncedOnce'
<1> SUFFICES ASSUME Types, Settled, IdleHasNone, EndAnnouncedOnce, [Next]_vars
             PROVE  IdleHasNone' /\ EndAnnouncedOnce'
  OBVIOUS
<1>1. \A i \in Insts : Announced(i)
  BY DEF EndAnnouncedOnce, Announced
<1>2. SUFFICES IdleHasNone' /\ \A i \in Insts : Announced(i)'
  BY DEF EndAnnouncedOnce, Announced
<1>3. CASE /\ UNCHANGED <<events, term>>
           /\ \A c \in Terminators : ~TerminateOne(c)
  <2>1. \A i \in Insts : inst'[i] = "terminated" => inst[i] = "terminated"
    BY <1>3, EndsByTermination
  <2> QED
    BY <1>1, <1>3, <2>1 DEF Announced, IdleHasNone
<1>4. ASSUME NEW c \in Terminators,
             TerminateStep(c) \/ \E ids \in Batches : TerminateInstances(c, ids)
      PROVE  IdleHasNone' /\ \A i \in Insts : Announced(i)'
  <2>1. IdleHasNone'
    BY <1>4, TermSteps DEF TerminateStep, IdleHasNone
  <2>2. ASSUME NEW i \in Insts, inst'[i] = "terminated", inst[i] # "terminated"
        PROVE  TerminateOne(c)
    BY <1>4, <2>2 DEF TerminateStep, TerminateInstances, ListVolumes, ReleaseVolume,
                      ReleaseDone, Emit
  <2> QED
    BY <1>1, <1>4, <2>1, <2>2, AnnouncedTerminate
<1>5. CASE \E l \in Launchers :
         \/ \E ids \in Launches, t \in Tokens \union {NoToken} : StartLaunch(l, t, ids)
         \/ \E t \in Tokens : ReplayLaunch(l, t) \/ WaitForLaunch(l, t)
         \/ LaunchStep(l)
  <2>1. UNCHANGED <<events, term>>
    BY <1>5, LaunchLeaves
  <2> QED
    BY <1>3, <2>1, OneMoves
<1>6. CASE \/ \E i \in Insts : Stop(i) \/ Start(i)
           \/ \E v \in UserVols : CreateVolume(v)
           \/ \E v \in Vols : DetachVolume(v)
           \/ \E d \in Deleters : RemoveVolume(d) \/ \E v \in Vols : DeleteVolume(d, v)
           \/ \E a \in Attachers :
                MarkAttached(a) \/ \E v \in Vols, i \in Insts : AttachVolume(a, v, i)
  BY <1>3, <1>6, OneMoves
     DEF Stop, Start, CreateVolume, DetachVolume, RemoveVolume, DeleteVolume,
         MarkAttached, AttachVolume
<1>7. CASE UNCHANGED vars
  BY <1>3, <1>7, OneMoves DEF vars
<1> QED
  BY <1>4, <1>5, <1>6, <1>7 DEF Next

\* Whatever batches race, and however they fail, the end of an instance is
\* published once: by the call that ended it, or it is on its way there.
THEOREM EndsArePublished == Spec => []EndAnnouncedOnce
<1>1. Init => Types /\ Unborn /\ Settled /\ IdleHasNone /\ EndAnnouncedOnce
  BY TypesInit, UnbornInit, SettledInit DEF Init, IdleTerm, IdleHasNone, EndAnnouncedOnce
<1>2. Types /\ Unborn /\ Settled /\ IdleHasNone /\ EndAnnouncedOnce /\ [Next]_vars
      => Types' /\ Unborn' /\ Settled' /\ IdleHasNone' /\ EndAnnouncedOnce'
  BY TypesNext, UnbornNext, SettledNext, AnnouncedNext
<1> QED
  BY <1>1, <1>2, PTL DEF Spec
=============================================================================
