-------------------------- MODULE SingleKill_proofs --------------------------
(***************************************************************************)
(* What `kick kill --pid` and `kick kill --port` guarantee on Linux, for     *)
(* every process table, request, fault and interleaving: whom they touch,    *)
(* what those processes hold, which program they run, and what is left when   *)
(* the command returns.                                                     *)
(*                                                                         *)
(* The first half is about what two agreeing passes over the system prove.   *)
(* It is a sandwich: the descriptor scan of pass B goes by number and proves *)
(* nothing about who has the number.  But if the start marker read in pass A *)
(* and the one read after the scan of pass B are the same, their process was  *)
(* there before the scan and after it, hence during it, and no other process *)
(* had its number meanwhile.  And a kill is granted only on a snapshot        *)
(* without a loss that could concern its target, and such a snapshot knows    *)
(* every holder that was there from the first read to the last.              *)
(*                                                                         *)
(* The second half is the command. Its argument has four parts. A pidfd     *)
(* that pins somebody else than the confirmed process was opened after      *)
(* that one had ended, so that the fresh snapshot cannot show it any more.  *)
(* The snapshot that let the kill go on is complete (HoldersAllKnown), and  *)
(* what it said of the past stays true. And a process that was seen         *)
(* stopped keeps its name until it is signalled, unless others meddle with  *)
(* it. And whoever is stopped is owed its resumption by exactly one of the  *)
(* steps still to come.                                                     *)
(***************************************************************************)
EXTENDS SingleKill, Kernel_proofs

-----------------------------------------------------------------------------
\* The invariant

ReadTypes ==
    /\ KernelTypeOK /\ SocketsTypeOK
    /\ reads \in [Pid -> Read] /\ first.reads \in [Pid -> Read]
    /\ edges \subseteq Socket \X Pid

\* A marker that was read is one of a process that had the number.
WasThere(pid, who) == who # NoProc => who \in Proc /\ PidOf[who] = pid /\ status[who] # "unborn"
ReadsOfPast == \A pid \in Pid : WasThere(pid, reads[pid].who) /\ WasThere(pid, first.reads[pid].who)

\* Markers are read after the scan of their pass.
ScanBeforeReads == phase \in {"idle", "sockets", "list", "fds", "links"} => reads = Unread

\* What is held while a pass runs is remembered.
HoldingSeen == Collecting => Holding \subseteq heldSince

\* An edge that pass B found is one of the process that pass A identified, unless
\* that process was already gone.
EdgeExplained(edge) ==
    LET who == first.reads[edge[2]].who
    IN  who # NoProc => <<edge[1], who>> \in heldSince \/ status[who] = "dead"

\* Pass B's own marker excludes that it was.
OwnerExplained(edge) ==
    LET who == first.reads[edge[2]].who
    IN  who # NoProc /\ reads[edge[2]].who = who => <<edge[1], who>> \in heldSince

EdgesExplained ==
    pass = "B" /\ Collecting => \A edge \in edges : EdgeExplained(edge) /\ OwnerExplained(edge)

ReadInv == /\ ReadTypes /\ OneHolder /\ ReadsOfPast /\ ScanBeforeReads /\ HoldingSeen
           /\ EdgesExplained
SandwichInv == ReadInv /\ VerifiedOwnersHeld

-----------------------------------------------------------------------------
\* Reads

\* What /proc shows under a number is a process that has it now, or nothing.
LEMMA SeenHolds ==
    ASSUME NEW pid
    PROVE  /\ Seen(pid) \in Proc \cup {NoProc}
           /\ Seen(pid) # NoProc => Has(pid, Seen(pid))
BY OccupantHolds DEF Seen

LEMMA UnreadType == Unread \in [Pid -> Read] /\ \A pid \in Pid : Unread[pid].who = NoProc
BY DEF Unread, NoRead, Read

\* Of two processes with one number, only one is there; the other is not yet born
\* or gone for good.
LEMMA OtherIsDead ==
    ASSUME KernelTypeOK, OneHolder, NEW p \in Proc, NEW q \in Proc, p # q,
           PidOf[p] = PidOf[q], status[p] \in Present, status[q] # "unborn"
    PROVE  status[q] = "dead"
BY DEF KernelTypeOK, OneHolder, Status, Present, Live, Active

\* A new read of one number keeps the invariant when it shows nobody, or somebody
\* who is there now, or does not change who was read.
LEMMA NewRead ==
    ASSUME ReadInv, UNCHANGED <<status, parent, pgrp, name, pending, meddled, holds>>,
           NEW pid, NEW read \in Read,
           \/ read.who = NoProc
           \/ read.who \in Proc /\ Has(pid, read.who)
           \/ pid \in Pid /\ read.who = reads[pid].who,
           reads' = [reads EXCEPT ![pid] = read],
           UNCHANGED <<pass, edges, first, heldSince>>, Collecting,
           budget' \in 0..MaxDisturbances,
           phase' \in {"markers", "name", "again", "settle"}
    PROVE  ReadInv' /\ VerifiedOwnersHeld'
<1>1. ReadTypes'
  BY DEF ReadInv, ReadTypes, KernelTypeOK, SocketsTypeOK
<1>2. \A other \in Pid \ {pid} : reads'[other] = reads[other]
  BY DEF ReadInv, ReadTypes
<1>3. pid \in Pid => reads'[pid] = read
  BY DEF ReadInv, ReadTypes
<1>4. pid \in Pid => WasThere(pid, read.who)
  BY DEF ReadInv, ReadsOfPast, WasThere, Has, Present, Live, Active
<1>5. ReadsOfPast'
  BY <1>2, <1>3, <1>4 DEF ReadInv, ReadsOfPast, WasThere
<1>6. ScanBeforeReads' /\ VerifiedOwnersHeld' /\ OneHolder'
  BY DEF ReadInv, ScanBeforeReads, VerifiedOwnersHeld, OneHolder
<1>7. HoldingSeen'
  BY DEF ReadInv, HoldingSeen, Holding
<1>8. EdgesExplained'
  <2> SUFFICES ASSUME pass = "B", NEW edge \in edges
               PROVE  EdgeExplained(edge)' /\ OwnerExplained(edge)'
    BY DEF EdgesExplained
  <2> DEFINE who == first.reads[edge[2]].who
  <2>1. EdgeExplained(edge) /\ OwnerExplained(edge) /\ edge[2] \in Pid
    BY DEF ReadInv, EdgesExplained, ReadTypes
  <2>2. EdgeExplained(edge)'
    BY <2>1 DEF EdgeExplained
  <2>3. ASSUME who # NoProc, reads'[edge[2]].who = who, edge[2] = pid,
               read.who \in Proc, Has(pid, read.who)
        PROVE  <<edge[1], who>> \in heldSince
    BY <1>3, <2>1, <2>3 DEF EdgeExplained, Has, Present, Live, Active
  <2>4. OwnerExplained(edge)'
    BY <1>2, <1>3, <2>1, <2>3 DEF OwnerExplained
  <2> QED
    BY <2>2, <2>4
<1> QED
  BY <1>1, <1>5, <1>6, <1>7, <1>8 DEF ReadInv

-----------------------------------------------------------------------------
\* The steps of the collector

\* A new pass starts with nothing read and nothing found.
LEMMA NewPass ==
    ASSUME ReadInv, NEW which \in {"A", "B"}, BeginPass(which), UNCHANGED worldVars,
           first' = NoPass \/ first'.reads = reads
    PROVE  ReadInv' /\ VerifiedOwnersHeld'
<1>1. first'.reads \in [Pid -> Read]
  BY UnreadType DEF ReadInv, ReadTypes, NoPass
<1>2. ReadTypes'
  BY <1>1, UnreadType
     DEF ReadInv, ReadTypes, BeginPass, worldVars, kernelVars, KernelTypeOK, SocketsTypeOK
<1>3. ReadsOfPast'
  BY UnreadType DEF ReadInv, ReadsOfPast, WasThere, BeginPass, NoPass, worldVars, kernelVars
<1>4. OneHolder' /\ ScanBeforeReads' /\ HoldingSeen' /\ EdgesExplained' /\ VerifiedOwnersHeld'
  BY DEF ReadInv, OneHolder, ScanBeforeReads, HoldingSeen, EdgesExplained, VerifiedOwnersHeld,
         BeginPass, Holding, worldVars, kernelVars
<1> QED
  BY <1>2, <1>3, <1>4 DEF ReadInv

\* While sockets and descriptors are read, only a descriptor that was resolved
\* adds an edge: one of the process that has the number now.
LEMMA ScanStep ==
    ASSUME ReadInv, UNCHANGED <<status, parent, pgrp, name, pending, meddled, holds>>,
           UNCHANGED <<pass, reads, first, heldSince>>, Collecting,
           phase \in {"sockets", "list", "fds", "links"},
           phase' \in {"sockets", "list", "fds", "links", "markers", "settle"},
           budget' \in 0..MaxDisturbances,
           NEW s \in Socket, NEW pid,
           \/ edges' = edges
           \/ edges' = edges \cup {<<s, pid>>} /\ Alive(Seen(pid)) /\ s \in holds[Seen(pid)]
    PROVE  ReadInv' /\ VerifiedOwnersHeld'
<1> DEFINE now == Seen(pid)
<1>1. ASSUME edges' # edges
      PROVE  now \in Proc /\ Has(pid, now) /\ pid \in Pid /\ <<s, now>> \in heldSince
  <2>1. now \in Proc /\ Has(pid, now) /\ s \in holds[now]
    BY <1>1, SeenHolds, KernelAssumption DEF Alive
  <2>2. pid \in Pid
    BY <2>1, KernelAssumption DEF Has
  <2> QED
    BY <2>1, <2>2 DEF ReadInv, HoldingSeen, Holding
<1>2. ReadTypes'
  BY <1>1 DEF ReadInv, ReadTypes, KernelTypeOK, SocketsTypeOK
<1>3. ReadsOfPast' /\ OneHolder' /\ ScanBeforeReads' /\ HoldingSeen' /\ VerifiedOwnersHeld'
  BY DEF ReadInv, ReadsOfPast, WasThere, OneHolder, ScanBeforeReads, HoldingSeen, Holding,
         VerifiedOwnersHeld, Collecting
<1>4. EdgesExplained'
  <2> SUFFICES ASSUME pass = "B", NEW edge \in edges'
               PROVE  EdgeExplained(edge)' /\ OwnerExplained(edge)'
    BY DEF EdgesExplained
  <2>1. CASE edge \in edges
    BY <2>1 DEF ReadInv, EdgesExplained, EdgeExplained, OwnerExplained
  <2>2. CASE edge \notin edges
    <3> DEFINE who == first.reads[pid].who
    <3>1. edge[1] = s /\ edge[2] = pid /\ pid \in Pid /\ now \in Proc /\ Has(pid, now)
          /\ <<s, now>> \in heldSince
      BY <1>1, <2>2
    <3>2. WasThere(pid, who)
      BY <3>1 DEF ReadInv, ReadsOfPast
    <3>3. who # NoProc => <<s, who>> \in heldSince \/ status[who] = "dead"
      BY <3>1, <3>2, OtherIsDead DEF ReadInv, ReadTypes, WasThere, Has
    <3>4. reads[pid].who = NoProc
      BY <3>1, UnreadType DEF ReadInv, ScanBeforeReads
    <3> QED
      BY <3>1, <3>3, <3>4 DEF EdgeExplained, OwnerExplained
  <2> QED
    BY <2>1, <2>2
<1> QED
  BY <1>2, <1>3, <1>4 DEF ReadInv

\* A disturbance is counted.
LEMMA BudgetType ==
    ASSUME KernelTypeOK
    PROVE  /\ budget \in 0..MaxDisturbances
           /\ budget > 0 => budget - 1 \in 0..MaxDisturbances
BY KernelAssumption DEF KernelTypeOK

\* Reading the socket tables and the process list finds no owner yet.
LEMMA ListStep == ReadInv /\ (ReadSocket \/ ListPids) => SandwichInv'
<1> SUFFICES ASSUME ReadInv, ReadSocket \/ ListPids PROVE SandwichInv'
  OBVIOUS
<1>1. /\ UNCHANGED <<status, parent, pgrp, name, pending, meddled, holds, budget>>
      /\ UNCHANGED <<pass, reads, first, heldSince, edges>>
  BY DEF ReadSocket, ListPids, worldVars, kernelVars, historyVars
<1>2. /\ phase \in {"sockets", "list"} /\ phase' \in {"sockets", "list", "fds", "settle"}
      /\ Collecting
  BY DEF ReadSocket, ListPids, Collecting
<1>3. ReadTypes' /\ ReadsOfPast' /\ OneHolder'
  BY <1>1 DEF ReadInv, ReadTypes, KernelTypeOK, SocketsTypeOK, ReadsOfPast, WasThere, OneHolder
<1>4. ScanBeforeReads' /\ HoldingSeen' /\ EdgesExplained' /\ VerifiedOwnersHeld'
  BY <1>1, <1>2
     DEF ReadInv, ScanBeforeReads, HoldingSeen, Holding, EdgesExplained, EdgeExplained,
         OwnerExplained, VerifiedOwnersHeld
<1> QED
  BY <1>3, <1>4 DEF SandwichInv, ReadInv

\* Whatever the scan of a process lost, it goes on, or the owners are identified.
LEMMA FinishScanPhase ==
    ASSUME NEW pid, NEW found, NEW losses, FinishScan(pid, found, losses)
    PROVE  phase' \in {"fds", "markers", "settle"}
BY DEF FinishScan, ScanNext

LEMMA OpenStep == ReadInv /\ OpenDescriptors => SandwichInv'
<1> SUFFICES ASSUME ReadInv, OpenDescriptors PROVE SandwichInv'
  OBVIOUS
<1>1. /\ UNCHANGED <<status, parent, pgrp, name, pending, meddled, holds, budget>>
      /\ UNCHANGED <<pass, reads, first, heldSince, edges>>
  BY DEF OpenDescriptors, worldVars, kernelVars, historyVars
<1>2. phase = "fds" /\ Collecting
  BY DEF OpenDescriptors, Collecting
<1>3. phase' \in {"fds", "links", "markers", "settle"}
  BY FinishScanPhase DEF OpenDescriptors
<1>4. ReadTypes' /\ ReadsOfPast' /\ OneHolder'
  BY <1>1 DEF ReadInv, ReadTypes, KernelTypeOK, SocketsTypeOK, ReadsOfPast, WasThere, OneHolder
<1>5. ScanBeforeReads' /\ HoldingSeen' /\ EdgesExplained' /\ VerifiedOwnersHeld'
  BY <1>1, <1>2, <1>3
     DEF ReadInv, ScanBeforeReads, HoldingSeen, Holding, EdgesExplained, EdgeExplained,
         OwnerExplained, VerifiedOwnersHeld
<1> QED
  BY <1>4, <1>5 DEF SandwichInv, ReadInv

\* A descriptor that was resolved, and one that was not.
LEMMA LinkStep == ReadInv /\ (ReadLink \/ LinkFails) => SandwichInv'
<1> SUFFICES ASSUME ReadInv, ReadLink \/ LinkFails PROVE SandwichInv'
  OBVIOUS
<1>1. PICK s \in links : \/ ReadLink /\ ResolveLink(s, LinkTarget(s))
                         \/ LinkFails /\ ResolveLink(s, "attribution")
  BY DEF ReadLink, LinkFails
<1>2. /\ UNCHANGED <<status, parent, pgrp, name, pending, meddled, holds>>
      /\ UNCHANGED <<pass, reads, first, heldSince>>
  BY <1>1 DEF ReadLink, LinkFails, ResolveLink, Unmoved, worldVars, kernelVars, historyVars
<1>3. phase = "links" /\ Collecting
  BY <1>1 DEF ReadLink, LinkFails, Collecting
<1>4. phase' \in {"fds", "links", "markers", "settle"}
  BY <1>1, <1>3, FinishScanPhase DEF ResolveLink
<1>5. budget' \in 0..MaxDisturbances
  BY <1>1, BudgetType DEF ReadInv, ReadTypes, ReadLink, LinkFails, worldVars, kernelVars
<1>6. CASE edges' = edges
  <2>1. ReadTypes' /\ ReadsOfPast' /\ OneHolder'
    BY <1>2, <1>5, <1>6
       DEF ReadInv, ReadTypes, KernelTypeOK, SocketsTypeOK, ReadsOfPast, WasThere, OneHolder
  <2>2. ScanBeforeReads' /\ HoldingSeen' /\ EdgesExplained' /\ VerifiedOwnersHeld'
    BY <1>2, <1>3, <1>4, <1>6
       DEF ReadInv, ScanBeforeReads, HoldingSeen, Holding, EdgesExplained, EdgeExplained,
           OwnerExplained, VerifiedOwnersHeld
  <2> QED
    BY <2>1, <2>2 DEF SandwichInv, ReadInv
<1>7. CASE edges' # edges
  <2>1. LinkTarget(s) = "edge" /\ edges' = edges \cup {<<s, cur>>}
    BY <1>1, <1>7 DEF ResolveLink
  <2>2. Alive(Seen(cur)) /\ s \in holds[Seen(cur)]
    BY <2>1 DEF LinkTarget
  <2>3. s \in Socket
    BY <2>2, SeenHolds DEF Alive, ReadInv, ReadTypes, SocketsTypeOK
  <2> QED
    BY <1>2, <1>3, <1>4, <1>5, <2>1, <2>2, <2>3, ScanStep DEF SandwichInv
<1> QED
  BY <1>6, <1>7

\* After an identity the next owner is identified, or the pass is complete.
LEMMA IdentifiedRead ==
    ASSUME NEW pid, NEW read, Identified(pid, read)
    PROVE  reads' = [reads EXCEPT ![pid] = read] /\ phase' \in {"markers", "settle"}
BY DEF Identified

LEMMA UnverifiedType ==
    ASSUME NEW why \in Reasons
    PROVE  Unverified(why) \in Read /\ Unverified(why).who = NoProc
BY DEF Unverified, NoRead, Read

LEMMA MarkerType ==
    ASSUME NEW who \in Proc
    PROVE  /\ [NoRead EXCEPT !.who = who] \in Read
           /\ [NoRead EXCEPT !.who = who].who = who
BY DEF NoRead, Read

\* Every read of an identity.
LEMMA IdentityStep == ReadInv /\ (ReadMarker \/ ReadName \/ ReadMarkerAgain \/ IdentityFails)
                        => SandwichInv'
<1> SUFFICES ASSUME ReadInv, ReadMarker \/ ReadName \/ ReadMarkerAgain \/ IdentityFails
             PROVE  SandwichInv'
  OBVIOUS
<1> DEFINE pid == Earliest(queue)
           who == Seen(pid)
<1>1. /\ UNCHANGED <<status, parent, pgrp, name, pending, meddled, holds>>
      /\ UNCHANGED <<pass, edges, first, heldSince>>
      /\ Collecting
  BY DEF ReadMarker, ReadName, ReadMarkerAgain, IdentityFails, IdentityFrame, Unmoved, worldVars,
         kernelVars, historyVars, Collecting
<1>2. budget' \in 0..MaxDisturbances
  BY BudgetType DEF ReadInv, ReadTypes, ReadMarker, ReadName, ReadMarkerAgain, IdentityFails,
                    worldVars, kernelVars
<1>3. who \in Proc \cup {NoProc} /\ (who # NoProc => who \in Proc /\ Has(pid, who))
  BY SeenHolds
<1>4. ASSUME NEW read \in Read, reads' = [reads EXCEPT ![pid] = read],
             phase' \in {"markers", "name", "again", "settle"},
             \/ read.who = NoProc
             \/ read.who \in Proc /\ Has(pid, read.who)
             \/ pid \in Pid /\ read.who = reads[pid].who
      PROVE  SandwichInv'
  BY <1>1, <1>2, <1>4, NewRead DEF SandwichInv
<1>5. CASE ReadMarker
  <2>1. CASE who = NoProc
    <3>1. Identified(pid, Unverified("gone"))
      BY <1>5, <2>1 DEF ReadMarker
    <3> QED
      BY <1>4, <3>1, IdentifiedRead, UnverifiedType DEF Reasons
  <2>2. CASE who # NoProc
    <3>1. /\ reads' = [reads EXCEPT ![pid] = [NoRead EXCEPT !.who = who]]
          /\ phase' \in {"markers", "name", "settle"}
      BY <1>5, <2>2, IdentifiedRead DEF ReadMarker
    <3> QED
      BY <1>3, <1>4, <2>2, <3>1, MarkerType
  <2> QED
    BY <2>1, <2>2
<1>6. CASE ReadName
  <2> DEFINE shown == IF who = NoProc THEN NoName ELSE name[who]
             read == [reads[pid] EXCEPT !.name = shown]
  <2>1. reads' = [reads EXCEPT ![pid] = read] /\ phase' = "again"
    BY <1>6 DEF ReadName
  <2>2. CASE pid \in Pid
    <3>1. shown \in Name \cup {NoName}
      BY <1>3 DEF ReadInv, ReadTypes, KernelTypeOK
    <3>2. reads[pid] \in Read
      BY <2>2 DEF ReadInv, ReadTypes
    <3>3. read \in Read /\ read.who = reads[pid].who
      BY <3>1, <3>2 DEF Read
    <3> QED
      BY <1>4, <2>1, <2>2, <3>3
  <2>3. CASE pid \notin Pid
    <3>1. reads' = [reads EXCEPT ![pid] = NoRead]
      BY <2>1, <2>3 DEF ReadInv, ReadTypes
    <3>2. NoRead \in Read /\ NoRead.who = NoProc
      BY DEF NoRead, Read
    <3> QED
      BY <1>4, <2>1, <3>1, <3>2
  <2> QED
    BY <2>2, <2>3
<1>7. CASE ReadMarkerAgain
  <2>1. CASE who # NoProc /\ SameMarker(pid, who)
    <3>1. Identified(pid, reads[pid])
      BY <1>7, <2>1 DEF ReadMarkerAgain
    <3>2. reads' = [reads EXCEPT ![pid] = reads[pid]] /\ phase' \in {"markers", "settle"}
      BY <3>1, IdentifiedRead
    <3>3. CASE pid \in Pid
      <4>1. reads[pid] \in Read
        BY <3>3 DEF ReadInv, ReadTypes
      <4> QED
        BY <1>4, <3>2, <3>3, <4>1
    <3>4. CASE pid \notin Pid
      <4>1. reads' = [reads EXCEPT ![pid] = NoRead]
        BY <3>2, <3>4 DEF ReadInv, ReadTypes
      <4>2. NoRead \in Read /\ NoRead.who = NoProc
        BY DEF NoRead, Read
      <4> QED
        BY <1>4, <3>2, <4>1, <4>2
    <3> QED
      BY <3>3, <3>4
  <2>2. CASE who = NoProc
    <3>1. Identified(pid, Unverified("gone"))
      BY <1>7, <2>2 DEF ReadMarkerAgain
    <3> QED
      BY <1>4, <3>1, IdentifiedRead, UnverifiedType DEF Reasons
  <2>3. CASE who # NoProc /\ ~SameMarker(pid, who)
    <3>1. Identified(pid, Unverified("raced"))
      BY <1>7, <2>3 DEF ReadMarkerAgain
    <3> QED
      BY <1>4, <3>1, IdentifiedRead, UnverifiedType DEF Reasons
  <2> QED
    BY <2>1, <2>2, <2>3
<1>8. CASE IdentityFails
  <2>1. PICK why \in {"denied", "unavailable"} : Identified(pid, Unverified(why))
    BY <1>8 DEF IdentityFails
  <2> QED
    BY <1>4, <2>1, IdentifiedRead, UnverifiedType DEF Reasons
<1> QED
  BY <1>5, <1>6, <1>7, <1>8

\* Between the passes.  Publishing is where the sandwich closes.
LEMMA PassStep == ReadInv /\ (Collect \/ EndPassA \/ EndAttempt \/ CollectionFails) => SandwichInv'
<1> SUFFICES ASSUME ReadInv, Collect \/ EndPassA \/ EndAttempt \/ CollectionFails
             PROVE  SandwichInv'
  OBVIOUS
<1>1. CASE Collect
  BY <1>1, NewPass DEF Collect, BeginAttempt, SandwichInv
<1>2. CASE EndPassA
  <2>1. first'.reads = reads /\ BeginPass("B") /\ UNCHANGED worldVars
    BY <1>2 DEF EndPassA
  <2> QED
    BY <2>1, NewPass DEF SandwichInv
<1>3. CASE EndAttempt
  <2>1. CASE Stable(first) \/ LastAttempt
    <3>1. /\ UNCHANGED worldVars /\ phase = "settle" /\ pass = "B" /\ phase' = "taken"
          /\ Forget /\ UNCHANGED <<pass, heldSince>>
          /\ Publish(~Stable(first), MergedGaps(first) \cup OwnerGaps,
                     IF Stable(first) THEN {} ELSE Affected(first))
      BY <1>3, <2>1 DEF EndAttempt, historyVars
    <3>2. snapshot'.raced = ~Stable(first) /\ snapshot'.edges = edges /\ snapshot'.reads = reads
      BY <3>1 DEF Publish
    <3>3. VerifiedOwnersHeld'
      <4> SUFFICES ASSUME Stable(first), NEW edge \in edges, reads[edge[2]].who # NoProc
                   PROVE  <<edge[1], reads[edge[2]].who>> \in heldSince
        BY <3>1, <3>2 DEF VerifiedOwnersHeld
      <4>1. edge[2] \in Pid
        BY DEF ReadInv, ReadTypes
      <4>2. first.reads[edge[2]].who = reads[edge[2]].who
        BY <4>1 DEF Stable, Reidentified
      <4>3. OwnerExplained(edge)
        BY <3>1 DEF ReadInv, EdgesExplained, Collecting
      <4> QED
        BY <4>2, <4>3 DEF OwnerExplained
    <3>4. ReadTypes' /\ ReadsOfPast' /\ OneHolder'
      BY <3>1, UnreadType
         DEF ReadInv, ReadTypes, KernelTypeOK, SocketsTypeOK, ReadsOfPast, WasThere, OneHolder,
             Forget, NoPass, worldVars, kernelVars
    <3>5. ScanBeforeReads' /\ HoldingSeen' /\ EdgesExplained'
      BY <3>1 DEF ScanBeforeReads, HoldingSeen, EdgesExplained, Collecting
    <3> QED
      BY <3>3, <3>4, <3>5 DEF SandwichInv, ReadInv
  <2>2. CASE ~(Stable(first) \/ LastAttempt)
    <3>1. BeginPass("A") /\ first' = NoPass /\ UNCHANGED worldVars
      BY <1>3, <2>2 DEF EndAttempt, BeginAttempt
    <3> QED
      BY <3>1, NewPass DEF SandwichInv
  <2> QED
    BY <2>1, <2>2
<1>4. CASE CollectionFails
  <2>1. /\ UNCHANGED <<status, parent, pgrp, name, pending, meddled, holds>>
        /\ Forget /\ phase' = "failed" /\ budget' \in 0..MaxDisturbances
    BY <1>4, BudgetType DEF ReadInv, ReadTypes, CollectionFails, Unmoved
  <2>2. ReadTypes' /\ ReadsOfPast' /\ OneHolder'
    BY <2>1, UnreadType
       DEF ReadInv, ReadTypes, KernelTypeOK, SocketsTypeOK, ReadsOfPast, WasThere, OneHolder,
           Forget, NoPass
  <2>3. ScanBeforeReads' /\ HoldingSeen' /\ EdgesExplained' /\ VerifiedOwnersHeld'
    BY <2>1 DEF ScanBeforeReads, HoldingSeen, EdgesExplained, Collecting, VerifiedOwnersHeld
  <2> QED
    BY <2>2, <2>3 DEF SandwichInv, ReadInv
<1> QED
  BY <1>1, <1>2, <1>3, <1>4

LEMMA CollectorPart == ReadInv /\ CollectorStep => SandwichInv'
BY ListStep, OpenStep, LinkStep, IdentityStep, PassStep DEF CollectorStep

-----------------------------------------------------------------------------
\* The world

\* A step of the world keeps its types, leaves a number with one holder and brings
\* nobody back.
LEMMA WorldPart ==
    KernelTypeOK /\ SocketsTypeOK /\ OneHolder /\ WorldStep
       => KernelTypeOK' /\ SocketsTypeOK' /\ OneHolder' /\ Ages
<1> SUFFICES ASSUME KernelTypeOK, SocketsTypeOK, OneHolder, WorldStep
             PROVE  KernelTypeOK' /\ SocketsTypeOK' /\ OneHolder' /\ Ages
  OBVIOUS
<1>1. CASE KernelStep /\ Inherit
  <2>1. SocketsTypeOK'
    BY <1>1 DEF SocketsTypeOK, Inherit
  <2> QED
    BY <1>1, <2>1, KernelStepType, KernelStepIdentity
<1>2. CASE \E p \in Proc, s \in Socket :
             Open(p, s) \/ Close(p, s) \/ \E q \in Proc : Pass(p, q, s)
  <2>1. PICK p \in Proc, s \in Socket :
          Open(p, s) \/ Close(p, s) \/ \E q \in Proc : Pass(p, q, s)
    BY <1>2
  <2>2. UNCHANGED <<status, parent, pgrp, name, pending, meddled>> /\ budget > 0
        /\ budget' = budget - 1
    BY <2>1 DEF Open, Close, Pass, Unmoved, Disturb
  <2>3. SocketsTypeOK'
    <3>1. CASE Open(p, s)
      BY <3>1 DEF Open, SocketsTypeOK
    <3>2. CASE Close(p, s)
      BY <3>2 DEF Close, SocketsTypeOK
    <3>3. CASE \E q \in Proc : Pass(p, q, s)
      BY <3>3 DEF Pass, SocketsTypeOK
    <3> QED
      BY <2>1, <3>1, <3>2, <3>3
  <2>4. KernelTypeOK'
    BY <2>2, BudgetType DEF KernelTypeOK
  <2> QED
    BY <2>2, <2>3, <2>4 DEF OneHolder, Ages
<1> QED
  BY <1>1, <1>2 DEF WorldStep

\* What happens elsewhere takes nothing back: who was there was there, who is gone
\* stays gone, and what was held was held.
LEMMA ElsewherePart == SandwichInv /\ Elsewhere => SandwichInv'
<1> SUFFICES ASSUME SandwichInv, Elsewhere PROVE SandwichInv'
  OBVIOUS
<1>1. KernelTypeOK' /\ SocketsTypeOK' /\ OneHolder' /\ Ages
  BY WorldPart DEF SandwichInv, ReadInv, ReadTypes, Elsewhere
<1>2. UNCHANGED <<phase, pass, edges, reads, first, snapshot>>
  BY DEF Elsewhere, collectorVars, passVars
<1>3. /\ Collecting => heldSince' = heldSince \cup Holding'
      /\ ~Collecting => heldSince' = heldSince
  BY DEF Elsewhere, historyVars
<1>4. ReadTypes'
  BY <1>1, <1>2 DEF SandwichInv, ReadInv, ReadTypes
<1>5. ReadsOfPast'
  BY <1>1, <1>2 DEF SandwichInv, ReadInv, ReadsOfPast, WasThere, Ages
<1>6. ScanBeforeReads' /\ HoldingSeen'
  BY <1>2, <1>3 DEF SandwichInv, ReadInv, ScanBeforeReads, HoldingSeen, Collecting
<1>7. EdgesExplained'
  <2> SUFFICES ASSUME pass = "B", Collecting, NEW edge \in edges
               PROVE  EdgeExplained(edge)' /\ OwnerExplained(edge)'
    BY <1>2 DEF EdgesExplained, Collecting
  <2>1. EdgeExplained(edge) /\ OwnerExplained(edge) /\ edge[2] \in Pid
    BY DEF SandwichInv, ReadInv, EdgesExplained, ReadTypes
  <2>2. WasThere(edge[2], first.reads[edge[2]].who)
    BY <2>1 DEF SandwichInv, ReadInv, ReadsOfPast
  <2> QED
    BY <1>1, <1>2, <1>3, <2>1, <2>2 DEF EdgeExplained, OwnerExplained, WasThere, Ages
<1>8. VerifiedOwnersHeld'
  BY <1>2, <1>3 DEF SandwichInv, VerifiedOwnersHeld, Collecting
<1> QED
  BY <1>1, <1>4, <1>5, <1>6, <1>7, <1>8 DEF SandwichInv, ReadInv

LEMMA IdlePart == SandwichInv /\ UNCHANGED observationVars => SandwichInv'
BY DEF SandwichInv, ReadInv, ReadTypes, KernelTypeOK, SocketsTypeOK, OneHolder, ReadsOfPast,
       WasThere, ScanBeforeReads, HoldingSeen, Holding, Collecting, EdgesExplained, EdgeExplained,
       OwnerExplained, VerifiedOwnersHeld, observationVars, worldVars, kernelVars, collectorVars,
       passVars, historyVars

LEMMA SandwichInit == ObservationInit => SandwichInv
<1> SUFFICES ASSUME ObservationInit PROVE SandwichInv
  OBVIOUS
<1>1. KernelTypeOK /\ OneHolder
  BY KernelAssumption, StartAssumption
     DEF ObservationInit, WorldInit, KernelInit, KernelTypeOK, Table, OneHolder
<1>2. SocketsTypeOK
  BY SocketsAssumption DEF ObservationInit, WorldInit, SocketsTypeOK
<1>3. ReadTypes /\ ReadsOfPast
  BY <1>1, <1>2, UnreadType
     DEF ObservationInit, CollectorInit, ReadTypes, ReadsOfPast, WasThere, NoPass
<1>4. ScanBeforeReads /\ HoldingSeen /\ EdgesExplained /\ VerifiedOwnersHeld
  BY DEF ObservationInit, CollectorInit, ScanBeforeReads, HoldingSeen, Collecting,
         EdgesExplained, VerifiedOwnersHeld
<1> QED
  BY <1>1, <1>3, <1>4 DEF SandwichInv, ReadInv

\* An owner kick verified really held the socket, under the incarnation the snapshot
\* names, during the pass that was published (VerifiedOwnersHeld): compare_passes
\* is enough, whatever the world does between the reads.
THEOREM VerifiedOwnersReallyHeld == ObservationSpec => []VerifiedOwnersHeld
<1>1. ObservationInit => SandwichInv
  BY SandwichInit
<1>2. SandwichInv /\ [ObservationNext]_observationVars => SandwichInv'
  BY CollectorPart, ElsewherePart, IdlePart DEF ObservationNext, Ended, SandwichInv
<1>3. SandwichInv => VerifiedOwnersHeld
  BY DEF SandwichInv
<1> QED
  BY <1>1, <1>2, <1>3, PTL DEF ObservationSpec
-----------------------------------------------------------------------------
\* Nothing is missed
\*
\* The other half of the gate: what a process held ever since the attempt began
\* is in the snapshot, or a gap says that it may not be.  The argument follows
\* one holder through a pass.  Its socket is in the tables whenever they are
\* read; its PID is listed or a standing limit hides it; its descriptor is found
\* when it is scanned, or the scan reports a loss; and the marker read for its PID
\* is its own, for nobody else can have that PID meanwhile.

HoldersAlive == \A p \in Proc : holds[p] # {} => status[p] \in Live
QueueOfPids == queue \subseteq Pid

\* What was held all along is held now.
SteadyHolding == Collecting => heldThrough \subseteq Holding

\* Each part of a pass starts from the end of the one before it.
NothingUnread == Collecting /\ phase # "sockets" => unread = {}
NoEdgeYet == phase \in {"sockets", "list"} => edges = {}
ScanningOne ==
    /\ phase = "links" => cur \in queue
    /\ phase \in {"fds", "markers", "name", "again"} => queue # {}
StandingKept == Collecting => StandingGaps \subseteq gaps

RecordsComplete == Collecting => \A edge \in heldThrough : edge[1] \in unread \cup records

\* A PID is still to be scanned, or its edge was found, or a gap is reported that
\* names the PID or stands for all its sockets.
ToScan(pid) ==
    \/ phase \in {"sockets", "list"}
    \/ phase \in {"fds", "links"} /\ pid \in queue
Reported(pid) ==
    \E gap \in gaps : gap.endpoint = NoEndpoint /\ (gap.pid = pid \/ pid \notin Owned(edges))
AccountedFor(s, pid) == ToScan(pid) \/ <<s, pid>> \in edges \/ Reported(pid)
Accounted == Collecting => \A edge \in heldThrough : AccountedFor(edge[1], PidOf[edge[2]])
LinksAccounted ==
    phase = "links" =>
        \A edge \in heldThrough :
            PidOf[edge[2]] = cur => edge[1] \in links \/ <<edge[1], cur>> \in edges \/ lost # {}

HolderRead ==
    Collecting => \A edge \in heldThrough : reads[PidOf[edge[2]]].who \in {edge[2], NoProc}

\* A port whose holders the attempt lost sight of shows in a gap that names no
\* endpoint, or in an owner of it that stays unidentified.
Unidentified(some, of, pids, port) ==
    \E edge \in some : /\ PortOfSocket(edge[1]) = port /\ edge[2] \notin pids
                       /\ of[edge[2]].who = NoProc
Identifying == phase \in {"markers", "name", "again", "settle"}
MissedSeen(port) ==
    \/ \E gap \in first.gaps \cup gaps : gap.endpoint = NoEndpoint
    \/ Identifying /\ Unidentified(edges, reads, queue, port)
    \/ pass = "B" /\ Unidentified(first.edges, first.reads, {}, port)
MissedExplained == Collecting => \A port \in missed : MissedSeen(port)
FirstOfPair ==
    /\ first.edges \subseteq Socket \X Pid
    /\ Collecting /\ pass = "A" => first = NoPass
    /\ phase = "settle" => queue = {}

PassInv ==
    /\ HoldersAlive /\ QueueOfPids /\ SteadyHolding /\ NothingUnread /\ NoEdgeYet /\ ScanningOne
    /\ StandingKept /\ RecordsComplete /\ Accounted /\ LinksAccounted /\ HolderRead
    /\ MissedExplained /\ FirstOfPair

\* What is published says as much.
PublishedComplete ==
    phase = "taken" =>
        \A edge \in heldThrough :
            LET pid == PidOf[edge[2]]
            IN  /\ edge[1] \in snapshot.records
                /\ snapshot.reads[pid].who \in {edge[2], NoProc}
                /\ \/ <<edge[1], pid>> \in snapshot.edges
                   \/ snapshot.omitted
                   \/ \E gap \in snapshot.gaps :
                        /\ gap.endpoint = NoEndpoint
                        /\ gap.pid = pid \/ pid \notin Owned(snapshot.edges)
PublishedMissed ==
    phase = "taken" /\ ~snapshot.raced =>
        \A port \in missed :
            \/ snapshot.omitted
            \/ \E gap \in snapshot.gaps : gap.endpoint = NoEndpoint \/ PortOf[gap.endpoint] = port

PublishedOfPast ==
    phase = "taken" =>
        /\ heldThrough \subseteq Socket \X Proc /\ snapshot.edges \subseteq Socket \X Pid
        /\ \A pid \in Pid : WasThere(pid, snapshot.reads[pid].who)

PublishedInv == PublishedComplete /\ PublishedMissed /\ PublishedOfPast
CompleteInv == SandwichInv /\ PassInv /\ PublishedInv

-----------------------------------------------------------------------------
\* What the gate makes of it

\* A gap that names no endpoint may concern any port.
LEMMA GateSeesGaps ==
    ASSUME NEW target, Authority(target) = "complete"
    PROVE  /\ ~snapshot.raced /\ ~snapshot.omitted
           /\ \A gap \in snapshot.gaps : ~GapApplies(gap, target)
           /\ \A s \in Matched(target) : ~SocketPartial(s, target)
BY Zenon DEF Authority, ApplyingGaps

LEMMA PortGate ==
    ASSUME PublishedComplete, PublishedMissed, heldThrough \subseteq Socket \X Proc,
           NEW port \in Port, Granted([mode |-> "port", port |-> port])
    PROVE  /\ \A edge \in heldThrough :
                 edge[1] \in Listening /\ PortOfSocket(edge[1]) = port =>
                   /\ <<edge[1], PidOf[edge[2]]>> \in Rows([mode |-> "port", port |-> port])
                   /\ Who(PidOf[edge[2]]) = edge[2]
           /\ port \notin missed
<1> DEFINE target == [mode |-> "port", port |-> port]
<1>1. /\ phase = "taken" /\ ~snapshot.raced /\ ~snapshot.omitted
      /\ \A gap \in snapshot.gaps : ~GapApplies(gap, target)
      /\ \A s \in Matched(target) : ~SocketPartial(s, target)
  BY GateSeesGaps DEF Granted
<1>2. \A gap \in snapshot.gaps : gap.endpoint # NoEndpoint /\ PortOf[gap.endpoint] # port
  BY <1>1 DEF GapApplies
<1>3. port \notin missed
  BY <1>1, <1>2 DEF PublishedMissed
<1>4. ASSUME NEW edge \in heldThrough, edge[1] \in Listening, PortOfSocket(edge[1]) = port
      PROVE  /\ <<edge[1], PidOf[edge[2]]>> \in Rows(target)
             /\ Who(PidOf[edge[2]]) = edge[2]
  <2> DEFINE s == edge[1]
             pid == PidOf[edge[2]]
  <2>1. pid \in Pid
    BY KernelAssumption
  <2>2. /\ s \in snapshot.records /\ snapshot.reads[pid].who \in {edge[2], NoProc}
        /\ <<s, pid>> \in snapshot.edges
    BY <1>1, <1>2 DEF PublishedComplete
  <2>3. s \in Matched(target)
    BY <1>4, <2>2 DEF Matched
  <2>4. UnverifiedOwners(s) = {}
    BY <1>1, <2>3 DEF SocketPartial
  <2>5. pid \in Owners(s)
    BY <2>1, <2>2 DEF Owners, OwnersIn
  <2>6. Who(pid) # NoProc
    BY <2>4, <2>5 DEF UnverifiedOwners
  <2>7. <<s, pid>> \in Rows(target)
    BY <2>2, <2>3 DEF Rows
  <2> QED
    BY <2>2, <2>6, <2>7 DEF Who
<1> QED
  BY <1>3, <1>4

LEMMA PidGate ==
    ASSUME PublishedComplete, heldThrough \subseteq Socket \X Proc,
           NEW pid \in Pid, Granted([mode |-> "pid", pid |-> pid]),
           Rows([mode |-> "pid", pid |-> pid]) # {}, WasThere(pid, Who(pid))
    PROVE  /\ Who(pid) # NoProc
           /\ \A edge \in heldThrough :
                 edge[2] = Who(pid) /\ edge[1] \in Listening =>
                   <<edge[1], pid>> \in Rows([mode |-> "pid", pid |-> pid])
<1> DEFINE target == [mode |-> "pid", pid |-> pid]
<1>1. /\ phase = "taken" /\ ~snapshot.omitted
      /\ \A gap \in snapshot.gaps : ~GapApplies(gap, target)
      /\ \A s \in Matched(target) : ~SocketPartial(s, target)
  BY GateSeesGaps DEF Granted
<1>2. \A gap \in snapshot.gaps : gap.endpoint = NoEndpoint => gap.pid # pid
  BY <1>1 DEF GapApplies
<1>3. PICK row \in snapshot.edges : row[1] \in Matched(target) /\ row[2] = pid
  BY DEF Rows
<1>4. pid \in Owned(snapshot.edges) /\ pid \in Owners(row[1])
  BY <1>3 DEF Owned, Matched
<1>5. Who(pid) # NoProc
  BY <1>1, <1>3, <1>4 DEF SocketPartial, UnverifiedOwners
<1>6. ASSUME NEW edge \in heldThrough, edge[2] = Who(pid), edge[1] \in Listening
      PROVE  <<edge[1], pid>> \in Rows(target)
  <2> DEFINE s == edge[1]
  <2>1. PidOf[edge[2]] = pid
    BY <1>5, <1>6 DEF WasThere
  <2>2. s \in snapshot.records /\ <<s, pid>> \in snapshot.edges
    BY <1>1, <1>2, <1>4, <2>1 DEF PublishedComplete
  <2>3. s \in Matched(target)
    BY <1>6, <2>2 DEF Matched, Owners, OwnersIn
  <2> QED
    BY <2>2, <2>3 DEF Rows
<1> QED
  BY <1>5, <1>6

-----------------------------------------------------------------------------
\* The steps of a pass

\* Who holds a socket has its PID, and shows there unless a standing limit hides it.
LEMMA HolderIsOccupant ==
    ASSUME OneHolder, HoldersAlive, SteadyHolding, Collecting, NEW edge \in heldThrough
    PROVE  /\ edge \in Socket \X Proc /\ edge[1] \in holds[edge[2]] /\ Alive(edge[2])
           /\ Occupant(PidOf[edge[2]]) = edge[2] /\ PidOf[edge[2]] \in Pid
           /\ Seen(PidOf[edge[2]]) \in {edge[2], NoProc}
           /\ blind = {} => Seen(PidOf[edge[2]]) = edge[2]
<1>1. edge \in Socket \X Proc /\ edge[1] \in holds[edge[2]]
  BY DEF SteadyHolding, Holding
<1>2. edge[2] \in Proc /\ status[edge[2]] \in Live
  BY <1>1 DEF HoldersAlive
<1>3. Has(PidOf[edge[2]], edge[2])
  BY <1>2 DEF Has, Present
<1>4. Occupant(PidOf[edge[2]]) = edge[2]
  BY <1>2, <1>3, OccupantIs
<1> QED
  BY <1>1, <1>2, <1>4, KernelAssumption DEF Alive, Seen

\* The first of the PIDs still to do is one of them.
LEMMA EarliestIn ==
    ASSUME NEW pids, pids \subseteq Pid, pids # {}
    PROVE  Earliest(pids) \in pids
<1>1. \A pid \in pids : pid \in Nat
  BY KernelAssumption
<1>2. \E pid \in pids : \A other \in pids : pid <= other
  BY <1>1, NatMin
<1> QED
  BY <1>2 DEF Earliest

\* A gap of this pass that names the PID, or stands for all of its sockets, is not
\* forgotten while others are scanned.
LEMMA ReportedStays ==
    ASSUME NEW pid, Reported(pid), gaps \subseteq gaps',
           pid \in Owned(edges') => pid \in Owned(edges)
    PROVE  Reported(pid)'
BY DEF Reported

\* A pass begins with everything still to read.
LEMMA NewPassComplete ==
    ASSUME ReadInv, HoldersAlive, NEW which \in {"A", "B"}, BeginPass(which), UNCHANGED worldVars,
           UNCHANGED blind, heldThrough' \subseteq Holding, first'.edges \subseteq Socket \X Pid,
           which = "A" => first' = NoPass,
           \A port \in missed' :
              \/ \E gap \in first'.gaps : gap.endpoint = NoEndpoint
              \/ which = "B" /\ Unidentified(first'.edges, first'.reads, {}, port)
    PROVE  PassInv' /\ PublishedInv'
<1>1. HoldersAlive' /\ Holding' = Holding
  BY DEF HoldersAlive, Holding, worldVars, kernelVars
<1>2. /\ phase' = "sockets" /\ pass' = which /\ unread' = Socket /\ gaps' = StandingGaps
      /\ edges' = {} /\ reads' = Unread /\ queue' = {}
  BY DEF BeginPass
<1>3. QueueOfPids' /\ SteadyHolding' /\ NothingUnread' /\ NoEdgeYet' /\ ScanningOne'
  BY <1>1, <1>2 DEF QueueOfPids, SteadyHolding, NothingUnread, NoEdgeYet, ScanningOne
<1>4. StandingKept' /\ Accounted' /\ LinksAccounted'
  BY <1>2 DEF StandingKept, StandingGaps, Accounted, AccountedFor, ToScan, LinksAccounted
<1>5. RecordsComplete'
  BY <1>2 DEF RecordsComplete, Holding
<1>6. HolderRead'
  BY <1>2, UnreadType, KernelAssumption DEF HolderRead, Holding
<1>7. MissedExplained' /\ FirstOfPair'
  BY <1>2 DEF MissedExplained, MissedSeen, FirstOfPair
<1>8. PublishedInv'
  BY <1>2 DEF PublishedInv, PublishedComplete, PublishedMissed, PublishedOfPast
<1> QED
  BY <1>1, <1>3, <1>4, <1>5, <1>6, <1>7, <1>8 DEF PassInv

\* The table readers reach every socket that stays.
LEMMA ReadSocketComplete == ReadInv /\ PassInv /\ ReadSocket => PassInv' /\ PublishedInv'
<1> SUFFICES ASSUME ReadInv, PassInv, ReadSocket PROVE PassInv' /\ PublishedInv'
  OBVIOUS
<1>1. PICK s \in unread :
        /\ phase = "sockets" /\ unread' = unread \ {s}
        /\ records' = IF Exists(s) THEN records \cup {s} ELSE records
        /\ phase' = IF unread' = {} THEN "list" ELSE "sockets"
  BY DEF ReadSocket
<1>2. /\ UNCHANGED <<status, holds, blind, pass, queue, cur, links, lost, edges, gaps, reads>>
      /\ UNCHANGED <<first, snapshot, missed, heldThrough>>
      /\ Collecting /\ Collecting'
  BY <1>1 DEF ReadSocket, worldVars, kernelVars, historyVars, Collecting
<1>3. RecordsComplete'
  <2> SUFFICES ASSUME NEW edge \in heldThrough PROVE edge[1] \in unread' \cup records'
    BY <1>2 DEF RecordsComplete
  <2>1. edge[1] \in unread \cup records
    BY <1>2 DEF PassInv, RecordsComplete
  <2>2. Exists(edge[1])
    BY <1>2, HolderIsOccupant DEF PassInv, ReadInv, Exists
  <2> QED
    BY <1>1, <2>1, <2>2
<1>4. HoldersAlive' /\ QueueOfPids' /\ SteadyHolding' /\ NothingUnread' /\ NoEdgeYet' /\ ScanningOne'
  BY <1>1, <1>2
     DEF PassInv, HoldersAlive, QueueOfPids, SteadyHolding, Holding, NothingUnread, NoEdgeYet,
         ScanningOne
<1>5. StandingKept' /\ Accounted' /\ LinksAccounted' /\ HolderRead'
  BY <1>1, <1>2
     DEF PassInv, StandingKept, StandingGaps, Accounted, AccountedFor, ToScan, LinksAccounted,
         HolderRead
<1>6. MissedExplained' /\ FirstOfPair'
  BY <1>1, <1>2 DEF PassInv, MissedExplained, MissedSeen, Identifying, FirstOfPair
<1>7. PublishedInv'
  BY <1>1 DEF PublishedInv, PublishedComplete, PublishedMissed, PublishedOfPast
<1> QED
  BY <1>3, <1>4, <1>5, <1>6, <1>7 DEF PassInv

\* A holder is listed, or a standing limit hides it and is reported.
LEMMA ListComplete == ReadInv /\ PassInv /\ ListPids => PassInv' /\ PublishedInv'
<1> SUFFICES ASSUME ReadInv, PassInv, ListPids PROVE PassInv' /\ PublishedInv'
  OBVIOUS
<1>1. /\ phase = "list" /\ phase' = IF queue' = {} THEN "settle" ELSE "fds"
      /\ queue' = IF records = {} THEN {} ELSE {pid \in Pid : Seen(pid) # NoProc}
      /\ unread = {} /\ edges = {}
  BY DEF ListPids, PassInv, NothingUnread, NoEdgeYet, Collecting
<1>2. /\ UNCHANGED <<status, holds, blind, pass, unread, records, cur, links, lost, edges, gaps>>
      /\ UNCHANGED <<reads, first, snapshot, missed, heldThrough>>
      /\ Collecting /\ Collecting'
  BY <1>1 DEF ListPids, worldVars, kernelVars, historyVars, Collecting
<1>3. ASSUME NEW edge \in heldThrough
      PROVE  AccountedFor(edge[1], PidOf[edge[2]])'
  <2> DEFINE pid == PidOf[edge[2]]
  <2>1. records # {}
    BY <1>1, <1>2 DEF PassInv, RecordsComplete
  <2>2. CASE blind = {}
    <3>1. pid \in Pid /\ Seen(pid) = edge[2] /\ edge[2] \in Proc
      BY <1>2, <2>2, HolderIsOccupant DEF PassInv, ReadInv
    <3>2. pid \in queue'
      BY <1>1, <2>1, <3>1, KernelAssumption
    <3> QED
      BY <1>1, <3>2 DEF AccountedFor, ToScan
  <2>3. CASE blind # {}
    <3>1. ScanGap("attribution", NoPid) \in gaps
      BY <1>2, <2>3 DEF PassInv, StandingKept, StandingGaps
    <3>2. pid \notin Owned(edges)
      BY <1>1 DEF Owned
    <3>3. Reported(pid)
      BY <3>1, <3>2 DEF Reported, ScanGap
    <3> QED
      BY <1>2, <3>3 DEF AccountedFor, Reported
  <2> QED
    BY <2>2, <2>3
<1>4. HoldersAlive' /\ QueueOfPids' /\ SteadyHolding' /\ NothingUnread' /\ NoEdgeYet' /\ ScanningOne'
  BY <1>1, <1>2
     DEF PassInv, HoldersAlive, QueueOfPids, SteadyHolding, Holding, NothingUnread, NoEdgeYet,
         ScanningOne
<1>5. StandingKept' /\ RecordsComplete' /\ Accounted' /\ LinksAccounted' /\ HolderRead'
  BY <1>1, <1>2, <1>3
     DEF PassInv, StandingKept, StandingGaps, RecordsComplete, Accounted, LinksAccounted, HolderRead
<1>6. MissedExplained' /\ FirstOfPair'
  BY <1>1, <1>2 DEF PassInv, MissedExplained, MissedSeen, Identifying, FirstOfPair
<1>7. PublishedInv'
  BY <1>1 DEF PublishedInv, PublishedComplete, PublishedMissed, PublishedOfPast
<1> QED
  BY <1>4, <1>5, <1>6, <1>7 DEF PassInv

\* The scan of a process ends: its holders' edges were found, or the loss is
\* reported, under its PID if any edge of it was found.
LEMMA ScanEndsComplete ==
    ASSUME ReadInv, PassInv, phase \in {"fds", "links"}, NEW pid \in queue, NEW found, NEW losses,
           FinishScan(pid, found, losses), edges' = found,
           edges \subseteq found, found \subseteq edges \cup (Socket \X {pid}),
           UNCHANGED <<status, holds, blind, pass, unread, records, reads, first, heldThrough>>,
           \A edge \in heldThrough :
              PidOf[edge[2]] = pid => <<edge[1], pid>> \in found \/ losses # {}
    PROVE  PassInv' /\ PublishedInv'
<1> DEFINE pending_ == queue \ {pid}
<1>1. /\ gaps' = gaps \cup {ScanGap(code, LossScope(pid, found)) : code \in losses}
      /\ missed' = IF losses = {} THEN missed ELSE Port
      /\ pending_ # {} => phase' = "fds" /\ queue' = pending_
      /\ pending_ = {} /\ found # {} => phase' = "markers" /\ queue' = Owned(found)
      /\ pending_ = {} /\ found = {} => phase' = "settle" /\ queue' = {}
  BY DEF FinishScan, ScanNext
<1>2. /\ phase' \in {"fds", "markers", "settle"} /\ (phase' = "settle" => queue' = {})
      /\ Collecting /\ Collecting' /\ phase \notin {"sockets", "list"} /\ ~Identifying
  BY <1>1 DEF Collecting, Identifying
<1>3. pid \in Pid /\ edges \subseteq Socket \X Pid
  BY DEF PassInv, QueueOfPids, ReadInv, ReadTypes
<1>4. ASSUME losses # {}
      PROVE  \E gap \in gaps' : /\ gap.endpoint = NoEndpoint
                                /\ gap.pid = pid \/ pid \notin Owned(found)
  <2>1. PICK code \in losses : TRUE
    BY <1>4
  <2>2. ScanGap(code, LossScope(pid, found)) \in gaps'
    BY <1>1
  <2> QED
    BY <2>2 DEF ScanGap, LossScope
<1>5. ASSUME NEW edge \in heldThrough
      PROVE  AccountedFor(edge[1], PidOf[edge[2]])'
  <2> DEFINE q == PidOf[edge[2]]
  <2>1. AccountedFor(edge[1], q)
    BY <1>2 DEF PassInv, Accounted
  <2>2. CASE q = pid
    <3>1. <<edge[1], q>> \in found \/ losses # {}
      BY <2>2
    <3>2. CASE losses # {}
      <4>1. PICK gap \in gaps' : gap.endpoint = NoEndpoint /\ (gap.pid = q \/ q \notin Owned(found))
        BY <1>4, <2>2, <3>2
      <4>2. Owned(edges)' = Owned(found)
        BY DEF Owned
      <4>3. Reported(q)'
        BY <4>1, <4>2 DEF Reported
      <4> QED
        BY <4>3 DEF AccountedFor
    <3> QED
      BY <3>1, <3>2 DEF AccountedFor
  <2>3. CASE q # pid
    <3>1. q \in Owned(found) => q \in Owned(edges)
      BY <2>3 DEF Owned
    <3>2. CASE ToScan(q)
      BY <1>1, <1>2, <2>3, <3>2 DEF AccountedFor, ToScan
    <3>3. CASE <<edge[1], q>> \in edges
      BY <3>3 DEF AccountedFor
    <3>4. CASE Reported(q)
      BY <1>1, <3>1, <3>4, ReportedStays DEF AccountedFor
    <3> QED
      BY <2>1, <3>2, <3>3, <3>4 DEF AccountedFor
  <2> QED
    BY <2>2, <2>3
<1>6. MissedExplained'
  <2> SUFFICES ASSUME NEW port \in missed' PROVE MissedSeen(port)'
    BY DEF MissedExplained
  <2>1. CASE losses # {}
    <3>1. PICK gap \in gaps' : gap.endpoint = NoEndpoint
      BY <1>4, <2>1
    <3>2. gap \in (first.gaps \cup gaps)'
      BY <3>1
    <3> QED
      BY <3>1, <3>2 DEF MissedSeen
  <2>2. CASE losses = {}
    <3>1. MissedSeen(port)
      BY <1>1, <1>2, <2>2 DEF PassInv, MissedExplained
    <3> QED
      BY <1>1, <1>2, <3>1 DEF MissedSeen, Unidentified, PortOfSocket
  <2> QED
    BY <2>1, <2>2
<1>7. QueueOfPids' /\ ScanningOne'
  BY <1>1, <1>3 DEF PassInv, QueueOfPids, ScanningOne, Owned
<1>8. HoldersAlive' /\ SteadyHolding' /\ NothingUnread' /\ NoEdgeYet' /\ RecordsComplete'
  BY <1>2
     DEF PassInv, HoldersAlive, SteadyHolding, Holding, NothingUnread, NoEdgeYet, RecordsComplete
<1>9. StandingKept' /\ Accounted' /\ LinksAccounted' /\ HolderRead' /\ FirstOfPair'
  BY <1>1, <1>2, <1>5
     DEF PassInv, StandingKept, StandingGaps, Accounted, LinksAccounted, HolderRead, FirstOfPair
<1>10. PublishedInv'
  BY <1>2 DEF PublishedInv, PublishedComplete, PublishedMissed, PublishedOfPast
<1> QED
  BY <1>6, <1>7, <1>8, <1>9, <1>10 DEF PassInv

\* A holder that is scanned lists the socket, or the scan is refused.
LEMMA OpenComplete == ReadInv /\ PassInv /\ OpenDescriptors => PassInv' /\ PublishedInv'
<1> SUFFICES ASSUME ReadInv, PassInv, OpenDescriptors PROVE PassInv' /\ PublishedInv'
  OBVIOUS
<1> DEFINE pid == Earliest(queue)
           who == Seen(pid)
<1>1. phase = "fds" /\ Collecting /\ cur' = pid
  BY DEF OpenDescriptors, Collecting
<1>2. /\ UNCHANGED <<status, holds, blind, pass, unread, records, edges, reads, first, heldThrough>>
      /\ UNCHANGED snapshot
  BY DEF OpenDescriptors, worldVars, kernelVars, historyVars
<1>3. pid \in queue
  BY <1>1, EarliestIn DEF PassInv, QueueOfPids, ScanningOne
<1>4. ASSUME NEW edge \in heldThrough, PidOf[edge[2]] = pid
      PROVE  /\ edge[1] \in records /\ edge[1] \in holds[edge[2]]
             /\ Seen(pid) \in {edge[2], NoProc}
  BY <1>1, <1>4, HolderIsOccupant DEF PassInv, ReadInv, RecordsComplete, NothingUnread
<1>5. CASE \E losses \in {{"gone"}, {"denied"}} : FinishScan(pid, edges, losses)
  BY <1>1, <1>2, <1>3, <1>5, ScanEndsComplete
<1>6. CASE Alive(who) /\ holds[who] \cap records = {} /\ FinishScan(pid, edges, {})
  <2>1. \A edge \in heldThrough : PidOf[edge[2]] # pid
    BY <1>4, <1>6, KernelAssumption DEF Alive
  <2> QED
    BY <1>1, <1>2, <1>3, <1>6, <2>1, ScanEndsComplete
<1>7. CASE /\ Alive(who) /\ links' = holds[who] \cap records /\ phase' = "links"
           /\ UNCHANGED <<queue, lost, gaps, missed>>
  <2>1. LinksAccounted'
    BY <1>1, <1>2, <1>4, <1>7, KernelAssumption DEF LinksAccounted, Alive
  <2>2. Collecting' /\ ScanningOne'
    BY <1>1, <1>3, <1>7 DEF Collecting, ScanningOne
  <2>3. Accounted'
    BY <1>1, <1>2, <1>7 DEF PassInv, Accounted, AccountedFor, ToScan, Reported
  <2>4. HoldersAlive' /\ QueueOfPids' /\ SteadyHolding' /\ NothingUnread' /\ NoEdgeYet'
        /\ RecordsComplete'
    BY <1>1, <1>2, <1>7
       DEF PassInv, HoldersAlive, QueueOfPids, SteadyHolding, Holding, NothingUnread, NoEdgeYet,
           RecordsComplete
  <2>5. StandingKept' /\ HolderRead' /\ FirstOfPair' /\ MissedExplained'
    BY <1>1, <1>2, <1>7
       DEF PassInv, StandingKept, StandingGaps, HolderRead, FirstOfPair, MissedExplained,
           MissedSeen, Identifying
  <2>6. PublishedInv'
    BY <1>7 DEF PublishedInv, PublishedComplete, PublishedMissed, PublishedOfPast
  <2> QED
    BY <2>1, <2>2, <2>3, <2>4, <2>5, <2>6 DEF PassInv
<1> QED
  BY <1>5, <1>6, <1>7 DEF OpenDescriptors

\* A descriptor of a holder resolves to its socket, or what was lost is counted.
LEMMA LinkComplete == ReadInv /\ PassInv /\ (ReadLink \/ LinkFails) => PassInv' /\ PublishedInv'
<1> SUFFICES ASSUME ReadInv, PassInv, ReadLink \/ LinkFails PROVE PassInv' /\ PublishedInv'
  OBVIOUS
<1>0. PICK s \in links : \E result \in {"edge", "gone", "denied", "attribution"} :
        /\ ResolveLink(s, result)
        /\ result = "edge" => Alive(Seen(cur)) /\ s \in holds[Seen(cur)]
  BY DEF ReadLink, LinkFails, LinkTarget
<1>1. PICK result \in {"edge", "gone", "denied", "attribution"} :
        /\ ResolveLink(s, result)
        /\ result = "edge" => Alive(Seen(cur)) /\ s \in holds[Seen(cur)]
  BY <1>0
<1> DEFINE losses == IF result = "edge" THEN lost ELSE lost \cup {result}
<1>2. /\ UNCHANGED <<status, holds, blind, pass, unread, records, reads, first, heldThrough>>
      /\ UNCHANGED <<cur, snapshot>>
      /\ phase = "links" /\ Collecting
  BY <1>1 DEF ReadLink, LinkFails, ResolveLink, Unmoved, worldVars, kernelVars, historyVars, Collecting
<1>3. /\ edges' = IF result = "edge" THEN edges \cup {<<s, cur>>} ELSE edges
      /\ links = {s} => FinishScan(cur, edges', losses)
      /\ links # {s} => links' = links \ {s} /\ lost' = losses /\ UNCHANGED <<phase, queue, gaps, missed>>
  BY <1>1 DEF ResolveLink
<1>4. cur \in queue /\ cur \in Pid
  BY <1>2 DEF PassInv, ScanningOne, QueueOfPids
<1>5. result = "edge" => s \in Socket
  BY <1>1, SeenHolds DEF Alive, ReadInv, ReadTypes, SocketsTypeOK
<1>6. edges \subseteq edges' /\ edges' \subseteq edges \cup (Socket \X {cur})
  BY <1>3, <1>5
<1>7. \A edge \in heldThrough :
         PidOf[edge[2]] = cur =>
            edge[1] \in links \ {s} \/ <<edge[1], cur>> \in edges' \/ losses # {}
  BY <1>2, <1>3 DEF PassInv, LinksAccounted
<1>8. CASE links = {s}
  <2>1. FinishScan(cur, edges', losses)
    BY <1>3, <1>8
  <2>2. \A edge \in heldThrough :
           PidOf[edge[2]] = cur => <<edge[1], cur>> \in edges' \/ losses # {}
    BY <1>7, <1>8
  <2> HIDE DEF losses
  <2> QED
    BY <1>2, <1>4, <1>6, <2>1, <2>2, ScanEndsComplete
<1>9. CASE links # {s}
  <2>1. UNCHANGED <<phase, queue, gaps, missed>> /\ links' = links \ {s} /\ lost' = losses
    BY <1>3, <1>9
  <2>2. ASSUME NEW edge \in heldThrough
        PROVE  AccountedFor(edge[1], PidOf[edge[2]])'
    <3> DEFINE q == PidOf[edge[2]]
    <3>1. AccountedFor(edge[1], q)
      BY <1>2 DEF PassInv, Accounted
    <3>2. CASE ToScan(q)
      BY <2>1, <3>2 DEF AccountedFor, ToScan
    <3>3. CASE <<edge[1], q>> \in edges
      BY <1>6, <3>3 DEF AccountedFor
    <3>4. CASE Reported(q) /\ ~ToScan(q)
      <4>1. q # cur
        BY <1>2, <1>4, <3>4 DEF ToScan
      <4>2. q \in Owned(edges') => q \in Owned(edges)
        BY <1>6, <4>1 DEF Owned
      <4> QED
        BY <2>1, <3>4, <4>2, ReportedStays DEF AccountedFor
    <3> QED
      BY <3>1, <3>2, <3>3, <3>4 DEF AccountedFor
  <2>3. LinksAccounted'
    BY <1>2, <1>7, <2>1 DEF LinksAccounted
  <2>4. HoldersAlive' /\ QueueOfPids' /\ SteadyHolding' /\ NothingUnread' /\ NoEdgeYet'
        /\ RecordsComplete' /\ ScanningOne' /\ Accounted'
    BY <1>2, <1>4, <2>1, <2>2
       DEF PassInv, HoldersAlive, QueueOfPids, SteadyHolding, Holding, NothingUnread, NoEdgeYet,
           RecordsComplete, ScanningOne, Accounted
  <2>5. StandingKept' /\ HolderRead' /\ FirstOfPair'
    BY <1>2, <2>1
       DEF PassInv, StandingKept, StandingGaps, HolderRead, FirstOfPair, Collecting
  <2>6. MissedExplained'
    BY <1>2, <2>1
       DEF PassInv, MissedExplained, MissedSeen, Identifying, Unidentified, PortOfSocket
  <2>7. PublishedInv'
    BY <1>2, <2>1 DEF PublishedInv, PublishedComplete, PublishedMissed, PublishedOfPast
  <2> QED
    BY <2>3, <2>4, <2>5, <2>6, <2>7 DEF PassInv
<1> QED
  BY <1>8, <1>9

-----------------------------------------------------------------------------
\* Identities, again

\* While owners are identified nothing else moves.
LEMMA IdentityFrames ==
    ASSUME ReadInv, PassInv, Identifying, Identifying',
           UNCHANGED <<status, holds, blind, pass, unread, records, edges, gaps, first>>,
           UNCHANGED <<snapshot, heldThrough>>,
           queue' \subseteq queue, phase' # "settle" => queue' # {}, phase' = "settle" => queue' = {}
    PROVE  /\ HoldersAlive' /\ QueueOfPids' /\ SteadyHolding' /\ NothingUnread' /\ NoEdgeYet'
           /\ ScanningOne' /\ StandingKept' /\ RecordsComplete' /\ Accounted' /\ LinksAccounted'
           /\ FirstOfPair' /\ PublishedInv'
<1>1. /\ Collecting /\ Collecting' /\ phase \in {"markers", "name", "again", "settle"}
      /\ phase' \in {"markers", "name", "again", "settle"}
  BY DEF Collecting, Identifying
<1>2. HoldersAlive' /\ QueueOfPids' /\ SteadyHolding' /\ NothingUnread' /\ NoEdgeYet' /\ ScanningOne'
      /\ RecordsComplete'
  BY <1>1
     DEF PassInv, HoldersAlive, QueueOfPids, SteadyHolding, Holding, NothingUnread, NoEdgeYet,
         ScanningOne, RecordsComplete
<1>3. StandingKept' /\ Accounted' /\ LinksAccounted' /\ FirstOfPair'
  BY <1>1
     DEF PassInv, StandingKept, StandingGaps, Accounted, AccountedFor, ToScan, Reported,
         LinksAccounted, FirstOfPair
<1>4. PublishedInv'
  BY <1>1 DEF PublishedInv, PublishedComplete, PublishedMissed, PublishedOfPast
<1> QED
  BY <1>2, <1>3, <1>4

\* An owner's identity is settled: its marker is that of the holder, or it stays
\* unidentified and the ports it owns are missed.
LEMMA IdentifiedComplete ==
    ASSUME ReadInv, PassInv, phase \in {"markers", "again"}, NEW read \in Read,
           Identified(Earliest(queue), read),
           \A edge \in heldThrough :
              PidOf[edge[2]] = Earliest(queue) => read.who \in {edge[2], NoProc},
           UNCHANGED <<status, holds, blind, pass, unread, records, edges, gaps, first>>,
           UNCHANGED <<snapshot, heldThrough>>
    PROVE  PassInv' /\ PublishedInv'
<1> DEFINE pid == Earliest(queue)
<1>1. pid \in queue /\ pid \in Pid
  BY EarliestIn DEF PassInv, QueueOfPids, ScanningOne
<1>2. /\ reads' = [reads EXCEPT ![pid] = read] /\ queue' = queue \ {pid}
      /\ missed' = IF read.who = NoProc THEN missed \cup PortsOwnedBy(pid) ELSE missed
      /\ phase' = IF queue' = {} THEN "settle" ELSE "markers"
  BY DEF Identified
<1>3. Identifying /\ Identifying' /\ Collecting
  BY <1>2 DEF Identifying, Collecting
<1>4. /\ reads'[pid] = read /\ \A other \in Pid \ {pid} : reads'[other] = reads[other]
  BY <1>1, <1>2 DEF ReadInv, ReadTypes
<1>5. HolderRead'
  <2> SUFFICES ASSUME NEW edge \in heldThrough
               PROVE  reads'[PidOf[edge[2]]].who \in {edge[2], NoProc}
    BY DEF HolderRead
  <2>1. PidOf[edge[2]] \in Pid /\ reads[PidOf[edge[2]]].who \in {edge[2], NoProc}
    BY <1>3, HolderIsOccupant DEF PassInv, ReadInv, HolderRead
  <2> QED
    BY <1>4, <2>1
<1>6. MissedExplained'
  <2> SUFFICES ASSUME NEW port \in missed' PROVE MissedSeen(port)'
    BY DEF MissedExplained
  <2>1. CASE read.who = NoProc /\ port \in PortsOwnedBy(pid)
    <3>1. PICK edge \in edges : edge[2] = pid /\ PortOf[EndpointOf[edge[1]]] = port
      BY <2>1 DEF PortsOwnedBy
    <3>2. Unidentified(edges', reads', queue', port)
      BY <1>2, <1>4, <2>1, <3>1 DEF Unidentified, PortOfSocket
    <3> QED
      BY <1>3, <3>2 DEF MissedSeen
  <2>2. CASE port \in missed
    <3>1. MissedSeen(port)
      BY <1>3, <2>2 DEF PassInv, MissedExplained
    <3>2. CASE Unidentified(edges, reads, queue, port)
      <4>1. PICK edge \in edges : /\ PortOfSocket(edge[1]) = port /\ edge[2] \notin queue
                                  /\ reads[edge[2]].who = NoProc
        BY <3>2 DEF Unidentified
      <4>2. edge[2] \in Pid \ {pid}
        BY <1>1, <4>1 DEF ReadInv, ReadTypes
      <4>3. Unidentified(edges', reads', queue', port)
        BY <1>2, <1>4, <4>1, <4>2 DEF Unidentified, PortOfSocket
      <4> QED
        BY <1>3, <4>3 DEF MissedSeen
    <3>3. CASE ~Unidentified(edges, reads, queue, port)
      BY <3>1, <3>3 DEF MissedSeen, Unidentified, PortOfSocket
    <3> QED
      BY <3>2, <3>3
  <2> QED
    BY <1>2, <2>1, <2>2
<1> QED
  BY <1>2, <1>3, <1>5, <1>6, IdentityFrames DEF PassInv

\* The same of a read that goes on.
LEMMA HalfReadComplete ==
    ASSUME ReadInv, PassInv, phase \in {"markers", "name"}, phase' \in {"name", "again"},
           NEW read \in Read, reads' = [reads EXCEPT ![Earliest(queue)] = read],
           \A edge \in heldThrough :
              PidOf[edge[2]] = Earliest(queue) => read.who \in {edge[2], NoProc},
           UNCHANGED <<status, holds, blind, pass, unread, records, edges, gaps, first>>,
           UNCHANGED <<snapshot, heldThrough, queue, missed>>
    PROVE  PassInv' /\ PublishedInv'
<1> DEFINE pid == Earliest(queue)
<1>1. pid \in queue /\ pid \in Pid
  BY EarliestIn DEF PassInv, QueueOfPids, ScanningOne
<1>2. Identifying /\ Identifying' /\ Collecting /\ queue # {} /\ phase' # "settle"
  BY <1>1 DEF Identifying, Collecting
<1>3. /\ reads'[pid] = read /\ \A other \in Pid \ {pid} : reads'[other] = reads[other]
  BY <1>1 DEF ReadInv, ReadTypes
<1>4. HolderRead'
  <2> SUFFICES ASSUME NEW edge \in heldThrough
               PROVE  reads'[PidOf[edge[2]]].who \in {edge[2], NoProc}
    BY DEF HolderRead
  <2>1. PidOf[edge[2]] \in Pid /\ reads[PidOf[edge[2]]].who \in {edge[2], NoProc}
    BY <1>2, HolderIsOccupant DEF PassInv, ReadInv, HolderRead
  <2> QED
    BY <1>3, <2>1
<1>5. MissedExplained'
  <2> SUFFICES ASSUME NEW port \in missed PROVE MissedSeen(port)'
    BY DEF MissedExplained
  <2>1. MissedSeen(port)
    BY <1>2 DEF PassInv, MissedExplained
  <2>2. CASE Unidentified(edges, reads, queue, port)
    <3>1. PICK edge \in edges : /\ PortOfSocket(edge[1]) = port /\ edge[2] \notin queue
                                /\ reads[edge[2]].who = NoProc
      BY <2>2 DEF Unidentified
    <3>2. edge[2] \in Pid \ {pid}
      BY <1>1, <3>1 DEF ReadInv, ReadTypes
    <3>3. Unidentified(edges', reads', queue', port)
      BY <1>3, <3>1, <3>2 DEF Unidentified, PortOfSocket
    <3> QED
      BY <1>2, <3>3 DEF MissedSeen
  <2>3. CASE ~Unidentified(edges, reads, queue, port)
    BY <2>1, <2>3 DEF MissedSeen, Unidentified, PortOfSocket
  <2> QED
    BY <2>2, <2>3
<1> QED
  BY <1>2, <1>4, <1>5, IdentityFrames DEF PassInv

\* Every read of an identity.
LEMMA IdentityComplete ==
    ReadInv /\ PassInv /\ (ReadMarker \/ ReadName \/ ReadMarkerAgain \/ IdentityFails)
       => PassInv' /\ PublishedInv'
<1> SUFFICES ASSUME ReadInv, PassInv, ReadMarker \/ ReadName \/ ReadMarkerAgain \/ IdentityFails
             PROVE  PassInv' /\ PublishedInv'
  OBVIOUS
<1> DEFINE pid == Earliest(queue)
           who == Seen(pid)
<1>1. /\ UNCHANGED <<status, holds, blind, pass, unread, records, edges, gaps, first>>
      /\ UNCHANGED <<snapshot, heldThrough>>
      /\ Collecting
  BY DEF ReadMarker, ReadName, ReadMarkerAgain, IdentityFails, IdentityFrame, Unmoved, worldVars,
         kernelVars, historyVars, Collecting
<1>2. phase \in {"markers", "name", "again"} /\ pid \in queue /\ pid \in Pid
  BY EarliestIn
     DEF ReadMarker, ReadName, ReadMarkerAgain, IdentityFails, PassInv, QueueOfPids, ScanningOne
<1>3. ASSUME NEW edge \in heldThrough, PidOf[edge[2]] = pid
      PROVE  who \in {edge[2], NoProc} /\ reads[pid].who \in {edge[2], NoProc}
  BY <1>1, <1>3, HolderIsOccupant DEF PassInv, ReadInv, HolderRead
<1>4. ASSUME NEW why \in Reasons, phase \in {"markers", "again"}, Identified(pid, Unverified(why))
      PROVE  PassInv' /\ PublishedInv'
  BY <1>1, <1>4, UnverifiedType, IdentifiedComplete
<1>5. who # NoProc => who \in Proc
  BY SeenHolds
<1>6. CASE ReadMarker
  <2>1. CASE who = NoProc
    BY <1>4, <1>6, <2>1 DEF ReadMarker, Reasons
  <2>2. CASE who # NoProc /\ pass = "A"
    <3>1. Identified(pid, [NoRead EXCEPT !.who = who]) /\ phase = "markers"
      BY <1>6, <2>2 DEF ReadMarker
    <3>2. /\ [NoRead EXCEPT !.who = who] \in Read
          /\ [NoRead EXCEPT !.who = who].who = who
      BY <1>5, <2>2, MarkerType
    <3> QED
      BY <1>1, <1>3, <3>1, <3>2, IdentifiedComplete
  <2>3. CASE who # NoProc /\ pass # "A"
    <3>1. /\ reads' = [reads EXCEPT ![pid] = [NoRead EXCEPT !.who = who]]
          /\ phase = "markers" /\ phase' = "name" /\ UNCHANGED <<queue, missed>>
      BY <1>6, <2>3 DEF ReadMarker
    <3>2. /\ [NoRead EXCEPT !.who = who] \in Read
          /\ [NoRead EXCEPT !.who = who].who = who
      BY <1>5, <2>3, MarkerType
    <3> QED
      BY <1>1, <1>3, <3>1, <3>2, HalfReadComplete
  <2> QED
    BY <2>1, <2>2, <2>3
<1>7. CASE ReadName
  <2> DEFINE shown == IF who = NoProc THEN NoName ELSE name[who]
             read == [reads[pid] EXCEPT !.name = shown]
  <2>1. /\ reads' = [reads EXCEPT ![pid] = read] /\ phase = "name" /\ phase' = "again"
        /\ UNCHANGED <<queue, missed>>
    BY <1>7 DEF ReadName
  <2>2. shown \in Name \cup {NoName} /\ reads[pid] \in Read
    BY <1>2, <1>5 DEF ReadInv, ReadTypes, KernelTypeOK
  <2>3. read \in Read /\ read.who = reads[pid].who
    BY <2>2 DEF Read
  <2> QED
    BY <1>1, <1>3, <2>1, <2>3, HalfReadComplete
<1>8. CASE ReadMarkerAgain
  <2>1. phase = "again"
    BY <1>8 DEF ReadMarkerAgain
  <2>2. CASE who = NoProc \/ ~SameMarker(pid, who)
    BY <1>4, <1>8, <2>1, <2>2 DEF ReadMarkerAgain, Reasons
  <2>3. CASE who # NoProc /\ SameMarker(pid, who)
    <3>1. Identified(pid, reads[pid]) /\ reads[pid] \in Read
      BY <1>2, <1>8, <2>3 DEF ReadMarkerAgain, ReadInv, ReadTypes
    <3> QED
      BY <1>1, <1>3, <2>1, <3>1, IdentifiedComplete
  <2> QED
    BY <2>2, <2>3
<1>9. CASE IdentityFails
  <2>1. /\ \E why \in {"denied", "unavailable"} : Identified(pid, Unverified(why))
        /\ phase \in {"markers", "again"}
    BY <1>9 DEF IdentityFails
  <2> QED
    BY <1>4, <2>1 DEF Reasons
<1> QED
  BY <1>6, <1>7, <1>8, <1>9

-----------------------------------------------------------------------------
\* Publishing

\* What the last pass accounted for is published, and what both missed.
LEMMA PublishComplete ==
    ASSUME ReadInv, PassInv, phase = "settle", pass = "B", phase' = "taken",
           UNCHANGED <<heldThrough, missed, status>>,
           NEW found, MergedGaps(first) \cup OwnerGaps \subseteq found,
           NEW affected, Publish(~Stable(first), found, affected)
    PROVE  PublishedInv'
<1>1. PICK kept \in SUBSET found :
        snapshot' = [records |-> records, edges |-> edges, reads |-> reads, gaps |-> kept,
                     omitted |-> kept # found, raced |-> ~Stable(first), affected |-> affected]
  BY DEF Publish
<1>2. ~snapshot'.omitted => snapshot'.gaps = found
  BY <1>1
<1>3. /\ snapshot'.records = records /\ snapshot'.edges = edges /\ snapshot'.reads = reads
      /\ snapshot'.raced = ~Stable(first)
  BY <1>1
<1>4. Collecting /\ Identifying /\ unread = {} /\ queue = {} /\ first.gaps \cup gaps \subseteq found
  BY DEF Collecting, Identifying, PassInv, NothingUnread, FirstOfPair, MergedGaps
<1>5. PublishedComplete'
  <2> SUFFICES ASSUME NEW edge \in heldThrough
               PROVE  LET pid == PidOf[edge[2]]
                      IN  /\ edge[1] \in records /\ reads[pid].who \in {edge[2], NoProc}
                          /\ \/ <<edge[1], pid>> \in edges
                             \/ snapshot'.omitted
                             \/ \E gap \in snapshot'.gaps :
                                  /\ gap.endpoint = NoEndpoint
                                  /\ gap.pid = pid \/ pid \notin Owned(edges)
    BY <1>3 DEF PublishedComplete, Owned
  <2>1. AccountedFor(edge[1], PidOf[edge[2]])
    BY <1>4 DEF PassInv, Accounted
  <2>2. <<edge[1], PidOf[edge[2]]>> \in edges \/ Reported(PidOf[edge[2]])
    BY <2>1 DEF AccountedFor, ToScan
  <2> QED
    BY <1>2, <1>4, <2>2 DEF PassInv, RecordsComplete, HolderRead, Reported
<1>6. PublishedMissed'
  <2> SUFFICES ASSUME NEW port \in missed, Stable(first), ~snapshot'.omitted
               PROVE  \E gap \in found : gap.endpoint = NoEndpoint \/ PortOf[gap.endpoint] = port
    BY <1>2, <1>3 DEF PublishedMissed
  <2>1. MissedSeen(port)
    BY <1>4 DEF PassInv, MissedExplained
  <2>2. ASSUME NEW edge \in edges, PortOfSocket(edge[1]) = port, reads[edge[2]].who = NoProc
        PROVE  \E gap \in OwnerGaps : PortOf[gap.endpoint] = port
    <3> DEFINE gap == [code |-> reads[edge[2]].why, pid |-> edge[2], endpoint |-> EndpointOf[edge[1]]]
    <3>1. gap \in OwnerGaps
      BY <2>2 DEF OwnerGaps
    <3>2. PortOf[gap.endpoint] = port
      BY <2>2 DEF PortOfSocket
    <3> QED
      BY <3>1, <3>2
  <2>3. CASE Unidentified(edges, reads, queue, port)
    BY <2>2, <2>3 DEF Unidentified
  <2>4. CASE Unidentified(first.edges, first.reads, {}, port)
    <3>1. PICK edge \in first.edges : PortOfSocket(edge[1]) = port /\ first.reads[edge[2]].who = NoProc
      BY <2>4 DEF Unidentified
    <3>2. edge = <<edge[1], edge[2]>> /\ edge[1] \in Socket /\ edge[2] \in Pid
      BY <3>1 DEF PassInv, FirstOfPair
    <3>3. reads[edge[2]].who = NoProc
      BY <3>1, <3>2 DEF Stable, Reidentified
    <3>4. OwnersIn(first.edges, edge[1]) = OwnersIn(edges, edge[1])
      BY <3>2 DEF Stable, Disagreeing
    <3>5. edge \in edges
      BY <3>1, <3>2, <3>4 DEF OwnersIn
    <3> QED
      BY <2>2, <3>1, <3>3, <3>5
  <2>5. CASE \E gap \in first.gaps \cup gaps : gap.endpoint = NoEndpoint
    BY <1>4, <2>5
  <2> QED
    BY <2>1, <2>3, <2>4, <2>5 DEF MissedSeen
<1>7. PublishedOfPast'
  BY <1>3, <1>4
     DEF PublishedOfPast, ReadInv, ReadTypes, ReadsOfPast, WasThere, PassInv, SteadyHolding, Holding
<1> QED
  BY <1>5, <1>6, <1>7 DEF PublishedInv

\* Between the passes.
LEMMA PassComplete ==
    SandwichInv /\ PassInv /\ (Collect \/ EndPassA \/ EndAttempt \/ CollectionFails)
       => PassInv' /\ PublishedInv'
<1> SUFFICES ASSUME SandwichInv, PassInv, Collect \/ EndPassA \/ EndAttempt \/ CollectionFails
             PROVE  PassInv' /\ PublishedInv'
  OBVIOUS
<1>1. ReadInv /\ HoldersAlive
  BY DEF SandwichInv, PassInv
<1>2. ASSUME NEW n, BeginAttempt(n), UNCHANGED worldVars, UNCHANGED blind
      PROVE  PassInv' /\ PublishedInv'
  <2>1. /\ BeginPass("A") /\ first' = NoPass /\ heldThrough' = Holding /\ missed' = {}
        /\ first'.edges \subseteq Socket \X Pid
    BY <1>2 DEF BeginAttempt, NoPass
  <2> QED
    BY <1>1, <1>2, <2>1, NewPassComplete
<1>3. CASE Collect
  BY <1>2, <1>3 DEF Collect
<1>4. CASE EndPassA
  <2>1. /\ phase = "settle" /\ pass = "A" /\ BeginPass("B") /\ UNCHANGED worldVars
        /\ UNCHANGED <<blind, missed, heldThrough>>
        /\ first' = [records |-> records, edges |-> edges, gaps |-> gaps, reads |-> reads]
    BY <1>4 DEF EndPassA
  <2>2. Collecting /\ queue = {} /\ first = NoPass /\ edges \subseteq Socket \X Pid
    BY <1>1, <2>1 DEF Collecting, PassInv, FirstOfPair, ReadInv, ReadTypes
  <2>3. first'.gaps = gaps /\ first'.edges = edges /\ first'.reads = reads
    BY <2>1
  <2>4. ASSUME NEW port \in missed
        PROVE  \/ \E gap \in first'.gaps : gap.endpoint = NoEndpoint
               \/ Unidentified(first'.edges, first'.reads, {}, port)
    <3>1. MissedSeen(port)
      BY <2>2 DEF PassInv, MissedExplained
    <3>2. first.gaps = {}
      BY <2>2 DEF NoPass
    <3> QED
      BY <2>1, <2>2, <2>3, <3>1, <3>2 DEF MissedSeen
  <2>5. heldThrough \subseteq Holding
    BY <2>2 DEF PassInv, SteadyHolding
  <2> QED
    BY <1>1, <2>1, <2>2, <2>3, <2>4, <2>5, NewPassComplete
<1>5. CASE EndAttempt
  <2>1. CASE Stable(first) \/ LastAttempt
    <3>1. /\ phase = "settle" /\ pass = "B" /\ phase' = "taken" /\ Forget
          /\ UNCHANGED <<heldThrough, missed, status, holds, pass>>
          /\ Publish(~Stable(first), MergedGaps(first) \cup OwnerGaps,
                     IF Stable(first) THEN {} ELSE Affected(first))
      BY <1>5, <2>1 DEF EndAttempt, worldVars, kernelVars, historyVars
    <3>2. PublishedInv'
      BY <1>1, <3>1, PublishComplete
    <3>3. ~Collecting' /\ queue' = {} /\ edges' = {} /\ first' = NoPass
      BY <3>1 DEF Collecting, Forget
    <3>4. PassInv'
      BY <3>1, <3>3
         DEF PassInv, HoldersAlive, QueueOfPids, SteadyHolding, NothingUnread, NoEdgeYet, ScanningOne,
             StandingKept, RecordsComplete, Accounted, LinksAccounted, HolderRead, MissedExplained,
             FirstOfPair, NoPass
    <3> QED
      BY <3>2, <3>4
  <2>2. CASE ~(Stable(first) \/ LastAttempt)
    BY <1>2, <1>5, <2>2 DEF EndAttempt
  <2> QED
    BY <2>1, <2>2
<1>6. CASE CollectionFails
  <2>1. phase' = "failed" /\ Forget /\ UNCHANGED <<status, holds>>
    BY <1>6 DEF CollectionFails, Unmoved
  <2>2. ~Collecting' /\ queue' = {} /\ first' = NoPass
    BY <2>1 DEF Collecting, Forget
  <2>3. PassInv'
    BY <2>1, <2>2
       DEF PassInv, HoldersAlive, QueueOfPids, SteadyHolding, NothingUnread, NoEdgeYet, ScanningOne,
           StandingKept, RecordsComplete, Accounted, LinksAccounted, HolderRead, MissedExplained,
           FirstOfPair, NoPass
  <2>4. PublishedInv'
    BY <2>1 DEF PublishedInv, PublishedComplete, PublishedMissed, PublishedOfPast
  <2> QED
    BY <2>3, <2>4
<1> QED
  BY <1>3, <1>4, <1>5, <1>6

LEMMA CompleteStep == CompleteInv /\ CollectorStep => CompleteInv'
BY CollectorPart, ReadSocketComplete, ListComplete, OpenComplete, LinkComplete, IdentityComplete,
   PassComplete DEF CollectorStep, CompleteInv, SandwichInv

\* The world moves on: nobody who is not alive holds anything, and what was not held
\* through is no longer owed.
LEMMA HoldersStayAlive == KernelTypeOK /\ SocketsTypeOK /\ HoldersAlive /\ WorldStep => HoldersAlive'
<1> SUFFICES ASSUME KernelTypeOK, SocketsTypeOK, HoldersAlive, WorldStep PROVE HoldersAlive'
  OBVIOUS
<1>1. CASE KernelStep /\ Inherit
  BY <1>1 DEF Inherit, HoldersAlive
<1>2. CASE \E p \in Proc, s \in Socket :
             Open(p, s) \/ Close(p, s) \/ \E q \in Proc : Pass(p, q, s)
  <2>1. PICK p \in Proc, s \in Socket :
          Open(p, s) \/ Close(p, s) \/ \E q \in Proc : Pass(p, q, s)
    BY <1>2
  <2>2. CASE Open(p, s)
    BY <2>2 DEF Open, Unmoved, HoldersAlive, SocketsTypeOK, Live
  <2>3. CASE Close(p, s)
    BY <2>3 DEF Close, Unmoved, HoldersAlive, SocketsTypeOK, Live
  <2>4. CASE \E q \in Proc : Pass(p, q, s)
    BY <2>4 DEF Pass, Unmoved, HoldersAlive, SocketsTypeOK, Live
  <2> QED
    BY <2>1, <2>2, <2>3, <2>4
<1> QED
  BY <1>1, <1>2 DEF WorldStep

LEMMA ElsewhereComplete == CompleteInv /\ Elsewhere => CompleteInv'
<1> SUFFICES ASSUME CompleteInv, Elsewhere PROVE CompleteInv'
  OBVIOUS
<1>1. SandwichInv' /\ HoldersAlive'
  BY ElsewherePart, HoldersStayAlive
     DEF CompleteInv, SandwichInv, ReadInv, ReadTypes, PassInv, Elsewhere
<1>2. /\ UNCHANGED <<blind, phase, pass, unread, records, queue, cur, links, lost, edges, gaps>>
      /\ UNCHANGED <<reads, first, snapshot, missed>>
  BY DEF Elsewhere, collectorVars, passVars
<1>3. /\ Collecting => heldThrough' = heldThrough \cap Holding'
      /\ ~Collecting => heldThrough' = heldThrough
      /\ Collecting' = Collecting
  BY <1>2 DEF Elsewhere, historyVars, Collecting
<1>4. QueueOfPids' /\ SteadyHolding' /\ NothingUnread' /\ NoEdgeYet' /\ ScanningOne' /\ StandingKept'
  BY <1>2, <1>3
     DEF CompleteInv, PassInv, QueueOfPids, SteadyHolding, NothingUnread, NoEdgeYet, ScanningOne,
         StandingKept, StandingGaps
<1>5. heldThrough' \subseteq heldThrough
  BY <1>3
<1>6. RecordsComplete' /\ Accounted'
  BY <1>2, <1>3, <1>5
     DEF CompleteInv, PassInv, RecordsComplete, Accounted, AccountedFor, ToScan, Reported
<1>7. LinksAccounted' /\ HolderRead'
  BY <1>2, <1>3, <1>5 DEF CompleteInv, PassInv, LinksAccounted, HolderRead, Collecting
<1>8. MissedExplained' /\ FirstOfPair'
  BY <1>2, <1>3
     DEF CompleteInv, PassInv, MissedExplained, MissedSeen, Identifying, Unidentified, PortOfSocket,
         FirstOfPair
<1>9. PublishedComplete' /\ PublishedMissed'
  BY <1>2, <1>5 DEF CompleteInv, PublishedInv, PublishedComplete, PublishedMissed
<1>10. PublishedOfPast'
  <2>1. Ages
    BY WorldPart DEF CompleteInv, SandwichInv, ReadInv, ReadTypes, Elsewhere
  <2> QED
    BY <1>2, <1>5, <2>1 DEF CompleteInv, PublishedInv, PublishedOfPast, WasThere, Ages
<1> QED
  BY <1>1, <1>4, <1>6, <1>7, <1>8, <1>9, <1>10 DEF CompleteInv, PassInv, PublishedInv

LEMMA IdleComplete == CompleteInv /\ UNCHANGED observationVars => CompleteInv'
<1> SUFFICES ASSUME CompleteInv, UNCHANGED observationVars PROVE CompleteInv'
  OBVIOUS
<1>1. SandwichInv'
  BY IdlePart DEF CompleteInv
<1>2. /\ UNCHANGED <<blind, phase, pass, unread, records, queue, cur, links, lost, edges, gaps>>
      /\ UNCHANGED <<reads, first, snapshot, missed, heldThrough, status, holds>>
      /\ Collecting' = Collecting
  BY DEF observationVars, worldVars, kernelVars, collectorVars, passVars, historyVars, Collecting
<1>3. HoldersAlive' /\ QueueOfPids' /\ SteadyHolding' /\ NothingUnread' /\ NoEdgeYet' /\ ScanningOne'
      /\ StandingKept'
  BY <1>2
     DEF CompleteInv, PassInv, HoldersAlive, QueueOfPids, SteadyHolding, Holding, NothingUnread,
         NoEdgeYet, ScanningOne, StandingKept, StandingGaps
<1>4. RecordsComplete' /\ Accounted' /\ LinksAccounted' /\ HolderRead'
  BY <1>2
     DEF CompleteInv, PassInv, RecordsComplete, Accounted, AccountedFor, ToScan, Reported,
         LinksAccounted, HolderRead
<1>5. MissedExplained' /\ FirstOfPair'
  BY <1>2
     DEF CompleteInv, PassInv, MissedExplained, MissedSeen, Identifying, Unidentified, PortOfSocket,
         FirstOfPair
<1>6. PublishedInv'
  BY <1>2
     DEF CompleteInv, PublishedInv, PublishedComplete, PublishedMissed, PublishedOfPast, WasThere
<1> QED
  BY <1>1, <1>3, <1>4, <1>5, <1>6 DEF CompleteInv, PassInv

LEMMA CompleteInit == ObservationInit => CompleteInv
<1> SUFFICES ASSUME ObservationInit PROVE CompleteInv
  OBVIOUS
<1>1. SandwichInv
  BY SandwichInit
<1>2. HoldersAlive
  BY SocketsAssumption DEF ObservationInit, WorldInit, HoldersAlive
<1>3. phase = "idle" /\ ~Collecting /\ queue = {} /\ first = NoPass /\ first.edges = {}
  BY DEF ObservationInit, CollectorInit, Collecting, NoPass
<1>4. PassInv
  BY <1>2, <1>3
     DEF PassInv, QueueOfPids, SteadyHolding, NothingUnread, NoEdgeYet, ScanningOne, StandingKept,
         RecordsComplete, Accounted, LinksAccounted, HolderRead, MissedExplained, FirstOfPair
<1>5. PublishedInv
  BY <1>3 DEF PublishedInv, PublishedComplete, PublishedMissed, PublishedOfPast
<1> QED
  BY <1>1, <1>4, <1>5 DEF CompleteInv

-----------------------------------------------------------------------------

LEMMA CompleteMeansKnown == CompleteInv => HoldersAllKnown
<1> SUFFICES ASSUME CompleteInv PROVE HoldersAllKnown
  OBVIOUS
<1>1. PublishedComplete /\ PublishedMissed /\ PublishedOfPast
  BY DEF CompleteInv, PublishedInv
<1>2. \A target : Granted(target) => phase = "taken"
  BY DEF Granted
<1>3. PortHoldersAllKnown /\ NoLossForgotten
  BY <1>1, <1>2, PortGate DEF PublishedOfPast, PortHoldersAllKnown, NoLossForgotten
<1>4. PidSocketsAllKnown
  BY <1>1, <1>2, PidGate DEF PublishedOfPast, PidSocketsAllKnown, Who
<1> QED
  BY <1>3, <1>4 DEF HoldersAllKnown

\* A kill is granted only on a snapshot that knows all there is to know of its target
\* (HoldersAllKnown), whatever was lost in which pass, however few gaps are kept and
\* whatever limits the view of /proc: the snapshot names every process that held the
\* port all along, every listening socket of the process, and no loss about the port
\* was forgotten on the way.
THEOREM GrantKnowsAllHolders == ObservationSpec => []HoldersAllKnown
<1>1. ObservationInit => CompleteInv
  BY CompleteInit
<1>2. CompleteInv /\ [ObservationNext]_observationVars => CompleteInv'
  BY CompleteStep, ElsewhereComplete, IdleComplete DEF ObservationNext, Ended
<1>3. CompleteInv => HoldersAllKnown
  BY CompleteMeansKnown
<1> QED
  BY <1>1, <1>2, <1>3, PTL DEF ObservationSpec

-----------------------------------------------------------------------------
\* The command

\* Once the snapshot let the kill go on.
After == {"state", "stop", "ack", "marker", "name_", "again_", "signal", "thaw"}
\* Once SIGSTOP may have been sent.
Submitted == {"ack", "marker", "name_", "again_", "signal", "thaw"}

CommandTypes ==
    /\ request \in Requests
    /\ evidence \in [who : Proc \cup {NoProc}, name : Name \cup {NoName}]

\* The collector runs only while the command collects, and leaves nothing behind.
CollectorAtRest ==
    /\ step # "collect" => phase = "idle"
    /\ phase \in {"taken", "failed"} => reads = Unread

\* Whoever else is pinned, the confirmed process had ended by then.
PinIsConfirmed ==
    /\ pin \notin {NoProc, RootProc} => status[RootProc] = "dead"
    /\ step \in {"collect", "state"} => pin # NoProc
    /\ step \in After \ {"state"} => pin = RootProc /\ before.who = RootProc

\* --yes ends at the prompt if what was confirmed is protected.
YesIsAnswered == step \notin {"prompt", "done"} => ~(request.yes /\ confirmed.protected)

\* What the fresh snapshot showed of the confirmed process.
FreshIsConfirmed ==
    step \in After =>
        /\ fresh.who = RootProc
        /\ confirmed.name # NoName => fresh.name = confirmed.name
        /\ fresh.name \in Protected => confirmed.protected

\* It held what was confirmed, and nobody else held the port.
ConfirmedHeld ==
    \A endpoint \in confirmed.endpoints :
        \E edge \in heldSince : edge[2] = RootProc /\ EndpointOf[edge[1]] = endpoint
NobodyElse ==
    request.target.mode = "port" =>
        \A edge \in heldThrough :
            edge[1] \in Listening /\ PortOfSocket(edge[1]) = request.target.port =>
                edge[2] = RootProc
HeldAsConfirmed == step \in After \/ stopped \cup signalled # {} => ConfirmedHeld /\ NobodyElse

\* What was seen stopped runs no more unless others meddle, and keeps its name.
Halted ==
    step \in {"marker", "name_", "again_", "signal"} =>
        Resting(RootProc) \/ RootProc \in meddled
NameRead ==
    step \in {"again_", "signal"} /\ RootProc \notin meddled /\ status[RootProc] # "dead" =>
        evidence.name = name[RootProc]
NameProven == step = "signal" => evidence.name = fresh.name

\* Nobody is touched before the step that touches it.
TouchedInTurn ==
    /\ stopped \cup continued \cup signalled \subseteq {RootProc}
    /\ step \notin Submitted \cup {"done"} => stopped = {}
    /\ step \notin {"thaw", "done"} => signalled = {} /\ continued = {}

Duties ==
    /\ CommandTypes /\ CollectorAtRest /\ PinIsConfirmed /\ YesIsAnswered /\ FreshIsConfirmed
    /\ HeldAsConfirmed /\ Halted /\ NameRead /\ NameProven /\ TouchedInTurn
SingleInv == CompleteInv /\ status[RootProc] # "unborn" /\ Duties

-----------------------------------------------------------------------------
\* The collector and the world under the command

\* Who is signalled by kick neither appears nor leaves: the collector at rest does
\* not mind.
LEMMA TouchKeeps ==
    ASSUME CompleteInv, phase = "idle", UNCHANGED <<collectorVars, historyVars, holds>>,
           KernelTypeOK',
           \A p \in Proc : /\ status'[p] \in Present => status[p] \in Present
                           /\ status[p] \in Live => status'[p] \in Live
                           /\ status'[p] = "unborn" => status[p] = "unborn"
    PROVE  CompleteInv'
<1>1. /\ UNCHANGED <<blind, phase, pass, unread, records, queue, cur, links, lost, edges, gaps>>
      /\ UNCHANGED <<reads, first, snapshot, missed, heldSince, heldThrough, holds>>
      /\ phase' = "idle" /\ ~Collecting /\ ~Collecting'
  BY DEF collectorVars, passVars, historyVars, Collecting
<1>2. OneHolder'
  BY NobodyAppears DEF CompleteInv, SandwichInv, ReadInv
<1>3. ReadTypes' /\ ReadsOfPast'
  BY <1>1
     DEF CompleteInv, SandwichInv, ReadInv, ReadTypes, SocketsTypeOK, ReadsOfPast, WasThere
<1>4. ScanBeforeReads' /\ HoldingSeen' /\ EdgesExplained' /\ VerifiedOwnersHeld'
  BY <1>1
     DEF CompleteInv, SandwichInv, ReadInv, ScanBeforeReads, HoldingSeen, EdgesExplained,
         VerifiedOwnersHeld
<1>5. HoldersAlive'
  BY <1>1 DEF CompleteInv, PassInv, HoldersAlive
<1>6. PassInv'
  BY <1>1, <1>5
     DEF CompleteInv, PassInv, QueueOfPids, SteadyHolding, NothingUnread, NoEdgeYet, ScanningOne,
         StandingKept, RecordsComplete, Accounted, LinksAccounted, HolderRead, MissedExplained,
         FirstOfPair
<1>7. PublishedInv'
  BY <1>1 DEF PublishedInv, PublishedComplete, PublishedMissed, PublishedOfPast
<1> QED
  BY <1>2, <1>3, <1>4, <1>6, <1>7 DEF CompleteInv, SandwichInv, ReadInv

\* The snapshot is dropped, and the collector is at rest again.
LEMMA DropKeeps ==
    ASSUME CompleteInv, phase \in {"taken", "failed"}, reads = Unread, phase' = "idle",
           UNCHANGED <<worldVars, blind, attempt, pass, passVars, first, missed, historyVars>>
    PROVE  CompleteInv'
<1>1. /\ UNCHANGED <<blind, pass, unread, records, queue, cur, links, lost, edges, gaps>>
      /\ UNCHANGED <<reads, first, missed, heldSince, heldThrough, holds, status, parent, pgrp>>
      /\ UNCHANGED <<name, pending, meddled, budget>>
      /\ ~Collecting /\ ~Collecting'
  BY DEF passVars, historyVars, worldVars, kernelVars, Collecting
<1>2. ReadTypes' /\ OneHolder' /\ ReadsOfPast'
  BY <1>1
     DEF CompleteInv, SandwichInv, ReadInv, ReadTypes, KernelTypeOK, SocketsTypeOK, OneHolder,
         ReadsOfPast, WasThere
<1>3. ScanBeforeReads' /\ HoldingSeen' /\ EdgesExplained' /\ VerifiedOwnersHeld'
  BY <1>1, UnreadType DEF ScanBeforeReads, HoldingSeen, EdgesExplained, VerifiedOwnersHeld, Unread
<1>4. PassInv'
  BY <1>1
     DEF CompleteInv, PassInv, HoldersAlive, QueueOfPids, SteadyHolding, NothingUnread, NoEdgeYet,
         ScanningOne, StandingKept, RecordsComplete, Accounted, LinksAccounted, HolderRead,
         MissedExplained, FirstOfPair
<1>5. PublishedInv'
  BY DEF PublishedInv, PublishedComplete, PublishedMissed, PublishedOfPast
<1> QED
  BY <1>2, <1>3, <1>4, <1>5 DEF CompleteInv, SandwichInv, ReadInv

\* A collection that ends leaves nothing read behind.
LEMMA CollectorEnds ==
    ASSUME CollectorStep, CollectorAtRest
    PROVE  phase' \in {"taken", "failed"} => reads' = Unread
<1>1. CASE Collect \/ ReadSocket \/ ListPids \/ EndPassA
  BY <1>1 DEF Collect, BeginAttempt, ReadSocket, ListPids, EndPassA, BeginPass
<1>2. CASE OpenDescriptors
  BY <1>2, FinishScanPhase DEF OpenDescriptors
<1>3. CASE ReadLink \/ LinkFails
  BY <1>3, FinishScanPhase DEF ReadLink, LinkFails, ResolveLink
<1>4. CASE ReadMarker \/ ReadName \/ ReadMarkerAgain \/ IdentityFails
  BY <1>4, IdentifiedRead DEF ReadMarker, ReadName, ReadMarkerAgain, IdentityFails
<1>5. CASE EndAttempt \/ CollectionFails
  BY <1>5 DEF EndAttempt, BeginAttempt, BeginPass, CollectionFails, Forget
<1> QED
  BY <1>1, <1>2, <1>3, <1>4, <1>5 DEF CollectorStep

\* Collecting changes no process.
LEMMA CollectorOnlyReads ==
    ASSUME CollectorStep
    PROVE  UNCHANGED <<status, parent, pgrp, name, pending, meddled, holds, blind>>
<1>1. CASE Collect \/ ReadSocket \/ ListPids \/ EndPassA \/ EndAttempt \/ CollectionFails
  BY <1>1
     DEF Collect, ReadSocket, ListPids, EndPassA, EndAttempt, CollectionFails, worldVars, kernelVars,
         Unmoved
<1>2. CASE OpenDescriptors \/ ReadLink \/ LinkFails
  BY <1>2 DEF OpenDescriptors, ReadLink, LinkFails, ResolveLink, worldVars, kernelVars, Unmoved
<1>3. CASE ReadMarker \/ ReadName \/ ReadMarkerAgain \/ IdentityFails
  BY <1>3
     DEF ReadMarker, ReadName, ReadMarkerAgain, IdentityFails, IdentityFrame, worldVars, kernelVars,
         Unmoved
<1> QED
  BY <1>1, <1>2, <1>3 DEF CollectorStep

\* A step of the world, and what it does to the confirmed process.
LEMMA WorldStepRests ==
    ASSUME KernelTypeOK, WorldStep, NEW p \in Proc
    PROVE  RestsOn(p)
<1>1. CASE KernelStep
  BY <1>1, KernelStepRests
<1>2. CASE UNCHANGED <<status, parent, pgrp, name, pending, meddled>>
  BY <1>2 DEF RestsOn, Resting, Active, Live
<1> QED
  BY <1>1, <1>2 DEF WorldStep, Open, Close, Pass, Unmoved

-----------------------------------------------------------------------------
\* Before anybody is touched

LEMMA SingleInit == Init => SingleInv
<1> SUFFICES ASSUME Init PROVE SingleInv
  OBVIOUS
<1>1. CompleteInv /\ phase = "idle"
  BY CompleteInit DEF Init, ObservationInit, CollectorInit
<1>2. status[RootProc] # "unborn"
  BY DEF Init, PreviewResolves, Live, Active
<1>3. Duties
  BY <1>1
     DEF Init, Duties, CommandTypes, NoEvidence, CollectorAtRest, PinIsConfirmed, After, Submitted,
         YesIsAnswered, FreshIsConfirmed, HeldAsConfirmed, Halted, NameRead, NameProven,
         TouchedInTurn
<1> QED
  BY <1>1, <1>2, <1>3 DEF SingleInv

LEMMA PreparePart == SingleInv /\ (Confirm \/ Cancel \/ Prepare) => SingleInv'
<1> SUFFICES ASSUME SingleInv, Confirm \/ Cancel \/ Prepare PROVE SingleInv'
  OBVIOUS
<1>1. UNCHANGED <<observationVars, planVars, fresh, before, evidence, thawFailed, signalVars>>
  BY DEF Confirm, Cancel, Prepare
<1>2. CompleteInv'
  BY <1>1, IdleComplete DEF SingleInv
<1>3. /\ UNCHANGED <<status, meddled, name, phase, reads, heldSince, heldThrough, request>>
      /\ UNCHANGED <<confirmed, fresh, evidence, before, stopped, continued, signalled>>
  BY <1>1
     DEF observationVars, worldVars, kernelVars, collectorVars, passVars, historyVars, planVars,
         signalVars
<1>4. step \in {"prompt", "prepare"} /\ step' \in {"prepare", "collect", "done"}
  BY DEF Confirm, Cancel, Prepare, End
<1>5. PinIsConfirmed'
  <2>1. CASE Confirm \/ Cancel
    BY <1>3, <1>4, <2>1
       DEF SingleInv, Duties, PinIsConfirmed, After, Submitted, Confirm, Cancel, End
  <2>2. CASE Prepare
    <3> DEFINE o == Occupant(RootPid)
    <3>1. pin' = o /\ (o = NoProc => step' = "done") /\ step' \in {"collect", "done"}
      BY <2>2 DEF Prepare, End
    <3>2. ASSUME o \notin {NoProc, RootProc}
          PROVE  status[RootProc] = "dead"
      BY <3>2, OccupantHolds, OtherIsDead, SingleKillAssumption
         DEF SingleInv, CompleteInv, SandwichInv, ReadInv, ReadTypes, Has, RootPid
    <3> QED
      BY <1>3, <3>1, <3>2 DEF PinIsConfirmed, After, Submitted
  <2> QED
    BY <2>1, <2>2
<1>6. YesIsAnswered'
  BY <1>3, <1>4 DEF SingleInv, Duties, YesIsAnswered, Confirm, Cancel, Prepare, End
<1>7. CommandTypes' /\ CollectorAtRest'
  BY <1>3, <1>4 DEF SingleInv, Duties, CommandTypes, CollectorAtRest
<1>8. FreshIsConfirmed' /\ Halted' /\ NameRead' /\ NameProven'
  BY <1>4 DEF FreshIsConfirmed, Halted, NameRead, NameProven, After, Submitted
<1>9. HeldAsConfirmed' /\ TouchedInTurn'
  BY <1>3, <1>4 DEF SingleInv, Duties, HeldAsConfirmed, TouchedInTurn, After, Submitted
<1> QED
  BY <1>2, <1>3, <1>5, <1>6, <1>7, <1>8, <1>9 DEF SingleInv, Duties

LEMMA CollectPart == SingleInv /\ CollectFresh => SingleInv'
<1> SUFFICES ASSUME SingleInv, CollectFresh PROVE SingleInv'
  OBVIOUS
<1>1. CompleteInv'
  BY CompleteStep DEF SingleInv, CollectFresh
<1>2. /\ UNCHANGED <<status, meddled, name>> /\ step = "collect"
      /\ UNCHANGED <<request, confirmed, step, pin, fresh, before, evidence>>
      /\ UNCHANGED <<stopped, continued, signalled>>
  BY CollectorOnlyReads DEF CollectFresh, commandVars, planVars, signalVars
<1>3. CollectorAtRest'
  BY <1>2, CollectorEnds DEF SingleInv, Duties, CollectorAtRest, CollectFresh
<1>4. stopped = {} /\ signalled = {}
  BY <1>2 DEF SingleInv, Duties, TouchedInTurn, Submitted
<1>5. CommandTypes' /\ PinIsConfirmed' /\ YesIsAnswered' /\ TouchedInTurn'
  BY <1>2 DEF SingleInv, Duties, CommandTypes, PinIsConfirmed, YesIsAnswered, TouchedInTurn
<1>6. FreshIsConfirmed' /\ Halted' /\ NameRead' /\ NameProven' /\ HeldAsConfirmed'
  BY <1>2, <1>4
     DEF FreshIsConfirmed, Halted, NameRead, NameProven, HeldAsConfirmed, After, Submitted
<1> QED
  BY <1>1, <1>2, <1>3, <1>5, <1>6 DEF SingleInv, Duties

\* What the fresh snapshot proves when nothing speaks against it: its one owner is the
\* confirmed process, held all that was confirmed, and was the port's only holder.
LEMMA NoObjection ==
    ASSUME SingleInv, phase \in {"taken", "failed"}, Objection = "none"
    PROVE  /\ FreshTarget.who = RootProc
           /\ confirmed.name # NoName => FreshTarget.name = confirmed.name
           /\ FreshTarget.name \in Protected => confirmed.protected
           /\ ConfirmedHeld /\ NobodyElse
<1> DEFINE target == request.target
           pid == Earliest(FreshOwners)
<1>1. /\ phase = "taken" /\ Authority(target) = "complete" /\ OneOwner
      /\ SameProcess(FreshTarget) /\ StillOwnsPorts(FreshTarget)
      /\ FreshTarget.protected => confirmed.protected
  <2>1. Authority(target) \in {"raced", "denied", "partial", "complete"}
    BY DEF Authority
  <2> QED
    BY <2>1 DEF Objection
<1>2. /\ FreshTarget.who = Who(pid) /\ FreshTarget.name = snapshot.reads[pid].name
      /\ FreshTarget.endpoints = {EndpointOf[row[1]] : row \in {r \in Rows(target) : r[2] = pid}}
      /\ FreshTarget.protected = (FreshTarget.name \in Protected)
  BY DEF FreshTarget, Showing
<1>3. Who(pid) = RootProc
  BY <1>1, <1>2 DEF SameProcess
<1>4. /\ VerifiedOwnersHeld /\ PublishedComplete /\ PublishedMissed /\ PublishedOfPast
      /\ ~snapshot.raced
  BY <1>1, GateSeesGaps DEF SingleInv, CompleteInv, SandwichInv, PublishedInv
<1>5. Rows(target) \subseteq snapshot.edges
  BY DEF Rows
<1>6. ConfirmedHeld
  <2> SUFFICES ASSUME NEW endpoint \in confirmed.endpoints
               PROVE  \E edge \in heldSince : edge[2] = RootProc /\ EndpointOf[edge[1]] = endpoint
    BY DEF ConfirmedHeld
  <2>1. PICK row \in Rows(target) : row[2] = pid /\ EndpointOf[row[1]] = endpoint
    BY <1>1, <1>2 DEF StillOwnsPorts
  <2>2. <<row[1], RootProc>> \in heldSince
    BY <1>1, <1>3, <1>4, <1>5, <2>1, SingleKillAssumption, KernelAssumption
       DEF VerifiedOwnersHeld, Who
  <2> QED
    BY <2>1, <2>2
<1>7. NobodyElse
  <2> SUFFICES ASSUME target.mode = "port", NEW edge \in heldThrough,
                      edge[1] \in Listening, PortOfSocket(edge[1]) = target.port
               PROVE  edge[2] = RootProc
    BY DEF NobodyElse
  <2>1. target \in Target
    BY SingleKillAssumption DEF SingleInv, Duties, CommandTypes, Request
  <2>2. PICK port \in Port : target = [mode |-> "port", port |-> port]
    BY <2>1 DEF Target
  <2>3. /\ <<edge[1], PidOf[edge[2]]>> \in Rows(target) /\ Who(PidOf[edge[2]]) = edge[2]
    <3>1. heldThrough \subseteq Socket \X Proc
      BY <1>1, <1>4 DEF PublishedOfPast
    <3>2. Granted(target)
      BY <1>1 DEF Granted
    <3> QED
      BY <1>4, <2>2, <3>1, <3>2, PortGate
  <2>4. PidOf[edge[2]] \in FreshOwners
    BY <2>3 DEF FreshOwners, Owned
  <2>5. PidOf[edge[2]] = pid
    <3>1. FreshOwners \subseteq Pid
      BY <1>1, <1>4, <1>5 DEF FreshOwners, Owned, PublishedOfPast
    <3>2. IsFiniteSet(FreshOwners)
      BY <3>1, FS_Subset, KernelAssumption
    <3>3. PICK one : FreshOwners = {one}
      BY <1>1, <3>2, FS_Singleton DEF OneOwner
    <3>4. pid \in FreshOwners
      BY <3>1, <3>3, EarliestIn
    <3> QED
      BY <2>4, <3>3, <3>4
  <2> QED
    BY <1>3, <2>3, <2>5
<1> QED
  BY <1>1, <1>2, <1>3, <1>6, <1>7 DEF SameProcess

LEMMA RevalidatePart == SingleInv /\ Revalidate => SingleInv'
<1> SUFFICES ASSUME SingleInv, Revalidate PROVE SingleInv'
  OBVIOUS
<1>1. /\ step = "collect" /\ phase \in {"taken", "failed"} /\ phase' = "idle" /\ reads = Unread
      /\ UNCHANGED <<worldVars, blind, attempt, pass, passVars, first, missed, historyVars>>
      /\ UNCHANGED <<planVars, pin, before, evidence, thawFailed, signalVars>>
  BY DEF Revalidate, SingleInv, Duties, CollectorAtRest
<1>2. CompleteInv'
  BY <1>1, DropKeeps DEF SingleInv
<1>3. /\ UNCHANGED <<status, meddled, name, reads, heldSince, heldThrough, request, confirmed>>
      /\ UNCHANGED <<pin, before, evidence, stopped, continued, signalled>>
  BY <1>1 DEF worldVars, kernelVars, passVars, historyVars, planVars, signalVars
<1>4. stopped = {} /\ signalled = {} /\ continued = {} /\ pin # NoProc
  BY <1>1 DEF SingleInv, Duties, TouchedInTurn, Submitted, PinIsConfirmed
<1>5. \/ step' = "done"
      \/ step' = "state" /\ Objection = "none" /\ fresh' = FreshTarget
  BY DEF Revalidate, End
<1>6. CommandTypes' /\ CollectorAtRest' /\ PinIsConfirmed' /\ YesIsAnswered' /\ TouchedInTurn'
  BY <1>1, <1>3, <1>4, <1>5
     DEF SingleInv, Duties, CommandTypes, CollectorAtRest, PinIsConfirmed, YesIsAnswered,
         TouchedInTurn, After, Submitted
<1>7. Halted' /\ NameRead' /\ NameProven'
  BY <1>5 DEF Halted, NameRead, NameProven
<1>8. FreshIsConfirmed' /\ HeldAsConfirmed'
  <2>1. CASE step' = "done"
    BY <1>3, <1>4, <2>1 DEF FreshIsConfirmed, HeldAsConfirmed, After, Submitted
  <2>2. CASE step' = "state" /\ Objection = "none" /\ fresh' = FreshTarget
    BY <1>1, <1>3, <2>2, NoObjection
       DEF FreshIsConfirmed, HeldAsConfirmed, ConfirmedHeld, NobodyElse, PortOfSocket
  <2> QED
    BY <1>5, <2>1, <2>2
<1> QED
  BY <1>2, <1>3, <1>6, <1>7, <1>8 DEF SingleInv, Duties

-----------------------------------------------------------------------------
\* Once the snapshot let the kill go on

\* What every step of the command from there on has in common.
LEMMA FrameKeeps ==
    ASSUME SingleInv, step \in After, UNCHANGED <<collectorVars, historyVars, planVars, pin, fresh>>
    PROVE  /\ phase = "idle" /\ phase' = "idle" /\ CollectorAtRest'
           /\ UNCHANGED <<heldSince, heldThrough, request, confirmed, pin, fresh, blind>>
           /\ ConfirmedHeld' /\ NobodyElse' /\ HeldAsConfirmed'
           /\ YesIsAnswered /\ ~(request.yes /\ confirmed.protected) /\ YesIsAnswered'
           /\ step' \in After => FreshIsConfirmed'
<1>1. /\ UNCHANGED <<phase, reads, heldSince, heldThrough, request, confirmed, pin, fresh, blind>>
      /\ phase = "idle"
  BY DEF SingleInv, Duties, CollectorAtRest, collectorVars, passVars, historyVars, planVars, After
<1>2. ConfirmedHeld /\ NobodyElse
  BY DEF SingleInv, Duties, HeldAsConfirmed
<1>3. ConfirmedHeld' /\ NobodyElse'
  BY <1>1, <1>2 DEF ConfirmedHeld, NobodyElse, PortOfSocket
<1> QED
  BY <1>1, <1>3
     DEF SingleInv, Duties, CollectorAtRest, HeldAsConfirmed, YesIsAnswered, FreshIsConfirmed, After

\* A step of the command that only reads leaves the world and the history alone.
LEMMA ReadingKeeps ==
    ASSUME SingleInv, step \in After, Unmoved, UNCHANGED holds, Frame,
           budget' = budget \/ (budget > 0 /\ budget' = budget - 1)
    PROVE  CompleteInv'
<1>1. phase = "idle" /\ UNCHANGED <<collectorVars, historyVars, planVars, pin, fresh>>
  BY FrameKeeps DEF Frame
<1>2. KernelTypeOK /\ CompleteInv
  BY DEF SingleInv, CompleteInv, SandwichInv, ReadInv, ReadTypes
<1>3. KernelTypeOK'
  BY <1>2, BudgetType DEF KernelTypeOK, Unmoved
<1>4. UNCHANGED <<collectorVars, historyVars, holds>> /\ UNCHANGED status
  BY <1>1 DEF Unmoved
<1> QED
  BY <1>1, <1>2, <1>3, <1>4, TouchKeeps

\* An incarnation that is there is the one its number shows, or nothing is shown.
LEMMA SeenIsConfirmed ==
    ASSUME SingleInv, status[RootProc] # "dead"
    PROVE  /\ Occupant(RootPid) = RootProc
           /\ Seen(RootPid) \in {RootProc, NoProc}
           /\ "hidepid" \notin blind => Seen(RootPid) = RootProc
<1>1. OneHolder /\ KernelTypeOK /\ RootProc \in Proc
  BY SingleKillAssumption DEF SingleInv, CompleteInv, SandwichInv, ReadInv, ReadTypes
<1>2. Has(RootPid, RootProc)
  BY <1>1 DEF Has, RootPid, SingleInv, KernelTypeOK, Status, Present, Live, Active
<1>3. Occupant(RootPid) = RootProc
  BY <1>1, <1>2, OccupantIs
<1> QED
  BY <1>3 DEF Seen

LEMMA ReadStatePart == SingleInv /\ ReadState => SingleInv'
<1> SUFFICES ASSUME SingleInv, ReadState PROVE SingleInv'
  OBVIOUS
<1>1. /\ step = "state" /\ UNCHANGED <<worldVars, evidence, thawFailed, signalVars>> /\ Frame
      /\ step' \in {"stop", "done"}
  BY DEF ReadState, End
<1>2. /\ UNCHANGED <<status, meddled, name, evidence, stopped, continued, signalled>>
      /\ Unmoved /\ budget' = budget /\ UNCHANGED holds /\ Frame /\ step \in After
  BY <1>1 DEF worldVars, kernelVars, signalVars, Unmoved, After, Submitted
<1>3. CompleteInv'
  BY <1>2, ReadingKeeps
<1>4. /\ UNCHANGED <<request, confirmed, pin, fresh>> /\ CollectorAtRest' /\ YesIsAnswered'
      /\ HeldAsConfirmed'
      /\ step' \in After => FreshIsConfirmed'
  BY <1>1, <1>2, FrameKeeps DEF Frame
<1>5. PinIsConfirmed'
  <2>1. CASE step' = "done"
    BY <1>1, <1>2, <1>4, <2>1 DEF SingleInv, Duties, PinIsConfirmed, After, Submitted
  <2>2. CASE step' = "stop"
    <3> DEFINE now == Seen(RootPid)
    <3>1. Alive(now) /\ now = fresh.who /\ before'.who = now
      BY <2>2 DEF ReadState, End
    <3>2. now = RootProc
      BY <1>2, <3>1 DEF SingleInv, Duties, FreshIsConfirmed
    <3>3. pin = RootProc
      BY <1>1, <3>1, <3>2 DEF SingleInv, Duties, PinIsConfirmed, Alive, Live, Active
    <3> QED
      BY <1>4, <2>2, <3>1, <3>2, <3>3 DEF PinIsConfirmed
  <2> QED
    BY <1>1, <2>1, <2>2
<1>6. FreshIsConfirmed' /\ Halted' /\ NameRead' /\ NameProven'
  BY <1>1, <1>4 DEF FreshIsConfirmed, Halted, NameRead, NameProven, After, Submitted
<1>7. CommandTypes' /\ TouchedInTurn'
  BY <1>1, <1>2, <1>4 DEF SingleInv, Duties, CommandTypes, TouchedInTurn, Submitted
<1> QED
  BY <1>2, <1>3, <1>4, <1>5, <1>6, <1>7 DEF SingleInv, Duties

\* A step that only reads, or gives up: it goes on towards the signal only with what it read.
LEMMA ReadsOnly ==
    ASSUME SingleInv, step \in After \ {"state"}, Unmoved, UNCHANGED holds, Frame,
           budget' = budget \/ (budget > 0 /\ budget' = budget - 1),
           UNCHANGED <<before, stopped, continued, signalled>>,
           step' \in {"done"} \cup (After \ {"state", "stop"}),
           step = "stop" => step' = "done",
           step = "thaw" => step' = "done",
           evidence' \in [who : Proc \cup {NoProc}, name : Name \cup {NoName}],
           Halted', NameRead', NameProven'
    PROVE  SingleInv'
<1>1. CompleteInv' /\ status' = status
  BY ReadingKeeps DEF Unmoved
<1>2. /\ UNCHANGED <<request, confirmed, pin, fresh>> /\ CollectorAtRest' /\ YesIsAnswered'
      /\ HeldAsConfirmed'
      /\ step' \in After => FreshIsConfirmed'
  BY FrameKeeps DEF Frame
<1>3. CommandTypes' /\ FreshIsConfirmed'
  BY <1>2 DEF SingleInv, Duties, CommandTypes, FreshIsConfirmed
<1>4. PinIsConfirmed'
  BY <1>1, <1>2 DEF SingleInv, Duties, PinIsConfirmed, After, Submitted
<1>5. TouchedInTurn'
  BY DEF SingleInv, Duties, TouchedInTurn, After, Submitted
<1> QED
  BY <1>1, <1>2, <1>3, <1>4, <1>5 DEF SingleInv, Duties

LEMMA ReadingPart ==
    SingleInv /\ (Acknowledge \/ DeadlinePasses \/ StateReadFails \/ ReadFinalMarker
                    \/ ReadFinalName \/ CheckEvidence \/ EvidenceFails \/ Interrupted)
        => SingleInv' \/ step = "state"
<1> SUFFICES ASSUME SingleInv, step # "state",
                    Acknowledge \/ DeadlinePasses \/ StateReadFails \/ ReadFinalMarker
                      \/ ReadFinalName \/ CheckEvidence \/ EvidenceFails \/ Interrupted
             PROVE  SingleInv'
  OBVIOUS
<1>1. /\ Unmoved /\ UNCHANGED <<holds, before, stopped, continued, signalled>> /\ Frame
      /\ budget' = budget \/ (budget > 0 /\ budget' = budget - 1)
  <2>1. CASE StateReadFails \/ EvidenceFails
    BY <2>1 DEF StateReadFails, EvidenceFails, signalVars
  <2>2. CASE UNCHANGED <<worldVars, before, signalVars>> /\ Frame
    BY <2>2 DEF worldVars, kernelVars, Unmoved, signalVars
  <2>3. CASE Acknowledge \/ DeadlinePasses \/ Interrupted
    BY <2>2, <2>3 DEF Acknowledge, DeadlinePasses, Interrupted
  <2>4. CASE ReadFinalMarker \/ ReadFinalName \/ CheckEvidence
    BY <2>2, <2>4 DEF ReadFinalMarker, ReadFinalName, CheckEvidence
  <2> QED
    BY <2>1, <2>3, <2>4
<1>2. UNCHANGED <<status, name, meddled, fresh>>
  BY <1>1 DEF Unmoved, Frame
<1>3. CASE Acknowledge
  <2>1. step = "ack" /\ step' \in {"done", "marker", "ack"} /\ UNCHANGED evidence
    BY <1>3 DEF Acknowledge, End
  <2>2. Halted'
    <3>1. ASSUME step' = "marker"
          PROVE  status[RootProc] = "stopped"
      BY <1>3, <2>1, <3>1 DEF Acknowledge, End, SingleInv, Duties, PinIsConfirmed, After, Submitted
    <3> QED
      BY <1>2, <2>1, <3>1 DEF Halted, Resting, Active
  <2>3. NameRead' /\ NameProven'
    BY <2>1 DEF NameRead, NameProven
  <2> QED
    BY <1>1, <2>1, <2>2, <2>3, ReadsOnly
       DEF After, Submitted, SingleInv, Duties, CommandTypes
<1>4. CASE DeadlinePasses \/ StateReadFails \/ EvidenceFails \/ Interrupted
  <2>1. /\ step \in {"stop", "ack", "marker", "name_", "again_", "signal"} /\ UNCHANGED evidence
        /\ step' \in {"done", "thaw"} /\ (step = "stop" => step' = "done")
    <3>1. CASE DeadlinePasses \/ Interrupted
      BY <3>1 DEF DeadlinePasses, Timed, Interrupted, Refuse
    <3>2. CASE StateReadFails
      BY <1>4, <3>2 DEF StateReadFails, Refuse
    <3>3. CASE EvidenceFails
      BY <3>3 DEF EvidenceFails, Reading, Refuse
    <3> QED
      BY <1>4, <3>1, <3>2, <3>3
  <2>2. Halted' /\ NameRead' /\ NameProven'
    BY <2>1 DEF Halted, NameRead, NameProven
  <2> QED
    BY <1>1, <2>1, <2>2, ReadsOnly DEF After, Submitted, SingleInv, Duties, CommandTypes
<1>5. CASE ReadFinalMarker
  <2>1. /\ step = "marker" /\ step' \in {"done", "thaw", "name_"}
        /\ evidence' = evidence \/ evidence' = [NoEvidence EXCEPT !.who = Seen(RootPid)]
    BY <1>5 DEF ReadFinalMarker, Refuse
  <2>2. evidence' \in [who : Proc \cup {NoProc}, name : Name \cup {NoName}]
    BY <2>1, SeenHolds DEF NoEvidence, SingleInv, Duties, CommandTypes
  <2>3. Halted' /\ NameRead' /\ NameProven'
    BY <1>2, <2>1 DEF SingleInv, Duties, Halted, NameRead, NameProven, Resting
  <2> QED
    BY <1>1, <2>1, <2>2, <2>3, ReadsOnly DEF After, Submitted
<1>6. CASE ReadFinalName
  <2> DEFINE now == Seen(RootPid)
  <2>1. /\ step = "name_" /\ step' \in {"done", "thaw", "again_"}
        /\ \/ evidence' = evidence /\ step' # "again_"
           \/ evidence' = [evidence EXCEPT !.name = name[now]] /\ now # NoProc
    BY <1>6 DEF ReadFinalName, Refuse
  <2>2. evidence \in [who : Proc \cup {NoProc}, name : Name \cup {NoName}]
        /\ name \in [Proc -> Name]
    BY DEF SingleInv, Duties, CommandTypes, CompleteInv, SandwichInv, ReadInv, ReadTypes, KernelTypeOK
  <2>3. evidence' \in [who : Proc \cup {NoProc}, name : Name \cup {NoName}]
    BY <2>1, <2>2, SeenHolds
  <2>4. Halted' /\ NameProven'
    BY <1>2, <2>1 DEF SingleInv, Duties, Halted, NameProven, Resting
  <2>5. NameRead'
    BY <1>2, <2>1, <2>2, SeenIsConfirmed DEF NameRead
  <2> QED
    BY <1>1, <2>1, <2>3, <2>4, <2>5, ReadsOnly DEF After, Submitted
<1>7. CASE CheckEvidence
  <2>1. /\ step = "again_" /\ step' \in {"done", "thaw", "signal"} /\ UNCHANGED evidence
        /\ step' = "signal" => evidence.name = fresh.name
    BY <1>7 DEF CheckEvidence, Refuse, NameAsFresh
  <2>2. Halted' /\ NameRead' /\ NameProven'
    BY <1>2, <2>1 DEF SingleInv, Duties, Halted, NameRead, NameProven, Resting
  <2> QED
    BY <1>1, <2>1, <2>2, ReadsOnly DEF After, Submitted, SingleInv, Duties, CommandTypes
<1> QED
  BY <1>3, <1>4, <1>5, <1>6, <1>7

\* The read of the process state before SIGSTOP may fail too.
LEMMA StateReadFailsPart == SingleInv /\ StateReadFails /\ step = "state" => SingleInv'
<1> SUFFICES ASSUME SingleInv, StateReadFails, step = "state" PROVE SingleInv'
  OBVIOUS
<1>1. /\ Unmoved /\ UNCHANGED <<holds, before, evidence, stopped, continued, signalled>> /\ Frame
      /\ budget > 0 /\ budget' = budget - 1 /\ step' = "done" /\ step \in After
  BY DEF StateReadFails, Refuse, signalVars, After
<1>2. CompleteInv' /\ status' = status
  BY <1>1, ReadingKeeps DEF Unmoved
<1>3. UNCHANGED <<request, confirmed, pin, fresh>> /\ CollectorAtRest' /\ HeldAsConfirmed'
  BY <1>1, FrameKeeps DEF Frame
<1>4. Duties'
  BY <1>1, <1>2, <1>3
     DEF SingleInv, Duties, CommandTypes, PinIsConfirmed, YesIsAnswered, FreshIsConfirmed, Halted,
         NameRead, NameProven, TouchedInTurn, After, Submitted
<1> QED
  BY <1>2, <1>4 DEF SingleInv

-----------------------------------------------------------------------------
\* The signals

\* Who sends them touches one process, which it has pinned, and which is there.
LEMMA SubmitStopPart == SingleInv /\ SubmitStop => SingleInv'
<1> SUFFICES ASSUME SingleInv, SubmitStop PROVE SingleInv'
  OBVIOUS
<1>1. /\ step = "stop" /\ step \in After /\ step' \in {"ack", "done"} /\ Frame
      /\ UNCHANGED <<parent, pgrp, name, pending, meddled, budget, holds, before, evidence>>
      /\ UNCHANGED <<continued, signalled>>
  BY DEF SubmitStop, End, After, Submitted
<1>2. pin = RootProc /\ RootProc \in Proc /\ stopped = {}
  BY <1>1, SingleKillAssumption
     DEF SingleInv, Duties, PinIsConfirmed, TouchedInTurn, After, Submitted
<1>3. \/ UNCHANGED <<status, stopped>>
      \/ /\ status' = [status EXCEPT ![RootProc] = StopStatus(RootProc)]
         /\ stopped' \in {stopped, stopped \cup {RootProc}}
         /\ ~Gone(RootProc) /\ step' = "ack"
  BY <1>2 DEF SubmitStop, SignalTarget
<1>4. /\ phase = "idle" /\ UNCHANGED <<collectorVars, historyVars, request, confirmed, pin, fresh>>
      /\ CollectorAtRest' /\ HeldAsConfirmed' /\ YesIsAnswered'
      /\ step' \in After => FreshIsConfirmed'
  BY <1>1, FrameKeeps DEF Frame
<1>5. status \in [Proc -> Status] /\ KernelTypeOK /\ CompleteInv
  BY DEF SingleInv, CompleteInv, SandwichInv, ReadInv, ReadTypes, KernelTypeOK
<1>6. KernelTypeOK'
  BY <1>1, <1>2, <1>3, <1>5 DEF KernelTypeOK, StopStatus, Status
<1>7. \A p \in Proc : /\ status'[p] \in Present => status[p] \in Present
                      /\ status[p] \in Live => status'[p] \in Live
                      /\ status'[p] = "unborn" => status[p] = "unborn"
                      /\ status[p] = "dead" => status'[p] = "dead"
  BY <1>3, <1>5 DEF StopStatus, Present, Live, Active
<1>8. CompleteInv'
  BY <1>1, <1>4, <1>5, <1>6, <1>7, TouchKeeps
<1>9. status'[RootProc] # "unborn"
  BY <1>2, <1>7 DEF SingleInv
<1>10. CommandTypes' /\ PinIsConfirmed' /\ FreshIsConfirmed' /\ TouchedInTurn'
  BY <1>1, <1>2, <1>3, <1>4
     DEF SingleInv, Duties, CommandTypes, PinIsConfirmed, FreshIsConfirmed, TouchedInTurn, After,
         Submitted
<1>11. Halted' /\ NameRead' /\ NameProven'
  BY <1>1 DEF Halted, NameRead, NameProven
<1> QED
  BY <1>4, <1>8, <1>9, <1>10, <1>11 DEF SingleInv, Duties

LEMMA SignalPart == SingleInv /\ Signal => SingleInv'
<1> SUFFICES ASSUME SingleInv, Signal PROVE SingleInv'
  OBVIOUS
<1>1. /\ step = "signal" /\ step \in After /\ step' \in {"thaw", "done"} /\ Frame
      /\ UNCHANGED <<status, parent, pgrp, name, meddled, budget, holds, before, evidence>>
      /\ UNCHANGED <<stopped, continued>>
  BY DEF Signal, Refuse, After, Submitted
<1>2. pin = RootProc /\ RootProc \in Proc
  BY <1>1, SingleKillAssumption DEF SingleInv, Duties, PinIsConfirmed, After, Submitted
<1>3. \/ UNCHANGED <<pending, signalled>>
      \/ /\ signalled' = signalled \cup {RootProc}
         /\ \E one \in {"TERM", "KILL"} :
              pending' = [pending EXCEPT ![RootProc] = @ \cup {one}]
  BY <1>2 DEF Signal, SignalTarget
<1>4. /\ phase = "idle" /\ UNCHANGED <<collectorVars, historyVars, request, confirmed, pin, fresh>>
      /\ CollectorAtRest' /\ HeldAsConfirmed' /\ YesIsAnswered'
      /\ step' \in After => FreshIsConfirmed'
  BY <1>1, FrameKeeps DEF Frame
<1>5. KernelTypeOK /\ CompleteInv
  BY DEF SingleInv, CompleteInv, SandwichInv, ReadInv, ReadTypes
<1>6. KernelTypeOK'
  BY <1>1, <1>2, <1>3, <1>5 DEF KernelTypeOK
<1>7. CompleteInv'
  BY <1>1, <1>4, <1>5, <1>6, TouchKeeps
<1>8. CommandTypes' /\ PinIsConfirmed' /\ FreshIsConfirmed' /\ TouchedInTurn'
  BY <1>1, <1>2, <1>3, <1>4
     DEF SingleInv, Duties, CommandTypes, PinIsConfirmed, FreshIsConfirmed, TouchedInTurn, After,
         Submitted
<1>9. Halted' /\ NameRead' /\ NameProven'
  BY <1>1 DEF Halted, NameRead, NameProven
<1> QED
  BY <1>1, <1>4, <1>7, <1>8, <1>9 DEF SingleInv, Duties

LEMMA ThawPart == SingleInv /\ Thaw => SingleInv'
<1> SUFFICES ASSUME SingleInv, Thaw PROVE SingleInv'
  OBVIOUS
<1>1. /\ step = "thaw" /\ step \in After /\ step' = "done" /\ Frame
      /\ UNCHANGED <<parent, pgrp, name, pending, meddled, budget, holds, before, evidence>>
      /\ UNCHANGED <<stopped, signalled>>
  BY DEF Thaw, After, Submitted
<1>2. pin = RootProc /\ RootProc \in Proc
  BY <1>1, SingleKillAssumption DEF SingleInv, Duties, PinIsConfirmed, After, Submitted
<1>3. \/ UNCHANGED <<status, continued>>
      \/ /\ status' = [status EXCEPT ![RootProc] = ContStatus(RootProc)]
         /\ continued' \in {continued, continued \cup {RootProc}}
  BY <1>2 DEF Thaw, SignalTarget
<1>4. /\ phase = "idle" /\ UNCHANGED <<collectorVars, historyVars, request, confirmed, pin, fresh>>
      /\ CollectorAtRest' /\ HeldAsConfirmed' /\ YesIsAnswered'
  BY <1>1, FrameKeeps DEF Frame
<1>5. status \in [Proc -> Status] /\ KernelTypeOK /\ CompleteInv
  BY DEF SingleInv, CompleteInv, SandwichInv, ReadInv, ReadTypes, KernelTypeOK
<1>6. KernelTypeOK'
  BY <1>1, <1>2, <1>3, <1>5 DEF KernelTypeOK, ContStatus, Status
<1>7. \A p \in Proc : /\ status'[p] \in Present => status[p] \in Present
                      /\ status[p] \in Live => status'[p] \in Live
                      /\ status'[p] = "unborn" => status[p] = "unborn"
                      /\ status[p] = "dead" => status'[p] = "dead"
  BY <1>3, <1>5 DEF ContStatus, Present, Live, Active
<1>8. CompleteInv'
  BY <1>1, <1>4, <1>5, <1>6, <1>7, TouchKeeps
<1>9. status'[RootProc] # "unborn"
  BY <1>2, <1>7 DEF SingleInv
<1>10. CommandTypes' /\ PinIsConfirmed' /\ FreshIsConfirmed' /\ TouchedInTurn'
  BY <1>1, <1>2, <1>3, <1>4
     DEF SingleInv, Duties, CommandTypes, PinIsConfirmed, FreshIsConfirmed, TouchedInTurn, After,
         Submitted
<1>11. Halted' /\ NameRead' /\ NameProven'
  BY <1>1 DEF Halted, NameRead, NameProven
<1> QED
  BY <1>4, <1>8, <1>9, <1>10, <1>11 DEF SingleInv, Duties

-----------------------------------------------------------------------------
\* The world, and the whole

LEMMA WorldKeeps == SingleInv /\ World => SingleInv'
<1> SUFFICES ASSUME SingleInv, World PROVE SingleInv'
  OBVIOUS
<1>1. /\ Elsewhere /\ WorldStep /\ UNCHANGED <<phase, reads>> /\ step # "done"
      /\ UNCHANGED <<request, confirmed, step, pin, fresh, before, evidence>>
      /\ UNCHANGED <<stopped, continued, signalled>>
      /\ phase = "idle" => UNCHANGED <<heldSince, heldThrough>>
  BY DEF World, Elsewhere, commandVars, planVars, signalVars, collectorVars, passVars, historyVars,
         Collecting
<1>2. CompleteInv'
  BY <1>1, ElsewhereComplete DEF SingleInv
<1>3. RestsOn(RootProc) /\ Ages /\ RootProc \in Proc
  BY <1>1, WorldPart, WorldStepRests, SingleKillAssumption
     DEF SingleInv, CompleteInv, SandwichInv, ReadInv, ReadTypes
<1>4. /\ status'[RootProc] # "unborn" /\ status[RootProc] # "unborn"
      /\ status[RootProc] = "dead" => status'[RootProc] = "dead"
  BY <1>3 DEF SingleInv, Ages
<1>5. CommandTypes' /\ CollectorAtRest' /\ YesIsAnswered' /\ FreshIsConfirmed' /\ NameProven'
      /\ TouchedInTurn' /\ PinIsConfirmed'
  BY <1>1, <1>4
     DEF SingleInv, Duties, CommandTypes, CollectorAtRest, YesIsAnswered, FreshIsConfirmed,
         NameProven, TouchedInTurn, PinIsConfirmed
<1>6. HeldAsConfirmed'
  <2>1. CASE step = "collect"
    BY <1>1, <2>1 DEF SingleInv, Duties, HeldAsConfirmed, TouchedInTurn, After, Submitted
  <2>2. CASE step # "collect"
    <3>1. UNCHANGED <<heldSince, heldThrough>>
      BY <1>1, <2>2 DEF SingleInv, Duties, CollectorAtRest
    <3> QED
      BY <1>1, <3>1
         DEF SingleInv, Duties, HeldAsConfirmed, ConfirmedHeld, NobodyElse, PortOfSocket
  <2> QED
    BY <2>1, <2>2
<1>7. Halted'
  BY <1>1, <1>3, <1>4 DEF SingleInv, Duties, Halted, RestsOn, Resting
<1>8. NameRead'
  BY <1>1, <1>3, <1>4 DEF SingleInv, Duties, Halted, NameRead, RestsOn
<1> QED
  BY <1>2, <1>4, <1>5, <1>6, <1>7, <1>8 DEF SingleInv, Duties

LEMMA IdleKeeps == SingleInv /\ UNCHANGED vars => SingleInv'
<1> SUFFICES ASSUME SingleInv, UNCHANGED vars PROVE SingleInv'
  OBVIOUS
<1>1. CompleteInv'
  BY IdleComplete DEF SingleInv, vars
<1>2. /\ UNCHANGED <<status, meddled, name, phase, reads, heldSince, heldThrough, request>>
      /\ UNCHANGED <<confirmed, step, pin, fresh, before, evidence, stopped, continued, signalled>>
  BY DEF vars, observationVars, worldVars, kernelVars, collectorVars, passVars, historyVars,
         commandVars, planVars, signalVars
<1>3. CommandTypes' /\ CollectorAtRest' /\ PinIsConfirmed' /\ YesIsAnswered' /\ FreshIsConfirmed'
      /\ NameProven' /\ TouchedInTurn'
  BY <1>2
     DEF SingleInv, Duties, CommandTypes, CollectorAtRest, PinIsConfirmed, YesIsAnswered,
         FreshIsConfirmed, NameProven, TouchedInTurn
<1>4. HeldAsConfirmed' /\ Halted' /\ NameRead'
  BY <1>2
     DEF SingleInv, Duties, HeldAsConfirmed, ConfirmedHeld, NobodyElse, PortOfSocket, Halted,
         Resting, NameRead
<1> QED
  BY <1>1, <1>2, <1>3, <1>4 DEF SingleInv, Duties

LEMMA SingleStep == SingleInv /\ [Next]_vars => SingleInv'
<1> SUFFICES ASSUME SingleInv, [Next]_vars PROVE SingleInv'
  OBVIOUS
<1>1. CASE Command
  <2>1. CASE Confirm \/ Cancel \/ Prepare \/ CollectFresh \/ Revalidate
    BY <2>1, PreparePart, CollectPart, RevalidatePart
  <2>2. CASE ReadState \/ SubmitStop \/ Signal \/ Thaw
    BY <2>2, ReadStatePart, SubmitStopPart, SignalPart, ThawPart
  <2>3. CASE StateReadFails
    BY <2>3, StateReadFailsPart, ReadingPart
  <2>4. CASE Acknowledge \/ DeadlinePasses \/ ReadFinalMarker \/ ReadFinalName \/ CheckEvidence
               \/ EvidenceFails \/ Interrupted
    <3>1. step # "state"
      BY <2>4
         DEF Acknowledge, DeadlinePasses, Timed, ReadFinalMarker, ReadFinalName, CheckEvidence,
             EvidenceFails, Reading, Interrupted
    <3> QED
      BY <2>4, <3>1, ReadingPart
  <2> QED
    BY <1>1, <2>1, <2>2, <2>3, <2>4 DEF Command
<1>2. CASE World
  BY <1>2, WorldKeeps
<1>3. CASE Terminated \/ UNCHANGED vars
  BY <1>3, IdleKeeps DEF Terminated
<1> QED
  BY <1>1, <1>2, <1>3 DEF Next

-----------------------------------------------------------------------------
\* What the command guarantees

\* Whoever gets the number, the confirmed incarnation is the only one that SIGSTOP,
\* SIGCONT or the terminating signal ever reaches (OnlyConfirmedTouched): the pidfd was
\* opened by number, but no signal goes through it before the fresh snapshot, the process
\* state and the pin were seen to be one and the same.
THEOREM NobodyElseIsTouched == Spec => []OnlyConfirmedTouched
<1>1. SingleInv => OnlyConfirmedTouched
  BY DEF SingleInv, Duties, TouchedInTurn, OnlyConfirmedTouched
<1> QED
  BY <1>1, SingleInit, SingleStep, PTL DEF Spec

\* A process is stopped or signalled only after it was found to hold every endpoint that
\* was confirmed, and a port kill only if nobody else held the port all through the
\* snapshot (SocketsAsConfirmed).
THEOREM TouchedOwnsWhatWasConfirmed == Spec => []SocketsAsConfirmed
<1>1. SingleInv => SocketsAsConfirmed
  BY DEF SingleInv, Duties, HeldAsConfirmed, ConfirmedHeld, NobodyElse, SocketsAsConfirmed,
         TouchedHoldsConfirmedPorts, NoCoHolderLeft
<1> QED
  BY <1>1, SingleInit, SingleStep, PTL DEF Spec

\* The signal goes to the program that was confirmed, never to a protected one that was
\* not confirmed as such, and never to a protected one with --yes (PolicyHeldAtDelivery):
\* the name was read while the process stood still.
THEOREM SignalMeetsPolicy == Spec => PolicyHeldAtDelivery
<1>1. ASSUME SingleInv, Next, NEW p \in signalled' \ (signalled \cup meddled)
      PROVE  /\ confirmed.name # NoName => name[p] = confirmed.name
             /\ name[p] \in Protected => confirmed.protected /\ ~request.yes
  <2>1. Signal
    BY <1>1
       DEF Next, Command, Confirm, Cancel, Prepare, CollectFresh, Revalidate, ReadState, SubmitStop,
           Acknowledge, DeadlinePasses, StateReadFails, ReadFinalMarker, ReadFinalName,
           CheckEvidence, EvidenceFails, Interrupted, Thaw, World, Terminated, vars, commandVars,
           signalVars
  <2>2. step = "signal" /\ p = pin /\ ~Gone(p)
    BY <1>1, <2>1 DEF Signal, SignalTarget
  <2>3. p = RootProc
    BY <1>1, <2>2 DEF SingleInv, Duties, PinIsConfirmed, After, Submitted
  <2>4. name[p] = evidence.name /\ evidence.name = fresh.name
    BY <1>1, <2>2, <2>3
       DEF SingleInv, Duties, NameRead, NameProven, Gone, Present, Live, Active
  <2>5. /\ confirmed.name # NoName => fresh.name = confirmed.name
        /\ fresh.name \in Protected => confirmed.protected
        /\ ~(request.yes /\ confirmed.protected)
    BY <1>1, <2>2
       DEF SingleInv, Duties, FreshIsConfirmed, YesIsAnswered, After, Submitted
  <2> QED
    BY <2>4, <2>5
<1>2. ASSUME SingleInv, [Next]_vars
      PROVE  [\A p \in signalled' \ (signalled \cup meddled) :
                /\ confirmed.name # NoName => name[p] = confirmed.name
                /\ name[p] \in Protected => confirmed.protected /\ ~request.yes]_vars
  BY <1>1, <1>2
<1> QED
  BY <1>2, SingleInit, SingleStep, PTL DEF Spec, PolicyHeldAtDelivery

-----------------------------------------------------------------------------
\* What is left when the command returns
\*
\* The rest needs /proc to show the process: with hidepid a process that execs a program
\* kick may not inspect looks gone although it is alive, and stays stopped (the run
\* single_hidepid shows it).

Unveiled == "hidepid" \notin blind
Halts == status[RootProc] \in {"stopping", "stopped"}

\* A stop that is under way is the command's or somebody else's.
StoppingIsSomebodys == status[RootProc] = "stopping" => RootProc \in stopped \cup meddled

\* What was read before SIGSTOP says whose stop it is, unless others meddled since: the
\* command undoes its own stops, and no others.
StopIsOwned ==
    /\ step = "stop" /\ before.stopped => Resting(RootProc) \/ RootProc \in meddled
    /\ step \in Submitted \ {"thaw"} /\ before.stopped => RootProc \notin stopped \ meddled
    /\ step \in ({"stop"} \cup Submitted) \ {"thaw"} /\ Halts /\ ~before.stopped =>
          RootProc \in stopped \cup meddled
    /\ step = "thaw" /\ Halts => RootProc \in stopped \cup signalled \cup meddled

Undone ==
    step = "done" /\ RootProc \in (stopped \cup signalled) \ meddled /\ Halts =>
        "KILL" \in pending[RootProc] \/ thawFailed

HonestInv == /\ Unveiled /\ ReportedExitIsReal /\ OthersLeftStopped
             /\ StoppingIsSomebodys /\ StopIsOwned /\ Undone

LEMMA HonestInit ==
    ASSUME \A limits \in Blinds : "hidepid" \notin limits, Init
    PROVE  HonestInv
<1>1. Unveiled
  BY DEF Init, ObservationInit, CollectorInit, Unveiled
<1>2. /\ step = "prompt" /\ outcome = "none" /\ continued = {}
      /\ meddled = {p \in Proc : status[p] = "stopping"}
  BY DEF Init, ObservationInit, WorldInit, KernelInit
<1> QED
  BY <1>1, <1>2, SingleKillAssumption
     DEF HonestInv, ReportedExitIsReal, OthersLeftStopped, StoppingIsSomebodys, StopIsOwned, Undone,
         Submitted

\* Before anybody is touched there is nothing to undo.
LEMMA PrepareHonest ==
    SingleInv /\ HonestInv /\ (Confirm \/ Cancel \/ Prepare \/ CollectFresh \/ Revalidate)
        => HonestInv'
<1> SUFFICES ASSUME SingleInv, HonestInv,
                    Confirm \/ Cancel \/ Prepare \/ CollectFresh \/ Revalidate
             PROVE  HonestInv'
  OBVIOUS
<1>1. /\ UNCHANGED <<status, pending, meddled, blind, stopped, continued, signalled, thawFailed>>
      /\ step \in {"prompt", "prepare", "collect"}
      /\ step' \in {"prompt", "prepare", "collect", "state", "done"}
  <2>1. CASE Confirm \/ Cancel \/ Prepare
    BY <2>1
       DEF Confirm, Cancel, Prepare, End, observationVars, worldVars, kernelVars, collectorVars,
           signalVars
  <2>2. CASE CollectFresh
    BY <2>2, CollectorOnlyReads DEF CollectFresh, commandVars, signalVars
  <2>3. CASE Revalidate
    BY <2>3 DEF Revalidate, End, worldVars, kernelVars, signalVars
  <2> QED
    BY <2>1, <2>2, <2>3
<1>2. stopped = {} /\ signalled = {} /\ continued = {}
  BY <1>1 DEF SingleInv, Duties, TouchedInTurn, Submitted
<1>3. outcome' = "AlreadyExited" => outcome = "AlreadyExited" \/ ~Alive(RootProc)
  <2>1. CASE Prepare
    <3>1. ASSUME Occupant(RootPid) = NoProc
          PROVE  ~Alive(RootProc)
      BY <3>1, SeenIsConfirmed, SingleKillAssumption, KernelAssumption DEF Alive, Live, Active
    <3> QED
      BY <2>1, <3>1 DEF Prepare
  <2>2. CASE Confirm \/ Cancel \/ CollectFresh
    BY <2>2 DEF Confirm, Cancel, CollectFresh, End, commandVars
  <2>3. CASE Revalidate
    BY <2>3 DEF Revalidate, End, Objection
  <2> QED
    BY <2>1, <2>2, <2>3
<1>4. ReportedExitIsReal'
  BY <1>1, <1>3 DEF HonestInv, ReportedExitIsReal, Alive
<1> QED
  BY <1>1, <1>2, <1>4
     DEF HonestInv, Unveiled, OthersLeftStopped, StoppingIsSomebodys, StopIsOwned, Undone, Halts,
         Submitted

\* Whose stop it is, is read once.
LEMMA ReadStateHonest == SingleInv /\ HonestInv /\ ReadState => HonestInv'
<1> SUFFICES ASSUME SingleInv, HonestInv, ReadState PROVE HonestInv'
  OBVIOUS
<1>1. /\ UNCHANGED <<status, pending, meddled, blind, stopped, continued, signalled, thawFailed>>
      /\ step = "state" /\ stopped = {} /\ signalled = {}
  BY DEF ReadState, worldVars, kernelVars, signalVars, Frame, collectorVars, SingleInv, Duties,
         TouchedInTurn, Submitted
<1>2. Alive(RootProc) => Seen(RootPid) = RootProc
  BY SeenIsConfirmed DEF HonestInv, Unveiled, Alive, Live, Active
<1>3. CASE step' = "done"
  <2>1. outcome' = "AlreadyExited" => ~Alive(RootProc)
    BY <1>2, <1>3 DEF ReadState, End
  <2> QED
    BY <1>1, <1>3, <2>1
       DEF HonestInv, Unveiled, ReportedExitIsReal, Alive, OthersLeftStopped, StoppingIsSomebodys,
           StopIsOwned, Undone, Submitted
<1>4. CASE step' = "stop"
  <2>1. /\ Alive(Seen(RootPid)) /\ Seen(RootPid) = fresh.who /\ UNCHANGED outcome
        /\ before'.stopped = (status[Seen(RootPid)] = "stopped")
    BY <1>4 DEF ReadState, End
  <2>2. before'.stopped = (status[RootProc] = "stopped")
    BY <1>1, <2>1 DEF SingleInv, Duties, FreshIsConfirmed, After
  <2> QED
    BY <1>1, <1>4, <2>1, <2>2
       DEF HonestInv, Unveiled, ReportedExitIsReal, Alive, OthersLeftStopped, StoppingIsSomebodys,
           StopIsOwned, Undone, Halts, Submitted, Resting, Active
<1> QED
  BY <1>3, <1>4 DEF ReadState, End

\* A step that only reads either goes on, or gives up: then it resumes what it stopped.
LEMMA ReadingHonest ==
    SingleInv /\ HonestInv
      /\ (Acknowledge \/ DeadlinePasses \/ StateReadFails \/ ReadFinalMarker
            \/ ReadFinalName \/ CheckEvidence \/ EvidenceFails \/ Interrupted)
        => HonestInv'
<1> SUFFICES ASSUME SingleInv, HonestInv,
                    Acknowledge \/ DeadlinePasses \/ StateReadFails \/ ReadFinalMarker
                      \/ ReadFinalName \/ CheckEvidence \/ EvidenceFails \/ Interrupted
             PROVE  HonestInv'
  OBVIOUS
<1>1. /\ UNCHANGED <<status, pending, meddled, before, stopped, continued, signalled>> /\ Frame
      /\ UNCHANGED thawFailed
  <2>1. CASE StateReadFails \/ EvidenceFails
    BY <2>1 DEF StateReadFails, EvidenceFails, signalVars, Unmoved
  <2>2. CASE UNCHANGED <<worldVars, before, thawFailed, signalVars>> /\ Frame
    BY <2>2 DEF worldVars, kernelVars, signalVars
  <2>3. CASE Acknowledge \/ DeadlinePasses \/ Interrupted
    BY <2>2, <2>3 DEF Acknowledge, DeadlinePasses, Interrupted
  <2>4. CASE ReadFinalMarker \/ ReadFinalName \/ CheckEvidence
    BY <2>2, <2>4 DEF ReadFinalMarker, ReadFinalName, CheckEvidence
  <2> QED
    BY <2>1, <2>3, <2>4
<1>2. UNCHANGED blind /\ Unveiled' /\ OthersLeftStopped' /\ StoppingIsSomebodys'
  BY <1>1
     DEF Frame, collectorVars, HonestInv, Unveiled, OthersLeftStopped, StoppingIsSomebodys
<1>3. /\ \/ step \in {"state", "stop"} /\ step' = "done"
         \/ step \in Submitted \ {"thaw"} /\ step' = "done" /\ before.stopped
         \/ step \in Submitted \ {"thaw"} /\ step' = "thaw" /\ ~before.stopped
         \/ step = "ack" /\ step' = "done" /\ outcome' = "AlreadyExited"
         \/ step \in Submitted \ {"thaw"} /\ step' \in Submitted \ {"thaw"}
      /\ step' = "done" /\ outcome' = "AlreadyExited" =>
           step = "ack" /\ ~(Seen(RootPid) = before.who /\ Alive(Seen(RootPid)))
      /\ step' # "done" => outcome' # "AlreadyExited" \/ UNCHANGED outcome
  <2>1. CASE Acknowledge
    BY <2>1 DEF Acknowledge, End, Submitted
  <2>2. CASE DeadlinePasses \/ Interrupted
    BY <2>2 DEF DeadlinePasses, Timed, Interrupted, Refuse, Transitioned, Submitted
  <2>3. CASE StateReadFails
    BY <2>3 DEF StateReadFails, FailureMeans, Refuse, Transitioned, Submitted
  <2>4. CASE EvidenceFails
    BY <2>4 DEF EvidenceFails, Reading, FailureMeans, Refuse, Transitioned, Submitted
  <2>5. CASE ReadFinalMarker \/ ReadFinalName
    BY <2>5 DEF ReadFinalMarker, ReadFinalName, Refuse, Transitioned, Submitted
  <2>6. CASE CheckEvidence
    BY <2>6 DEF CheckEvidence, Refuse, Transitioned, Submitted
  <2> QED
    BY <2>1, <2>2, <2>3, <2>4, <2>5, <2>6
<1>4. step' = "done" /\ outcome' = "AlreadyExited" => ~Alive(RootProc)
  <2>1. step = "ack" => before.who = RootProc
    BY DEF SingleInv, Duties, PinIsConfirmed, After, Submitted
  <2>2. Alive(RootProc) => Seen(RootPid) = RootProc
    BY SeenIsConfirmed DEF HonestInv, Unveiled, Alive, Live, Active
  <2> QED
    BY <1>3, <2>1, <2>2
<1>5. ReportedExitIsReal'
  BY <1>1, <1>3, <1>4 DEF HonestInv, ReportedExitIsReal, Alive, Submitted
<1>6. StopIsOwned'
  BY <1>1, <1>3 DEF HonestInv, StopIsOwned, Halts, Submitted
<1>7. Undone'
  <2>1. SingleInv /\ step \in {"state", "stop"} => stopped \cup signalled = {}
    BY DEF SingleInv, Duties, TouchedInTurn, Submitted
  <2>2. step \in Submitted \ {"thaw"} => signalled = {}
    BY DEF SingleInv, Duties, TouchedInTurn, Submitted
  <2>3. ~Alive(RootProc) => ~Halts
    BY SingleKillAssumption DEF Alive, Halts, Live, Active
  <2> QED
    BY <1>1, <1>3, <1>4, <2>1, <2>2, <2>3 DEF HonestInv, StopIsOwned, Undone, Halts, Submitted
<1> QED
  BY <1>2, <1>5, <1>6, <1>7 DEF HonestInv

\* SIGSTOP is the command's own stop if it found the process running.
LEMMA SubmitStopHonest == SingleInv /\ HonestInv /\ SubmitStop => HonestInv'
<1> SUFFICES ASSUME SingleInv, HonestInv, SubmitStop PROVE HonestInv'
  OBVIOUS
<1>1. /\ step = "stop" /\ UNCHANGED <<pending, meddled, blind, before, continued, signalled>>
      /\ UNCHANGED thawFailed
  BY DEF SubmitStop, Frame, collectorVars
<1>2. pin = RootProc /\ RootProc \in Proc /\ stopped = {} /\ signalled = {}
  BY <1>1, SingleKillAssumption
     DEF SingleInv, Duties, PinIsConfirmed, TouchedInTurn, After, Submitted
<1>3. Unveiled' /\ (stopped \subseteq stopped' => OthersLeftStopped')
  BY <1>1 DEF HonestInv, Unveiled, OthersLeftStopped
<1>4. CASE step' = "done"
  <2>1. UNCHANGED <<status, stopped>>
    BY <1>4 DEF SubmitStop
  <2>2. outcome' = "AlreadyExited" => Gone(RootProc)
    BY <1>2, <1>4 DEF SubmitStop, SignalTarget, End
  <2> QED
    BY <1>1, <1>2, <1>3, <1>4, <2>1, <2>2
       DEF HonestInv, ReportedExitIsReal, Alive, Gone, Present, StoppingIsSomebodys, StopIsOwned,
           Undone, Submitted
<1>5. CASE step' = "ack"
  <2>1. /\ status' = [status EXCEPT ![RootProc] = StopStatus(RootProc)] /\ UNCHANGED outcome
        /\ stopped' = IF status[RootProc] \in Active THEN stopped \cup {RootProc} ELSE stopped
    BY <1>2, <1>5 DEF SubmitStop, SignalTarget, End
  <2>2. /\ status[RootProc] = "running" => status'[RootProc] = "stopping"
        /\ status[RootProc] # "running" => status'[RootProc] = status[RootProc]
    BY <1>2, <2>1
       DEF StopStatus, SingleInv, CompleteInv, SandwichInv, ReadInv, ReadTypes, KernelTypeOK
  <2>3. StoppingIsSomebodys' /\ ReportedExitIsReal'
    BY <1>1, <2>1, <2>2
       DEF HonestInv, StoppingIsSomebodys, ReportedExitIsReal, Alive, Live, Active
  <2>4. StopIsOwned'
    BY <1>1, <1>2, <1>5, <2>1, <2>2
       DEF HonestInv, StopIsOwned, StoppingIsSomebodys, Halts, Resting, Active, Submitted
  <2> QED
    BY <1>3, <1>5, <2>1, <2>3, <2>4 DEF HonestInv, Undone
<1> QED
  BY <1>4, <1>5 DEF SubmitStop, End

\* SIGKILL needs no resumption; whatever else comes of the signal, the stop is undone.
LEMMA SignalHonest == SingleInv /\ HonestInv /\ Signal => HonestInv'
<1> SUFFICES ASSUME SingleInv, HonestInv, Signal PROVE HonestInv'
  OBVIOUS
<1>1. /\ step = "signal" /\ UNCHANGED <<status, meddled, blind, before, stopped, continued>>
      /\ UNCHANGED thawFailed
  BY DEF Signal, Frame, collectorVars
<1>2. pin = RootProc /\ RootProc \in Proc /\ signalled = {}
  BY <1>1, SingleKillAssumption
     DEF SingleInv, Duties, PinIsConfirmed, TouchedInTurn, After, Submitted
<1>3. /\ step' = "thaw" \/ step' = "done"
      /\ \/ Gone(RootProc) /\ UNCHANGED signalled
         \/ UNCHANGED signalled /\ outcome' = "PermissionDenied"
              /\ (step' = "done" => before.stopped) /\ (step' = "thaw" => ~before.stopped)
         \/ /\ signalled' = {RootProc} /\ outcome' = "Success"
            /\ step' = "done" => request.mode # "terminate"
            /\ pending' = [pending EXCEPT ![RootProc] = @ \cup
                             {IF request.mode = "force" THEN "KILL" ELSE "TERM"}]
  BY <1>2 DEF Signal, SignalTarget, Refuse, Transitioned
<1>4. request.mode \in {"terminate", "force"} /\ pending \in [Proc -> SUBSET {"TERM", "KILL"}]
  BY SingleKillAssumption
     DEF SingleInv, Duties, CommandTypes, Request, CompleteInv, SandwichInv, ReadInv, ReadTypes,
         KernelTypeOK
<1>5. Gone(RootProc) => ~Halts /\ ~Alive(RootProc)
  BY <1>2 DEF Gone, Halts, Alive, Present, Live, Active
<1>6. Unveiled' /\ OthersLeftStopped' /\ StoppingIsSomebodys'
  BY <1>1, <1>2, <1>3 DEF HonestInv, Unveiled, OthersLeftStopped, StoppingIsSomebodys
<1>7. ReportedExitIsReal'
  BY <1>1, <1>3, <1>5 DEF ReportedExitIsReal, Alive
<1>8. StopIsOwned'
  BY <1>1, <1>3, <1>5 DEF HonestInv, StopIsOwned, Halts, Submitted
<1>9. Undone'
  BY <1>1, <1>2, <1>3, <1>4, <1>5 DEF HonestInv, StopIsOwned, Undone, Halts, Submitted
<1> QED
  BY <1>6, <1>7, <1>8, <1>9 DEF HonestInv

LEMMA ThawHonest == SingleInv /\ HonestInv /\ Thaw => HonestInv'
<1> SUFFICES ASSUME SingleInv, HonestInv, Thaw PROVE HonestInv'
  OBVIOUS
<1>1. /\ step = "thaw" /\ step' = "done" /\ UNCHANGED outcome
      /\ UNCHANGED <<pending, meddled, blind, before, stopped, signalled>>
  BY DEF Thaw, Frame, collectorVars
<1>2. pin = RootProc /\ RootProc \in Proc /\ status \in [Proc -> Status]
  BY <1>1, SingleKillAssumption
     DEF SingleInv, Duties, PinIsConfirmed, TouchedInTurn, After, Submitted, CompleteInv,
         SandwichInv, ReadInv, ReadTypes, KernelTypeOK
<1>3. \/ Gone(RootProc) /\ UNCHANGED <<status, continued, thawFailed>>
      \/ thawFailed' = TRUE /\ UNCHANGED <<status, continued>>
      \/ /\ status' = [status EXCEPT ![RootProc] = ContStatus(RootProc)]
         /\ continued' = IF Halts THEN continued \cup {RootProc} ELSE continued
  BY <1>2 DEF Thaw, SignalTarget, Halts
<1>4. /\ status'[RootProc] = "stopping" => status[RootProc] = "stopping"
      /\ Alive(RootProc)' => Alive(RootProc)
  BY <1>2, <1>3 DEF ContStatus, Alive, Live, Active
<1>5. Unveiled' /\ ReportedExitIsReal' /\ StoppingIsSomebodys' /\ StopIsOwned'
  BY <1>1, <1>4
     DEF HonestInv, Unveiled, ReportedExitIsReal, StoppingIsSomebodys, StopIsOwned, Submitted
<1>6. OthersLeftStopped'
  BY <1>1, <1>2, <1>3 DEF HonestInv, StopIsOwned, OthersLeftStopped, Halts
<1>7. Undone'
  BY <1>1, <1>2, <1>3 DEF Undone, Halts, Gone, Present, Live, Active, ContStatus
<1> QED
  BY <1>5, <1>6, <1>7 DEF HonestInv

\* Others stop and resume processes too, and are remembered.
LEMMA WorldHonest == SingleInv /\ HonestInv /\ World => HonestInv'
<1> SUFFICES ASSUME SingleInv, HonestInv, World PROVE HonestInv'
  OBVIOUS
<1>1. /\ WorldStep /\ step # "done" /\ UNCHANGED <<step, before, outcome, thawFailed, blind>>
      /\ UNCHANGED <<stopped, continued, signalled>>
  BY DEF World, Elsewhere, commandVars, signalVars, collectorVars
<1>2. RestsOn(RootProc) /\ RootProc \in Proc /\ status[RootProc] # "unborn"
      /\ status'[RootProc] # "unborn" /\ status \in [Proc -> Status]
      /\ \A p \in Proc : p \in meddled => p \in meddled'
  BY <1>1, WorldPart, WorldStepRests, SingleKillAssumption
     DEF SingleInv, CompleteInv, SandwichInv, ReadInv, ReadTypes, Ages, RestsOn, KernelTypeOK
<1>3. /\ RootProc \in meddled => RootProc \in meddled'
      /\ status'[RootProc] = "stopping" => status[RootProc] = "stopping"
      /\ Halts' /\ RootProc \notin meddled' => Halts
      /\ Resting(RootProc) /\ RootProc \notin meddled' => Resting(RootProc)'
      /\ Alive(RootProc)' => Alive(RootProc)
  BY <1>2 DEF RestsOn, Halts, Resting, Alive, Live, Active
<1>4. Unveiled' /\ ReportedExitIsReal' /\ StoppingIsSomebodys' /\ Undone'
  BY <1>1, <1>3 DEF HonestInv, Unveiled, ReportedExitIsReal, StoppingIsSomebodys, Undone
<1>5. OthersLeftStopped'
  BY <1>1, <1>2, SingleKillAssumption
     DEF HonestInv, OthersLeftStopped, SingleInv, Duties, TouchedInTurn
<1>6. StopIsOwned'
  BY <1>1, <1>3 DEF HonestInv, StopIsOwned
<1> QED
  BY <1>4, <1>5, <1>6 DEF HonestInv

LEMMA HonestStep == SingleInv /\ HonestInv /\ [Next]_vars => HonestInv'
<1> SUFFICES ASSUME SingleInv, HonestInv, [Next]_vars PROVE HonestInv'
  OBVIOUS
<1>1. CASE Command
  BY <1>1, PrepareHonest, ReadStateHonest, ReadingHonest, SubmitStopHonest, SignalHonest, ThawHonest
     DEF Command
<1>2. CASE World
  BY <1>2, WorldHonest
<1>3. CASE Terminated \/ UNCHANGED vars
  BY <1>3
     DEF Terminated, vars, observationVars, worldVars, kernelVars, collectorVars, commandVars,
         signalVars, HonestInv, Unveiled, ReportedExitIsReal, Alive, OthersLeftStopped,
         StoppingIsSomebodys, StopIsOwned, Undone, Halts, Resting
<1> QED
  BY <1>1, <1>2, <1>3 DEF Next

\* Where /proc hides nobody, the command returns with every stop of its own undone or the
\* failure to undo it reported, has resumed nobody whom others had stopped unless SIGTERM
\* was delivered, and calls a process gone only if it is (EndIsHonest).
THEOREM TheEndIsHonest ==
    ASSUME \A limits \in Blinds : "hidepid" \notin limits
    PROVE  Spec => []EndIsHonest
<1>1. Init => SingleInv /\ HonestInv
  BY SingleInit, HonestInit
<1>2. SingleInv /\ HonestInv /\ [Next]_vars => (SingleInv /\ HonestInv)'
  BY SingleStep, HonestStep
<1>3. SingleInv /\ HonestInv => EndIsHonest
  BY DEF SingleInv, Duties, TouchedInTurn, HonestInv, Undone, Halts, EndIsHonest,
         NoStoppedSurvivor
<1> QED
  BY <1>1, <1>2, <1>3, PTL DEF Spec
=============================================================================
