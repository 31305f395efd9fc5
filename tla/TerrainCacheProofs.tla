------------------------- MODULE TerrainCacheProofs -------------------------
(***************************************************************************)
(* TerrainCache, for any processes, files, raster sizes and numbers of     *)
(* calls and faults, when calls do not overlap.  IInv is inductive then,   *)
(* and the properties of the run follow from it.                           *)
(***************************************************************************)
EXTENDS TerrainCache, TLAPS

(* A step of one call p that leaves the disk alone; s is where it gets. *)
Moves(p, s) ==
  /\ pc' = [pc EXCEPT ![p] = s]
  /\ UNCHANGED disk
  /\ output' = output \/ output' = [output EXCEPT ![p] = None]

LEMMA InitInv == Init => IInv
  <1> SUFFICES ASSUME Init PROVE IInv
    OBVIOUS
  <1>1. TypeOK
    BY CacheAssumption DEF Init, TypeOK, Contents, Empty
  <1>2. OneCall
    BY DEF Init, OneCall, Active
  <1>3. PartIsApart /\ CacheIsWhole
    BY DEF Init, PartIsApart, CacheIsWhole
  <1> QED
    BY <1>1, <1>2, <1>3 DEF IInv

(* Every action keeps the types. *)
LEMMA TypeStep == TypeOK /\ [Next]_vars => TypeOK'
  <1> SUFFICES ASSUME TypeOK, [Next]_vars PROVE TypeOK'
    OBVIOUS
  <1> USE CacheAssumption DEF TypeOK, disk, budgets, Goto, Fault
  <1>1. CASE UNCHANGED vars
    BY <1>1 DEF vars
  <1>2. CASE Next
    <2> PICK p \in Acquirers :
          Call(p) \/ UseCached(p) \/ Fetch(p) \/ LoadDem(p) \/ Kill(p)
      BY <1>2 DEF Next
    <2>1. CASE Call(p)
      BY <2>1 DEF Call, AfterLookup, Active
    <2>2. CASE UseCached(p)
      BY <2>2 DEF UseCached, Active, Ended
    <2>3. CASE KeyMissing(p) \/ RequestFails(p)
      BY <2>3 DEF KeyMissing, RequestFails, Active, Ended
    <2>4. CASE Respond(p)
      BY <2>4 DEF Respond, Active
    <2>5. CASE OpenPart(p)
      <3> PICK i \in Inodes :
            /\ part' = i
            /\ content' = [content EXCEPT ![i] = Empty]
            /\ output' = [output EXCEPT ![p] = i]
        BY <2>5 DEF OpenPart
      <3> Empty \in Contents
        BY DEF Empty, Contents
      <3> QED
        BY <2>5 DEF OpenPart, Active
    <2>6. CASE WriteChunk(p)
      <3>1. position[p] \in 1 .. LastChunk /\ body[p] \in {"raster", "other"}
        BY <2>6 DEF WriteChunk
      <3>2. content' \in [Inodes -> Contents]
        BY <2>6, <3>1 DEF WriteChunk, Contents, Chunks
      <3>3. position' \in [Acquirers -> 1 .. LastChunk + 1]
        BY <2>6, <3>1 DEF WriteChunk
      <3> QED
        BY <2>6, <3>2, <3>3 DEF WriteChunk
    <2>7. CASE EndOfBody(p) \/ TransferFails(p)
      BY <2>7 DEF EndOfBody, TransferFails, Close, Active
    <2>8. CASE CheckPart(p)
      BY <2>8 DEF CheckPart, Active
    <2>9. CASE Replace(p)
      BY <2>9 DEF Replace, Active
    <2>10. CASE Unlink(p)
      BY <2>10 DEF Unlink, Active, Ended
    <2>11. CASE LoadDem(p)
      BY <2>11 DEF LoadDem, Ended
    <2>12. CASE Kill(p)
      BY <2>12 DEF Kill, Close, Ended
    <2> QED
      BY <2>1, <2>2, <2>3, <2>4, <2>5, <2>6, <2>7, <2>8, <2>9, <2>10, <2>11, <2>12
         DEF Fetch
  <1> QED
    BY <1>1, <1>2

(* While one call is on its way no other one is, wherever it gets next. *)
LEMMA Alone ==
  ASSUME TypeOK, OneCall, NEW p \in Acquirers, pc[p] \in Active,
         NEW s, pc' = [pc EXCEPT ![p] = s]
  PROVE  /\ \A q \in Acquirers : q # p => pc'[q] = pc[q] /\ pc[q] \notin Active
         /\ pc'[p] = s
         /\ \A q, r \in Acquirers : (pc'[q] \in Active /\ pc'[r] \in Active) => q = r
  BY DEF TypeOK, OneCall

(* A step that leaves the disk alone keeps the invariant if the call may be
   where it gets, with what is on the disk. *)
LEMMA Moving ==
  ASSUME IInv, TypeOK', NEW p \in Acquirers, pc[p] \in Active, NEW s, Moves(p, s),
         s # "write", output'[p] = None,
         s = "replace" => Accepted,
         s \in {"cached", "unlink_ok", "returned"} => destination # None,
         s \in {"request", "open", "check", "replace"} => destination = None
  PROVE  IInv'
  <1> USE DEF IInv, Moves, disk
  <1>1. /\ \A q \in Acquirers : q # p => pc'[q] = pc[q] /\ pc[q] \notin Active
        /\ pc'[p] = s
        /\ \A q, r \in Acquirers : (pc'[q] \in Active /\ pc'[r] \in Active) => q = r
    BY Alone
  <1>2. Accepted' <=> Accepted
    BY DEF Accepted, Valid
  <1>3. \A q \in Acquirers : q # p => output'[q] = output[q]
    BY DEF TypeOK
  <1>4. OneCall'
    BY <1>1, <1>2, <1>3 DEF OneCall, Active
  <1>5. PartIsApart'
    BY <1>3 DEF PartIsApart
  <1>6. CacheIsWhole'
    BY DEF CacheIsWhole, Valid
  <1> QED
    BY <1>4, <1>5, <1>6

(* Writing: only a file that is not the cached one is touched, because the call
   found no cached file and nobody else is publishing one. *)
LEMMA Writing ==
  ASSUME IInv, TypeOK', NEW p \in Acquirers, pc[p] \in {"open", "write"},
         pc' = [pc EXCEPT ![p] = "write"], destination' = destination,
         NEW i \in Inodes, output' = [output EXCEPT ![p] = i]
  PROVE  IInv'
  <1> USE DEF IInv
  <1>1. destination = None
    BY DEF OneCall
  <1>2. /\ \A q \in Acquirers : q # p => pc'[q] = pc[q] /\ pc[q] \notin Active
        /\ pc'[p] = "write"
        /\ \A q, r \in Acquirers : (pc'[q] \in Active /\ pc'[r] \in Active) => q = r
    BY Alone DEF Active
  <1>3. output'[p] = i /\ \A q \in Acquirers : q # p => output'[q] = output[q]
    BY DEF TypeOK
  <1>4. OneCall'
    BY <1>1, <1>2, <1>3 DEF OneCall, Active
  <1>5. PartIsApart'
    BY <1>1 DEF PartIsApart
  <1>6. CacheIsWhole'
    BY <1>1 DEF CacheIsWhole
  <1> QED
    BY <1>4, <1>5, <1>6

(* os.replace publishes what was validated, and nobody has it open. *)
LEMMA Publishing ==
  ASSUME IInv, TypeOK', NEW p \in Acquirers, Replace(p)
  PROVE  IInv' /\ destination = None
  <1> USE DEF IInv
  <1>1. destination = None /\ Accepted
    BY DEF Replace, OneCall
  <1>2. /\ destination' = part
        /\ part' = None
        /\ pc' = [pc EXCEPT ![p] = "unlink_ok"]
        /\ UNCHANGED <<content, output>>
    BY <1>1 DEF Replace, Accepted, Goto
  <1>3. /\ \A q \in Acquirers : q # p => pc'[q] = pc[q] /\ pc[q] \notin Active
        /\ pc'[p] = "unlink_ok"
        /\ \A q, r \in Acquirers : (pc'[q] \in Active /\ pc'[r] \in Active) => q = r
    BY <1>2, Alone DEF Active, Replace
  <1>4. destination' # None
    BY <1>1, <1>2 DEF Accepted
  <1>5. \A q \in Acquirers : output'[q] = None
    <2> SUFFICES ASSUME NEW q \in Acquirers PROVE output[q] = None
      BY <1>2
    <2>1. pc[q] # "write"
      BY <1>3 DEF Replace, Active
    <2> QED
      BY <2>1 DEF OneCall
  <1>6. OneCall'
    BY <1>3, <1>4, <1>5 DEF OneCall, Active
  <1>7. PartIsApart'
    BY <1>2, <1>5 DEF PartIsApart
  <1>8. CacheIsWhole'
    BY <1>1, <1>2 DEF CacheIsWhole, Accepted, Valid
  <1> QED
    BY <1>1, <1>6, <1>7, <1>8

(* The finally clause removes a name, never the final one. *)
LEMMA Cleaning ==
  ASSUME IInv, TypeOK', NEW p \in Acquirers, Unlink(p)
  PROVE  IInv'
  <1> USE DEF IInv
  <1> DEFINE s == IF pc[p] = "unlink_ok" THEN "returned" ELSE "raised"
  <1>1. /\ pc' = [pc EXCEPT ![p] = s]
        /\ part' = None
        /\ UNCHANGED <<destination, content, output>>
        /\ pc[p] \in Active
        /\ s = "returned" => destination # None
    BY DEF Unlink, Goto, Active, OneCall
  <1>2. s \in {"returned", "raised"}
    OBVIOUS
  <1> HIDE DEF s
  <1>3. /\ \A q \in Acquirers : q # p => pc'[q] = pc[q] /\ pc[q] \notin Active
        /\ pc'[p] = s
        /\ \A q, r \in Acquirers : (pc'[q] \in Active /\ pc'[r] \in Active) => q = r
    BY <1>1, Alone
  <1>4. output[p] = None
    <2>1. pc[p] # "write"
      BY DEF Unlink
    <2> QED
      BY <2>1 DEF OneCall
  <1>5. OneCall'
    BY <1>1, <1>2, <1>3, <1>4 DEF OneCall, Active
  <1>6. PartIsApart'
    BY <1>1 DEF PartIsApart
  <1>7. CacheIsWhole'
    BY <1>1 DEF CacheIsWhole, Valid
  <1> QED
    BY <1>5, <1>6, <1>7

(* A call begins only when no other one is on its way. *)
LEMMA Calling ==
  ASSUME Serial, IInv, TypeOK', NEW p \in Acquirers, Call(p)
  PROVE  IInv'
  <1> USE DEF IInv
  <1>1. /\ \A q \in Acquirers : pc[q] \notin Active
        /\ pc' = [pc EXCEPT ![p] = AfterLookup]
        /\ UNCHANGED <<disk, output>>
    BY DEF Call, Goto
  <1>2. /\ pc'[p] = AfterLookup
        /\ \A q \in Acquirers : q # p => pc'[q] = pc[q]
    BY <1>1 DEF TypeOK
  <1>3. \A q \in Acquirers : output[q] = None
    BY <1>1 DEF OneCall, Active
  <1>4. OneCall'
    BY <1>1, <1>2, <1>3 DEF OneCall, Active, AfterLookup, disk
  <1>5. PartIsApart' /\ CacheIsWhole'
    BY <1>1 DEF PartIsApart, CacheIsWhole, Valid, disk
  <1> QED
    BY <1>4, <1>5

LEMMA InvStep == ASSUME Serial, IInv, [Next]_vars PROVE IInv'
  <1> USE DEF IInv
  <1>0. TypeOK'
    BY TypeStep
  <1>1. CASE UNCHANGED vars
    BY <1>0, <1>1
       DEF vars, disk, budgets, OneCall, PartIsApart, CacheIsWhole, Accepted, Valid
  <1>2. CASE Next
    <2> PICK p \in Acquirers :
          Call(p) \/ UseCached(p) \/ Fetch(p) \/ LoadDem(p) \/ Kill(p)
      BY <1>2 DEF Next
    <2>0. pc[p] # "write" => output[p] = None
      BY DEF OneCall
    <2>c. output' = [output EXCEPT ![p] = None] => output'[p] = None
      BY DEF TypeOK
    <2>1. CASE Call(p)
      BY <1>0, <2>1, Calling
    <2>2. CASE UseCached(p)
      <3> DEFINE s == IF Valid(destination) THEN "returned" ELSE "raised"
      <3>1. Moves(p, s) /\ pc[p] \in Active /\ output'[p] = None
        BY <2>0, <2>2 DEF UseCached, Moves, Goto, Active
      <3>2. destination # None /\ s \in {"returned", "raised"}
        BY <2>2 DEF UseCached, OneCall
      <3> HIDE DEF s
      <3> QED
        BY <1>0, <3>1, <3>2, Moving
    <2>3. CASE KeyMissing(p)
      <3>1. Moves(p, "raised") /\ pc[p] \in Active /\ output'[p] = None
        BY <2>0, <2>3 DEF KeyMissing, Moves, Goto, Active
      <3> QED
        BY <1>0, <3>1, Moving
    <2>4. CASE Respond(p)
      <3>1. Moves(p, "open") /\ pc[p] \in Active /\ output'[p] = None
        BY <2>0, <2>4 DEF Respond, Moves, Goto, Active
      <3>2. destination = None
        BY <2>4 DEF Respond, OneCall
      <3> QED
        BY <1>0, <3>1, <3>2, Moving
    <2>5. CASE RequestFails(p)
      <3>1. Moves(p, "unlink_failed") /\ pc[p] \in Active /\ output'[p] = None
        BY <2>0, <2>5 DEF RequestFails, Moves, Goto, Active
      <3> QED
        BY <1>0, <3>1, Moving
    <2>6. CASE OpenPart(p)
      <3> PICK i \in Inodes : output' = [output EXCEPT ![p] = i]
        BY <2>6 DEF OpenPart
      <3> QED
        BY <1>0, <2>6, Writing DEF OpenPart, Goto
    <2>7. CASE WriteChunk(p)
      <3>1. pc' = [pc EXCEPT ![p] = "write"] /\ output' = [output EXCEPT ![p] = output[p]]
        BY <2>7 DEF WriteChunk, TypeOK
      <3>2. output[p] \in Inodes
        BY <2>7 DEF WriteChunk, OneCall
      <3> QED
        BY <1>0, <2>7, <3>1, <3>2, Writing DEF WriteChunk
    <2>8. CASE EndOfBody(p)
      <3>1. Moves(p, "check") /\ pc[p] \in Active /\ output'[p] = None
        BY <2>8, <2>c DEF EndOfBody, Close, Moves, Goto, Active
      <3>2. destination = None
        BY <2>8 DEF EndOfBody, OneCall
      <3> QED
        BY <1>0, <3>1, <3>2, Moving
    <2>9. CASE TransferFails(p)
      <3>1. Moves(p, "unlink_failed") /\ pc[p] \in Active /\ output'[p] = None
        BY <2>9, <2>c DEF TransferFails, Close, Moves, Goto, Active
      <3> QED
        BY <1>0, <3>1, Moving
    <2>10. CASE CheckPart(p)
      <3> DEFINE s == IF Accepted THEN "replace" ELSE "unlink_failed"
      <3>1. Moves(p, s) /\ pc[p] \in Active /\ output'[p] = None
        BY <2>0, <2>10 DEF CheckPart, Moves, Goto, Active
      <3>2. destination = None
        BY <2>10 DEF CheckPart, OneCall
      <3>3. s \in {"replace", "unlink_failed"} /\ (s = "replace" => Accepted)
        OBVIOUS
      <3> HIDE DEF s
      <3> QED
        BY <1>0, <3>1, <3>2, <3>3, Moving
    <2>11. CASE Replace(p)
      BY <1>0, <2>11, Publishing
    <2>12. CASE Unlink(p)
      BY <1>0, <2>12, Cleaning
    <2>13. CASE LoadDem(p)
      <3>1. PICK s \in {"terrain", "mono"} : Moves(p, s)
        BY <2>13 DEF LoadDem, Moves, Goto
      <3>2. pc[p] \in Active /\ output'[p] = None
        BY <2>0, <2>13 DEF LoadDem, Active
      <3> QED
        BY <1>0, <3>1, <3>2, Moving
    <2>14. CASE Kill(p)
      <3>1. Moves(p, "killed") /\ pc[p] \in Active /\ output'[p] = None
        BY <2>14, <2>c DEF Kill, Close, Moves, Goto, Active
      <3> QED
        BY <1>0, <3>1, Moving
    <2> QED
      BY <2>1, <2>2, <2>3, <2>4, <2>5, <2>6, <2>7, <2>8, <2>9, <2>10, <2>11, <2>12,
         <2>13, <2>14 DEF Fetch
  <1> QED
    BY <1>1, <1>2

-----------------------------------------------------------------------------

LEMMA Invariance == ASSUME Serial PROVE Spec => []IInv
  <1>1. IInv /\ [Next]_vars => IInv'
    BY InvStep
  <1> QED
    BY <1>1, InitInv, PTL DEF Spec

(* Whatever is killed, cut off or answered wrongly, the file that
   acquire_terrain_for_area finds under the final name is a whole, valid raster
   of the rectangle. *)
THEOREM CacheStaysWhole == ASSUME Serial PROVE Spec => []CacheIsWhole
  <1>1. IInv => CacheIsWhole
    BY DEF IInv
  <1> QED
    BY <1>1, Invariance, PTL

(* The .part file and the files that calls have open are never the cached one,
   so that opening with "wb", writing and unlinking cannot damage it. *)
THEOREM PartStaysApart == ASSUME Serial PROVE Spec => []PartIsApart
  <1>1. IInv => PartIsApart
    BY DEF IInv
  <1> QED
    BY <1>1, Invariance, PTL

(* Whatever failed before, a call that returns a path to the bridge returns that
   of a file that is there and is a whole, valid raster, and it stays so until
   _load_mission_dem opens it. *)
THEOREM TerrainIsHanded == ASSUME Serial PROVE Spec => []HandedIsWhole
  <1>1. IInv => HandedIsWhole
    <2> SUFFICES ASSUME IInv, NEW p \in Acquirers, pc[p] = "returned"
                 PROVE  destination # None /\ Valid(destination)
      BY DEF HandedIsWhole
    <2>1. destination # None
      BY DEF IInv, OneCall
    <2> QED
      BY <2>1 DEF IInv, CacheIsWhole
  <1> QED
    BY <1>1, Invariance, PTL

(* Once a raster has the final name no later call exchanges it: os.replace is
   reached only by a call that found no file there. *)
THEOREM EntryStays == ASSUME Serial PROVE Spec => EntryIsStable
  <1>1. IInv /\ [Next]_vars => [destination # None => destination' = destination]_destination
    <2> SUFFICES ASSUME IInv, [Next]_vars, destination # None
                 PROVE  destination' = destination
      OBVIOUS
    <2> USE DEF disk, budgets
    <2>1. CASE UNCHANGED vars
      BY <2>1 DEF vars
    <2>2. CASE Next
      <3> PICK p \in Acquirers :
            Call(p) \/ UseCached(p) \/ Fetch(p) \/ LoadDem(p) \/ Kill(p)
        BY <2>2 DEF Next
      <3>1. ~Replace(p)
        BY DEF Replace, IInv, OneCall
      <3>2. CASE Fetch(p)
        BY <3>1, <3>2 DEF Fetch, KeyMissing, Respond, RequestFails, OpenPart, WriteChunk,
                          EndOfBody, TransferFails, CheckPart, Unlink
      <3>3. CASE Call(p) \/ UseCached(p) \/ LoadDem(p) \/ Kill(p)
        BY <3>3 DEF Call, UseCached, LoadDem, Kill
      <3> QED
        BY <3>2, <3>3
    <2> QED
      BY <2>1, <2>2
  <1> QED
    BY <1>1, Invariance, PTL DEF Spec, EntryIsStable

=============================================================================
