---------------------------- MODULE TerrainCache ----------------------------
(***************************************************************************)
(* The raster of one rectangle on the disk of the compute host:            *)
(* acquire_terrain_for_area of opentopography.py as iso_acquire.py calls   *)
(* it with require_terrain, and the isolated solver that opens the path it *)
(* was handed.                                                             *)
(*                                                                         *)
(* A call looks the file up; if it is there it is validated and its path   *)
(* returned.  Otherwise the body is written chunk by chunk to a file with  *)
(* the suffix .part, that file is validated, and os.replace gives it the   *)
(* final name; a finally clause unlinks whatever .part is left.  Names and *)
(* inodes are told apart, because a process that has a file open goes on   *)
(* writing to it under whatever name it has by then.                       *)
(*                                                                         *)
(* Serial says whether the listener's slot keeps the calls apart.  It does *)
(* not when an orphaned solver is still downloading (OneInFlight of        *)
(* ComputeChain), or when somebody runs the CLI by hand.                   *)
(***************************************************************************)
EXTENDS Naturals

CONSTANTS
  Acquirers,   \* processes that acquire terrain for this rectangle
  Inodes,      \* files on the disk
  None,        \* no file
  LastChunk,   \* how many chunks of 64 KiB the raster has
  Serial,      \* calls never overlap
  MaxCalls,    \* bound: calls
  MaxFaults    \* bound: kills, broken transfers and bad bodies

ASSUME CacheAssumption ==
  /\ None \notin Inodes
  /\ LastChunk \in Nat \ {0}
  /\ Serial \in BOOLEAN
  /\ MaxCalls \in Nat /\ MaxFaults \in Nat

VARIABLES
  destination, \* the file named COP30_<digest>.tif
  part,        \* the file named COP30_<digest>.tif.part
  content,     \* what each file holds, chunk by chunk
  pc,          \* how far each call is
  output,      \* the file each call has open for writing
  position,    \* the next chunk each call writes
  body,        \* what the server sends each call
  calls,       \* calls so far
  faults       \* faults so far

disk == <<destination, part, content>>
budgets == <<calls, faults>>
vars == <<disk, pc, output, position, body, budgets>>

Chunks == 1 .. LastChunk

(* A chunk of a file: not there (a hole or past the end), of the raster that
   covers the rectangle, or of anything else. *)
Contents == [Chunks -> {"absent", "raster", "other"}]

Empty == [c \in Chunks |-> "absent"]

(* Mutant: a file that has its header will do. *)
Valid_HeaderOnly(i) == content[i][1] = "raster"

(* _validate_geotiff: TIFF signature, CRS, coverage of the rectangle and finite
   elevations.  A raster with a hole counts as unreadable. *)
Valid(i) == \A c \in Chunks : content[i][c] = "raster"

(* A call that has not ended. *)
Active == {"cached", "request", "open", "write", "check", "replace",
           "unlink_ok", "unlink_failed", "returned"}

(* How a call ends: the solver computed with the raster, or with mono terrain;
   the bridge raised; the process was killed. *)
Ended == {"terrain", "mono", "raised", "killed"}

TypeOK ==
  /\ destination \in Inodes \cup {None}
  /\ part \in Inodes \cup {None}
  /\ content \in [Inodes -> Contents]
  /\ pc \in [Acquirers -> Active \cup Ended \cup {"idle"}]
  /\ output \in [Acquirers -> Inodes \cup {None}]
  /\ position \in [Acquirers -> 1 .. LastChunk + 1]
  /\ body \in [Acquirers -> {"raster", "other"}]
  /\ calls \in 0 .. MaxCalls
  /\ faults \in 0 .. MaxFaults

Init ==
  /\ destination = None
  /\ part = None
  /\ content = [i \in Inodes |-> Empty]
  /\ pc = [p \in Acquirers |-> "idle"]
  /\ output = [p \in Acquirers |-> None]
  /\ position = [p \in Acquirers |-> 1]
  /\ body = [p \in Acquirers |-> "raster"]
  /\ calls = 0
  /\ faults = 0

-----------------------------------------------------------------------------

Goto(p, step) == pc' = [pc EXCEPT ![p] = step]

Fault ==
  /\ faults < MaxFaults
  /\ faults' = faults + 1

(* destination.is_file() *)
AfterLookup == IF destination # None THEN "cached" ELSE "request"

(* A solver process reaches ensure_dem_for_iso_scenario. *)
Call(p) ==
  /\ pc[p] \in Ended \cup {"idle"}
  /\ calls < MaxCalls
  /\ Serial => \A q \in Acquirers : pc[q] \notin Active
  /\ calls' = calls + 1
  /\ Goto(p, AfterLookup)
  /\ UNCHANGED <<disk, output, position, body, faults>>

(* The cached file is validated again; an invalid one is not replaced. *)
UseCached(p) ==
  /\ pc[p] = "cached"
  /\ Goto(p, IF Valid(destination) THEN "returned" ELSE "raised")
  /\ UNCHANGED <<disk, output, position, body, budgets>>

(* No OPENTOPOGRAPHY_API_KEY: raised before anything is touched. *)
KeyMissing(p) ==
  /\ pc[p] = "request"
  /\ Goto(p, "raised")
  /\ UNCHANGED <<disk, output, position, body, budgets>>

(* urlopen: the headers of a 200 are there.  The body may be something else
   than the raster asked for. *)
Respond(p) ==
  /\ pc[p] = "request"
  /\ \/ body' = [body EXCEPT ![p] = "raster"] /\ UNCHANGED faults
     \/ body' = [body EXCEPT ![p] = "other"] /\ Fault
  /\ Goto(p, "open")
  /\ UNCHANGED <<disk, output, position, calls>>

(* HTTPError or URLError: the finally clause runs all the same. *)
RequestFails(p) ==
  /\ pc[p] = "request"
  /\ Goto(p, "unlink_failed")
  /\ UNCHANGED <<disk, output, position, body, budgets>>

(* Files that no name and no process refers to. *)
Fresh ==
  {i \in Inodes : i # destination /\ i # part /\ \A q \in Acquirers : output[q] # i}

(* Mutant: the body goes straight to the final name. *)
OpenPart_Final(p) ==
  /\ pc[p] = "open"
  /\ \E i \in Inodes :
       /\ i = destination \/ (destination = None /\ i \in Fresh)
       /\ destination' = i
       /\ content' = [content EXCEPT ![i] = Empty]
       /\ output' = [output EXCEPT ![p] = i]
  /\ position' = [position EXCEPT ![p] = 1]
  /\ Goto(p, "write")
  /\ UNCHANGED <<part, body, budgets>>

(* part.open("wb"): the file of that name is truncated, whoever else is writing
   it, or a new one is created. *)
OpenPart(p) ==
  /\ pc[p] = "open"
  /\ \E i \in Inodes :
       /\ i = part \/ (part = None /\ i \in Fresh)
       /\ part' = i
       /\ content' = [content EXCEPT ![i] = Empty]
       /\ output' = [output EXCEPT ![p] = i]
  /\ position' = [position EXCEPT ![p] = 1]
  /\ Goto(p, "write")
  /\ UNCHANGED <<destination, body, budgets>>

(* output.write(chunk) *)
WriteChunk(p) ==
  /\ pc[p] = "write"
  /\ position[p] <= LastChunk
  /\ content' = [content EXCEPT ![output[p]][position[p]] = body[p]]
  /\ position' = [position EXCEPT ![p] = @ + 1]
  /\ UNCHANGED <<destination, part, pc, output, body, budgets>>

Close(p) == output' = [output EXCEPT ![p] = None]

(* read returns b"": at the end of the body, or because the connection was
   closed early, which http.client does not report for reads of a given size. *)
EndOfBody(p) ==
  /\ pc[p] = "write"
  /\ IF position[p] > LastChunk THEN UNCHANGED faults ELSE Fault
  /\ Close(p)
  /\ Goto(p, "check")
  /\ UNCHANGED <<disk, position, body, calls>>

(* The transfer raises: a socket timeout, a reset. *)
TransferFails(p) ==
  /\ pc[p] = "write"
  /\ Fault
  /\ Close(p)
  /\ Goto(p, "unlink_failed")
  /\ UNCHANGED <<disk, position, body, calls>>

(* Mutant: only the size of the download is looked at. *)
Accepted_AnySize == part # None /\ content[part] # Empty

(* part.stat().st_size and _validate_geotiff(part); the name may be gone. *)
Accepted == part # None /\ Valid(part)

CheckPart(p) ==
  /\ pc[p] = "check"
  /\ Goto(p, IF Accepted THEN "replace" ELSE "unlink_failed")
  /\ UNCHANGED <<disk, output, position, body, budgets>>

(* os.replace(part, destination), whatever has that name by now. *)
Replace(p) ==
  /\ pc[p] = "replace"
  /\ IF part = None
       THEN Goto(p, "unlink_failed") /\ UNCHANGED disk
       ELSE /\ destination' = part
            /\ part' = None
            /\ Goto(p, "unlink_ok")
            /\ UNCHANGED content
  /\ UNCHANGED <<output, position, body, budgets>>

(* The finally clause: part.unlink(missing_ok=True), whoever it belongs to. *)
Unlink(p) ==
  /\ pc[p] \in {"unlink_ok", "unlink_failed"}
  /\ part' = None
  /\ Goto(p, IF pc[p] = "unlink_ok" THEN "returned" ELSE "raised")
  /\ UNCHANGED <<destination, content, output, position, body, budgets>>

(* The isolated worker opens scenario["dem_file"], if it is there and valid.  It
   takes mono terrain instead when it cannot read the file, and also, whatever
   the file holds, when rasterio or numpy cannot be imported or reading fails. *)
LoadDem(p) ==
  /\ pc[p] = "returned"
  /\ \/ destination # None /\ Valid(destination) /\ Goto(p, "terrain")
     \/ Goto(p, "mono")
  /\ UNCHANGED <<disk, output, position, body, budgets>>

(* The solver process is killed: its files are closed, its .part stays. *)
Kill(p) ==
  /\ pc[p] \in Active
  /\ Fault
  /\ Close(p)
  /\ Goto(p, "killed")
  /\ UNCHANGED <<disk, position, body, calls>>

Fetch(p) ==
  \/ KeyMissing(p) \/ Respond(p) \/ RequestFails(p) \/ OpenPart(p) \/ WriteChunk(p)
  \/ EndOfBody(p) \/ TransferFails(p) \/ CheckPart(p) \/ Replace(p) \/ Unlink(p)

Next ==
  \E p \in Acquirers :
    Call(p) \/ UseCached(p) \/ Fetch(p) \/ LoadDem(p) \/ Kill(p)

Spec == Init /\ [][Next]_vars

-----------------------------------------------------------------------------
(* Safety, as long as calls do not overlap *)

(* The file under the final name is always whole and valid: no kill, broken
   transfer or wrong body, and no .part left by an earlier call, ever gets
   there. *)
CacheIsWhole == destination # None => Valid(destination)

(* What a call leaves open or under the .part name is never the cached file. *)
PartIsApart ==
  /\ part # None => part # destination
  /\ \A p \in Acquirers : output[p] # None => output[p] # destination

(* What a worker is handed is there and whole from the moment the call returns
   until the worker opens it: "If the key is missing, acquisition fails, or the
   raster is invalid or incomplete, the live bridge raises an explicit terrain
   error before the worker runs" (docs/live-grisha-f2c-iso.md).  The validation
   is of the .part, before os.replace and the finally clause. *)
HandedIsWhole ==
  \A p \in Acquirers : pc[p] = "returned" => destination # None /\ Valid(destination)

(* Once there, the cached file is not exchanged for another one: a worker that
   was handed the path reads the file that was validated. *)
EntryIsStable == [][destination # None => destination' = destination]_destination

-----------------------------------------------------------------------------
(* The inductive invariant of the serial case *)

(* At most one call is on its way; only that one has a file open; what it is
   about to publish was validated and is still there. *)
OneCall ==
  /\ \A p, q \in Acquirers : (pc[p] \in Active /\ pc[q] \in Active) => p = q
  /\ \A p \in Acquirers :
       /\ output[p] # None => pc[p] = "write"
       /\ pc[p] = "write" => output[p] \in Inodes
       /\ pc[p] = "replace" => Accepted
       /\ pc[p] \in {"cached", "unlink_ok", "returned"} => destination # None
       /\ pc[p] \in {"request", "open", "write", "check", "replace"}
            => destination = None

IInv == TypeOK /\ OneCall /\ PartIsApart /\ CacheIsWhole

=============================================================================
