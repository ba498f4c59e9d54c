------------------------------ MODULE BillArchive ------------------------------
(***************************************************************************)
(* What the bill pipeline promises as an archive, without queue, worker or *)
(* requests: an id is given to one file and stands for it for ever, and no *)
(* file is in the archive under two ids.  Papers (line items and meters)   *)
(* are filed only with a bill that is shown.  To discard a bill for good   *)
(* takes its papers and its claims on notices with it, in one step; it may *)
(* still be put back by whoever holds a version of it.  A notice sounds    *)
(* once per claim, and a claim is made only where there is none.           *)
(***************************************************************************)
EXTENDS Naturals

CONSTANTS
  Ids,       (* the ids, numbers from 1                                      *)
  Names,     (* what identifies a file                                       *)
  NoName,    (* the name under an id that is not given yet                   *)
  Notices

VARIABLES
  shelf,     (* "none", "live" or "deleted", for each id                     *)
  file,      (* the name that each id stands for                             *)
  next,      (* the next id                                                  *)
  papers,    (* the ids with papers                                          *)
  claim,     (* per notice, the id that claimed it, or 0                     *)
  sounding,  (* the notice that is claimed and has still to sound            *)
  sounded    (* how often each has sounded                                   *)

bills == <<shelf, file, next>>
notices == <<claim, sounding, sounded>>
archiveVars == <<bills, papers, notices>>

Kept(b) == shelf[b] # "none"
Free(b, f) == \A c \in Ids \ {b} : Kept(c) => file[c] # f

(* At most one bill is there from before.                                  *)
ArchiveInit ==
  /\ \A b \in Ids : IF Kept(b) THEN b = 1 /\ b \in papers ELSE file[b] = NoName
  /\ next = IF \E b \in Ids : Kept(b) THEN 2 ELSE 1
  /\ \A b \in papers : b \in Ids /\ Kept(b)
  /\ claim = [k \in Notices |-> 0]
  /\ sounding = {}
  /\ sounded = [k \in Notices |-> 0]

Add(f) ==
  /\ next \in Ids /\ Free(next, f)
  /\ shelf' = [shelf EXCEPT ![next] = "live"]
  /\ file' = [file EXCEPT ![next] = f]
  /\ next' = next + 1
  /\ UNCHANGED <<papers, notices>>

(* A version of a bill is written, and its papers are left, filed or taken *)
(* out; it may be a version of a bill that was hidden or discarded.        *)
Put(b) ==
  /\ b < next /\ Free(b, file[b])
  /\ shelf' = [shelf EXCEPT ![b] = "live"]
  /\ papers' \in {papers, papers \cup {b}, papers \ {b}}
  /\ UNCHANGED <<file, next, notices>>

Hide(b) ==
  /\ shelf[b] = "live"
  /\ shelf' = [shelf EXCEPT ![b] = "deleted"]
  /\ UNCHANGED <<file, next, papers, notices>>

Strip(b) == papers' = papers \ {b} /\ UNCHANGED <<bills, notices>>

Discard(b) ==
  /\ b < next
  /\ shelf' = [shelf EXCEPT ![b] = "none"]
  /\ papers' = papers \ {b}
  /\ claim' = [k \in Notices |-> IF claim[k] = b THEN 0 ELSE claim[k]]
  /\ UNCHANGED <<file, next, sounding, sounded>>

Claim(b, k) ==
  /\ b < next /\ claim[k] = 0 /\ sounding = {}
  /\ claim' = [claim EXCEPT ![k] = b]
  /\ sounding' = {k}
  /\ UNCHANGED <<bills, papers, sounded>>

Sound(k) ==
  /\ sounding = {k}
  /\ sounded' = [sounded EXCEPT ![k] = @ + 1]
  /\ sounding' = {}
  /\ UNCHANGED <<bills, papers, claim>>

(* A restart: what was to sound stays silent.                              *)
Forget == sounding' = {} /\ UNCHANGED <<bills, papers, claim, sounded>>

ArchiveNext ==
  \/ \E f \in Names : Add(f)
  \/ \E b \in Ids :
       \/ Put(b) \/ Hide(b) \/ Strip(b) \/ Discard(b)
       \/ \E k \in Notices : Claim(b, k)
  \/ \E k \in Notices : Sound(k)
  \/ Forget

ArchiveSpec == ArchiveInit /\ [][ArchiveNext]_archiveVars
=============================================================================
