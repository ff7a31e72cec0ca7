------------------------------ MODULE Download ------------------------------
(***************************************************************************)
(* `inletsctl download` (cmd/download.go): runs that fetch inlets-pro into *)
(* one temporary file and move it from there to their destination.         *)
(*                                                                         *)
(* The file system has names and the files they lead to, because a file    *)
(* that is open outlives its name.  A file is a sequence of blocks; the    *)
(* i-th block of a release is represented by the release alone, and files  *)
(* are read and written one block at a time.                               *)
(***************************************************************************)
EXTENDS Naturals, Sequences

CONSTANTS
  Downloads,  \* the runs of `inletsctl download`
  Paths,      \* names of files
  Temp,       \* inlets-pro in the temporary directory
  Dest,       \* inlets-pro in the --download-to directory of each run
  Versions,   \* releases of inlets-pro
  Size,       \* the number of blocks of each release
  Page,       \* the one block of a page that says the release is not there
  Hole,       \* a block that is read as zeros
  Files,      \* the files a file system has room for
  NoFile      \* no file

ASSUME DownloadAssumption ==
  /\ Temp \in Paths
  /\ Dest \in [Downloads -> Paths]
  /\ Size \in [Versions -> Nat \ {0}]
  /\ Page \notin Versions
  /\ Hole \notin Versions
  /\ NoFile \notin Files

VARIABLES
  pc,       \* where each run is, or what it told its user at its end
  version,  \* downloadVersion
  body,     \* the body each run has read
  src,      \* the file each run has open for reading
  dst,      \* the file each run has open for writing
  pos,      \* how many blocks it has written to it
  file,     \* the file each name leads to
  data,     \* the blocks of each file
  met       \* history: whether another run was under way during the run

downloadVars == <<pc, version, body, src, dst, pos, file, data, met>>

Blocks == Versions \cup {Page, Hole}
Whole(v) == [i \in 1 .. Size[v] |-> v]
Ends == {"completed", "refused", "error", "killed"}

DownloadTypeOK ==
  /\ pc \in [Downloads -> Ends \cup {"start", "fetched", "writing", "written",
                                     "opened", "copying", "copied"}]
  /\ version \in [Downloads -> Versions]
  /\ body \in [Downloads -> Seq(Blocks)]
  /\ src \in [Downloads -> Files \cup {NoFile}]
  /\ dst \in [Downloads -> Files \cup {NoFile}]
  /\ pos \in [Downloads -> Nat]
  /\ file \in [Paths -> Files \cup {NoFile}]
  /\ data \in [Files -> Seq(Blocks)]
  /\ met \in [Downloads -> BOOLEAN]
  /\ \A r \in Downloads :
       /\ src[r] \in Files <=> pc[r] \in {"opened", "copying", "copied"}
       /\ dst[r] \in Files <=> pc[r] \in {"writing", "copying"}

DownloadInit ==
  /\ pc = [r \in Downloads |-> "start"]
  /\ version \in [Downloads -> Versions]
  /\ body = [r \in Downloads |-> <<>>]
  /\ src = [r \in Downloads |-> NoFile]
  /\ dst = [r \in Downloads |-> NoFile]
  /\ pos = [r \in Downloads |-> 0]
  /\ file = [p \in Paths |-> NoFile]
  /\ data = [f \in Files |-> <<>>]
  /\ met = [r \in Downloads |-> FALSE]

----------------------------------------------------------------------------
(* Files                                                                   *)

InUse(f) ==
  \/ \E p \in Paths : file[p] = f
  \/ \E r \in Downloads : f \in {src[r], dst[r]}

Open(r, p, f) ==
  /\ file[p] = f \/ (file[p] = NoFile /\ ~InUse(f))
  /\ file' = [file EXCEPT ![p] = f]
  /\ dst' = [dst EXCEPT ![r] = f]
  /\ pos' = [pos EXCEPT ![r] = 0]

(* Mutant: without O_TRUNC.                                                *)
OpenNoTrunc(r, p) ==
  \E f \in Files :
    /\ Open(r, p, f)
    /\ data' = IF file[p] = f THEN data ELSE [data EXCEPT ![f] = <<>>]

(* O_WRONLY | O_CREATE | O_TRUNC: a file that is there is emptied, under   *)
(* the hands of everybody who has it open.                                 *)
OpenTrunc(r, p) ==
  \E f \in Files : Open(r, p, f) /\ data' = [data EXCEPT ![f] = <<>>]

Unlink(p) == file' = [file EXCEPT ![p] = NoFile]

(* The blocks of s once b is written at offset n; what lies before it and  *)
(* was never written is a hole.                                            *)
Written(s, n, b) ==
  [i \in 1 .. IF Len(s) > n THEN Len(s) ELSE n + 1 |->
     IF i = n + 1 THEN b ELSE IF i <= Len(s) THEN s[i] ELSE Hole]

----------------------------------------------------------------------------
(* A run                                                                   *)

Goto(r, label) == pc' = [pc EXCEPT ![r] = label]

(* The run ends and its files are closed.                                  *)
Exit(r, end) ==
  /\ Goto(r, end)
  /\ src' = [src EXCEPT ![r] = NoFile]
  /\ dst' = [dst EXCEPT ![r] = NoFile]

(* The status code is not looked at, nor the error of reading the body: a  *)
(* page and the start of a release are taken for the release.              *)
Bodies(v) ==
  {<<Page>>} \cup {SubSeq(Whole(v), 1, n) : n \in 0 .. Size[v]}

UnderWay(r) == pc[r] \notin {"start"} \cup Ends

(* Both requests: the release is the latest one, or that of --version.     *)
Fetch(r) ==
  /\ pc[r] = "start"
  /\ \E b \in Bodies(version[r]) : body' = [body EXCEPT ![r] = b]
  /\ Goto(r, "fetched")
  /\ met' = [q \in Downloads |->
               \/ met[q]
               \/ q # r /\ UnderWay(q)
               \/ q = r /\ \E p \in Downloads : UnderWay(p)]
  /\ UNCHANGED <<version, src, dst, pos, file, data>>

CreateTemp(r) ==
  /\ pc[r] = "fetched"
  /\ OpenTrunc(r, Temp)
  /\ Goto(r, "writing")
  /\ UNCHANGED <<version, body, src, met>>

OpenSource(r) ==
  /\ pc[r] = "written"
  /\ file[Temp] # NoFile
  /\ src' = [src EXCEPT ![r] = file[Temp]]
  /\ Goto(r, "opened")
  /\ UNCHANGED <<version, body, dst, pos, file, data, met>>

OpenDest(r) ==
  /\ pc[r] = "opened"
  /\ OpenTrunc(r, Dest[r])
  /\ Goto(r, "copying")
  /\ UNCHANGED <<version, body, src, met>>

(* What is written: the body to the temporary file, that to the other one. *)
Input(r) == IF pc[r] = "writing" THEN body[r] ELSE data[src[r]]

WriteBlock(r) ==
  /\ pc[r] \in {"writing", "copying"}
  /\ pos[r] < Len(Input(r))
  /\ data' = [data EXCEPT ![dst[r]] = Written(@, pos[r], Input(r)[pos[r] + 1])]
  /\ pos' = [pos EXCEPT ![r] = @ + 1]
  /\ UNCHANGED <<pc, version, body, src, dst, file, met>>

Close(r) ==
  /\ pc[r] \in {"writing", "copying"}
  /\ pos[r] >= Len(Input(r))
  /\ dst' = [dst EXCEPT ![r] = NoFile]
  /\ Goto(r, IF pc[r] = "writing" THEN "written" ELSE "copied")
  /\ UNCHANGED <<version, body, src, pos, file, data, met>>

(* Mutant: what was copied so far is left.                                 *)
CopyFailsLeaves(r) ==
  /\ pc[r] = "copying"
  /\ Exit(r, "error")
  /\ UNCHANGED <<version, body, pos, file, data, met>>

(* A read or a write fails (the disk is full): what is at the destination  *)
(* by now is removed.                                                      *)
CopyFails(r) ==
  /\ pc[r] = "copying"
  /\ Unlink(Dest[r])
  /\ Exit(r, "error")
  /\ UNCHANGED <<version, body, pos, data, met>>

(* "Download completed", or, when the destination could not be opened, the *)
(* commands to install by hand; both once the temporary file is removed.   *)
RemoveTemp(r) ==
  /\ file[Temp] # NoFile
  /\ Unlink(Temp)
  /\ \/ pc[r] = "copied" /\ Exit(r, "completed")
     \/ pc[r] = "opened" /\ Exit(r, "refused")
  /\ UNCHANGED <<version, body, pos, data, met>>

(* Mutant: an error of writing the temporary file is dropped.              *)
FailGoesOn(r) ==
  /\ pc[r] = "writing"
  /\ Goto(r, "written")
  /\ UNCHANGED <<version, body, src, dst, pos, file, data, met>>

(* Any other call returns an error, and nothing is cleaned up.             *)
Fail(r) ==
  /\ pc[r] \notin {"copying"} \cup Ends
  /\ Exit(r, "error")
  /\ UNCHANGED <<version, body, pos, file, data, met>>

(* SIGINT, SIGTERM or a crash.                                             *)
Kill(r) ==
  /\ pc[r] \notin Ends
  /\ Exit(r, "killed")
  /\ UNCHANGED <<version, body, pos, file, data, met>>

DownloadNext ==
  \E r \in Downloads :
    \/ Fetch(r) \/ CreateTemp(r) \/ OpenSource(r) \/ OpenDest(r)
    \/ WriteBlock(r) \/ Close(r) \/ CopyFails(r)
    \/ RemoveTemp(r) \/ Fail(r) \/ Kill(r)

DownloadSpec == DownloadInit /\ [][DownloadNext]_downloadVars

----------------------------------------------------------------------------
(* Properties                                                              *)

Holds(p, b) == file[p] # NoFile /\ data[file[p]] = b

(* A run that had the temporary file to itself.                            *)
HadTemp(r) == ~met[r] /\ Dest[r] # Temp

(* When a run says "Download completed, make sure that %s is on your path" *)
(* its destination holds what the run was answered, all of it and nothing  *)
(* else, whatever earlier runs have left in the temporary file and at the  *)
(* destination (download.go:70-107).  It is for runs that had the          *)
(* temporary file to themselves; of two that overlap one may install the   *)
(* release of the other, a part of it, or nothing at all.  What was        *)
(* answered may not be the release: see CompletedIsRelease.                *)
CompletedInstalls ==
  [][\A r \in Downloads :
       /\ pc'[r] = "completed" /\ pc[r] # "completed"
       /\ HadTemp(r)
       => Holds(Dest[r], body[r])']_downloadVars

(* Between runs a destination is missing or holds all of what one of the   *)
(* runs to it was answered, also after runs that ended with an error at    *)
(* any block (download.go:182-192); a part of an answer is left only where *)
(* a run was killed or met another.                                        *)
NoPartOfAnswer ==
  (\A r \in Downloads : ~UnderWay(r)) =>
    \A p \in {Dest[r] : r \in Downloads} \ {Temp} :
      \/ file[p] = NoFile
      \/ \E r \in Downloads :
           /\ Dest[r] = p /\ pc[r] # "start"
           /\ Holds(p, body[r]) \/ pc[r] = "killed" \/ met[r]

(* "Download completed, make sure that %s is on your path"                 *)
(* (download.go:102): a run that had the temporary file to itself says so  *)
(* only when the release is at the destination.  It does not hold: an      *)
(* answer that was cut short is installed, for the error of reading it is  *)
(* dropped (download.go:157).                                              *)
CompletedIsRelease ==
  [][\A r \in Downloads :
       /\ pc'[r] = "completed" /\ pc[r] # "completed"
       /\ HadTemp(r)
       => Holds(Dest[r], Whole(version[r]))']_downloadVars

(* The same line, of a run that met no other, wherever it downloads to:    *)
(* something is at the destination by then.  It does not hold: told to     *)
(* download to the temporary directory, a run empties the file it is to    *)
(* copy and removes it (download.go:182, 201).                             *)
CompletedIsThere ==
  [][\A r \in Downloads :
       /\ pc'[r] = "completed" /\ pc[r] # "completed"
       /\ ~met[r]
       => (file[Dest[r]] # NoFile)']_downloadVars

=============================================================================
