---------------------------- MODULE PreparedFile ----------------------------
(***************************************************************************)
(* PreparedFile and SecretOutput (commands/output.rs): the output file of  *)
(* a command is opened before the device is touched and replaced as a      *)
(* whole only after its complete contents reached the disk.  Several ckman *)
(* processes may write to one destination; each may fail, be killed, or    *)
(* lose power with the rest of the host at any step.                       *)
(*                                                                         *)
(* A file is one thing and its name another: sync_all brings the bytes and *)
(* the mode of a file to the disk, but output.rs never synchronises the    *)
(* directory, so the kernel writes the names whenever it likes and a power *)
(* loss undoes the creations, renamings and removals since.                *)
(***************************************************************************)
EXTENDS Naturals, FiniteSets

CONSTANTS
    Writers,   \* processes with this destination as their output
    Secret,    \* those that write a secret (SecretOutput)
    Names,     \* temporary names that the random generator can draw
    Tries,     \* attempts at finding a free name: 8 in the code
    Old,       \* the file of a destination that exists beforehand
    Nobody     \* the owner of a name that no file has

ASSUME OutputAssumption ==
    /\ Secret \subseteq Writers
    /\ Old \notin Writers
    /\ Nobody \notin Writers \cup {Old}
    /\ Tries \in Nat \ {0}

(* A process creates one file at most, which is known by its creator: how   *)
(* much of the contents it holds, whether they are on the disk or only in   *)
(* the page cache, and whether only the owner of the output may read it.    *)
Files == Writers \cup {Old}
File == [part : {"none", "some", "all"}, synced : BOOLEAN, private : BOOLEAN]

VARIABLES
    target,    \* what the output path resolved to when the runs began
    files,     \* the file that each process creates, and the old one
    dest,      \* whose file the destination names
    temps,     \* whose file each temporary name names
    disk,      \* those names as the disk holds them
    pc,        \* next step of each writer
    name,      \* the temporary name it is trying or has created
    tried,     \* names it has tried
    copied     \* permissions it took from an existing destination

\* What became of the writers, which only properties read.
VARIABLES
    saved,     \* those whose error names a retained complete output
    crashed,   \* those whose process was ended from outside
    stuck,     \* those whose temporary file could not be removed
    blackout   \* the host has lost power

progress == <<pc, name, tried, copied>>
history == <<saved, crashed, stuck, blackout>>
vars == <<target, files, dest, temps, disk, progress, history>>

Directory == [dest |-> dest, temps |-> temps]
Whole(f) == files[f].part = "all" /\ files[f].synced
Running == {w \in Writers : pc[w] \notin {"done", "failed"}}

NewFile(w) == [part |-> "none", synced |-> FALSE, private |-> w \in Secret]

Init ==
    /\ target \in {"absent", "file", "read-only", "dangling", "special"}
    /\ dest = IF target = "file" THEN Old ELSE Nobody
    /\ temps = [n \in Names |-> Nobody]
    /\ disk = Directory
    /\ \E private \in BOOLEAN :
          files = [f \in Files |-> IF f \in Writers THEN NewFile(f)
                      ELSE [part |-> "all", synced |-> TRUE, private |-> private]]
    /\ pc = [w \in Writers |-> "resolve"]
    /\ name \in [Writers -> Names]
    /\ tried = [w \in Writers |-> 0]
    /\ copied = [w \in Writers |-> FALSE]
    /\ saved = {} /\ crashed = {} /\ stuck = {} /\ blackout = FALSE

Go(w, label) == pc' = [pc EXCEPT ![w] = label]

-----------------------------------------------------------------------------
(* PreparedFile::prepare.                                                   *)

(* A dangling link, a directory or device, or a file that cannot be opened  *)
(* for writing ends the command here; permissions of an existing file are   *)
(* remembered.                                                              *)
Resolve(w) ==
    /\ pc[w] = "resolve"
    /\ IF target \in {"absent", "file"}
       THEN /\ copied' = [copied EXCEPT ![w] = dest # Nobody /\ files[dest].private]
            /\ Go(w, "create")
       ELSE Go(w, "failed") /\ UNCHANGED copied
    /\ UNCHANGED <<target, files, dest, temps, disk, name, tried, history>>

(* create_new: a name that exists is never reused.                          *)
CreateTemporary(w) ==
    /\ pc[w] = "create" /\ tried[w] < Tries
    /\ \E n \in Names :
          /\ name' = [name EXCEPT ![w] = n]
          /\ IF temps[n] # Nobody
             THEN /\ tried' = [tried EXCEPT ![w] = @ + 1]
                  /\ UNCHANGED <<files, temps, pc>>
             ELSE /\ temps' = [temps EXCEPT ![n] = w]
                  /\ files' = [files EXCEPT ![w] = NewFile(w)]
                  /\ Go(w, "permissions") /\ UNCHANGED tried
    /\ UNCHANGED <<target, dest, disk, copied, history>>

NoFreeName(w) ==
    /\ pc[w] = "create" /\ tried[w] = Tries
    /\ Go(w, "failed")
    /\ UNCHANGED <<target, files, dest, temps, disk, name, tried, copied, history>>

(* From here on the process works on its own file through its handle.       *)
Edit(w, file, label) ==
    /\ files' = [files EXCEPT ![w] = file]
    /\ Go(w, label)
    /\ UNCHANGED <<target, dest, temps, disk, name, tried, copied, history>>

(* Mutant: a secret output takes over the permissions of the destination.   *)
CopiedModeAlways(w) == copied[w]

CopiedMode(w) == copied[w] \/ w \in Secret

(* Permissions are copied to an ordinary output, never to a secret one.     *)
SetPermissions(w) ==
    /\ pc[w] = "permissions"
    /\ Edit(w, [files[w] EXCEPT !.private = CopiedMode(w)], "write")

-----------------------------------------------------------------------------
(* PreparedFile::write, after the device has answered.                      *)

WriteSome(w) ==
    /\ pc[w] = "write"
    /\ Edit(w, [files[w] EXCEPT !.part = "some"], "write")

(* Mutant: renamed without being synchronised first.                        *)
WriteAllUnsynced(w) ==
    /\ pc[w] = "write"
    /\ Edit(w, [files[w] EXCEPT !.part = "all"], "rename")

WriteAll(w) ==
    /\ pc[w] = "write"
    /\ Edit(w, [files[w] EXCEPT !.part = "all"], "sync")

SyncAll(w) ==
    /\ pc[w] = "sync"
    /\ Edit(w, [files[w] EXCEPT !.synced = TRUE], "rename")

(* The file of that name, whoever's it is, becomes the destination.         *)
Rename(w) ==
    /\ pc[w] = "rename"
    /\ dest' = temps[name[w]]
    /\ temps' = [temps EXCEPT ![name[w]] = Nobody]
    /\ Go(w, "done")
    /\ UNCHANGED <<target, files, disk, name, tried, copied, history>>

(* The complete output is retained for recovery if publishing fails.        *)
RenameFails(w) ==
    /\ pc[w] = "rename"
    /\ saved' = saved \cup {w}
    /\ Go(w, "failed")
    /\ UNCHANGED <<target, files, dest, temps, disk, name, tried, copied, crashed, stuck,
                   blackout>>

Holding == {"permissions", "write", "sync", "rename"}

(* Mutant: an abandoned output keeps its temporary file.                    *)
DropForgetting(w) ==
    /\ pc[w] \in Holding \ {"rename"}
    /\ Go(w, "failed")
    /\ UNCHANGED <<target, files, dest, temps, disk, name, tried, copied, history>>

(* Any other error, in the device operation too, drops the output; that its *)
(* removal fails is not reported.                                           *)
Drop(w) ==
    /\ pc[w] \in Holding \ {"rename"}
    /\ \/ temps' = [temps EXCEPT ![name[w]] = Nobody] /\ UNCHANGED stuck
       \/ stuck' = stuck \cup {w} /\ UNCHANGED temps
    /\ Go(w, "failed")
    /\ UNCHANGED <<target, files, dest, disk, name, tried, copied, saved, crashed, blackout>>

-----------------------------------------------------------------------------
(* The operating system, and faults from outside.                           *)

(* The directory reaches the disk when the kernel writes it.                *)
Commit ==
    /\ disk # Directory
    /\ disk' = Directory
    /\ UNCHANGED <<target, files, dest, temps, progress, history>>

Kill(w) ==
    /\ w \in Running
    /\ Go(w, "failed")
    /\ crashed' = crashed \cup {w}
    /\ UNCHANGED <<target, files, dest, temps, disk, name, tried, copied, saved, stuck,
                   blackout>>

(* What may be left of a file that was not synchronised.                    *)
AfterPowerLoss(f) ==
    IF files[f].synced THEN {files[f]}
    ELSE {files[f], [files[f] EXCEPT !.part = "some"], [files[f] EXCEPT !.part = "none"]}

(* Every process ends, and the names are those on the disk: a renaming that *)
(* had not reached it is undone, also that of a command that succeeded.     *)
PowerLoss ==
    /\ ~blackout
    /\ blackout' = TRUE
    /\ pc' = [w \in Writers |-> IF w \in Running THEN "failed" ELSE pc[w]]
    /\ crashed' = crashed \cup Running
    /\ dest' = disk.dest /\ temps' = disk.temps
    /\ files' \in [Files -> UNION {AfterPowerLoss(f) : f \in Files}]
    /\ \A f \in Files : files'[f] \in AfterPowerLoss(f)
    /\ UNCHANGED <<target, disk, name, tried, copied, saved, stuck>>

Finished == Running = {} /\ UNCHANGED vars

Writer(w) ==
    \/ Resolve(w) \/ CreateTemporary(w) \/ NoFreeName(w) \/ SetPermissions(w)
    \/ WriteSome(w) \/ WriteAll(w) \/ SyncAll(w)
    \/ Rename(w) \/ RenameFails(w) \/ Drop(w)

Next == (\E w \in Writers : Writer(w) \/ Kill(w)) \/ Commit \/ PowerLoss \/ Finished

Spec == Init /\ [][Next]_vars

-----------------------------------------------------------------------------
(* Properties.                                                              *)

(* "replace each file only after its complete contents have been written    *)
(* successfully": whatever fails, is killed or loses power, and whoever     *)
(* else writes, the destination is what it was or one whole output that is  *)
(* safely on the disk, and one that existed never disappears.  Once an      *)
(* output has reported success the destination is not the old file, but     *)
(* only until the power is lost: the renaming itself is not synchronised.   *)
DestinationWhole ==
    /\ dest # Nobody => Whole(dest)
    /\ target = "file" => dest # Nobody
    /\ (\E w \in Writers : pc[w] = "done") /\ ~blackout => dest \in Writers

(* "On Unix both the temporary and published file are private": no file     *)
(* ever holds a byte of a secret output unless only its owner may read it.  *)
SecretStaysPrivate ==
    \A w \in Secret : files[w].part # "none" => files[w].private

(* "Retain the complete output for recovery if publishing fails": the file  *)
(* named in such an error holds all of it and is there until the power is   *)
(* lost.  Before that, a temporary file of a process that has ended and     *)
(* told nobody of it is left only by one that was killed or could not       *)
(* remove it.                                                               *)
LeftoversAreComplete ==
    /\ \A w \in saved : Whole(w) /\ (temps[name[w]] = w \/ blackout)
    /\ \A n \in Names : temps[n] \in Writers \ Running /\ ~blackout =>
           temps[n] \in saved \cup crashed \cup stuck
=============================================================================
