------------------------- MODULE PreparedFileProofs -------------------------
(***************************************************************************)
(* For any number of writers, temporary names and attempts: the            *)
(* destination is whole, secrets stay private, and what is left over is    *)
(* complete or accounted for.                                              *)
(*                                                                         *)
(* The argument is one of ownership: a temporary name belongs to the       *)
(* writer that took it when it was free, so nobody else changes it before  *)
(* its renaming, and only a writer that is done has its file at the        *)
(* destination, in the directory in use and in the one on the disk alike   *)
(* (Settled), so that a power loss finds nothing else there.               *)
(***************************************************************************)
EXTENDS PreparedFile, TLAPS

Steps == {"resolve", "create", "permissions", "write", "sync", "rename", "done", "failed"}
Directories == [dest : Files \cup {Nobody}, temps : [Names -> Writers \cup {Nobody}]]

Types ==
    /\ files \in [Files -> File]
    /\ dest \in Files \cup {Nobody}
    /\ temps \in [Names -> Writers \cup {Nobody}]
    /\ disk \in Directories
    /\ pc \in [Writers -> Steps]
    /\ name \in [Writers -> Names]
    /\ copied \in [Writers -> BOOLEAN]
    /\ blackout \in BOOLEAN

(* What a destination may name.                                             *)
Settled(d) ==
    /\ d # Nobody => Whole(d)
    /\ d \in Writers => pc[d] = "done"
    /\ target = "file" => d # Nobody

(* A temporary name in use is the one its owner works on, or left behind.   *)
Owned ==
    \A n \in Names : temps[n] \in Writers =>
        /\ pc[temps[n]] \in Holding \cup {"failed", "done"}
        /\ pc[temps[n]] \in Holding => name[temps[n]] = n

Held ==
    \A w \in Writers : pc[w] \in Holding =>
        /\ temps[name[w]] = w
        /\ pc[w] \in {"sync", "rename"} => files[w].part = "all"
        /\ pc[w] = "rename" => files[w].synced

(* An ended process is done, or has left its file where it may be.          *)
Saved == \A w \in saved :
    /\ w \in Writers /\ pc[w] = "failed" /\ Whole(w)
    /\ temps[name[w]] = w \/ blackout

Accounted == \A n \in Names :
    temps[n] \in Writers \ Running /\ ~blackout => temps[n] \in saved \cup crashed \cup stuck

Published == (\E w \in Writers : pc[w] = "done") /\ ~blackout => dest \in Writers

AllPrivate == \A w \in Secret : files[w].private

Dark == blackout => Running = {}

IInv ==
    /\ Types
    /\ Settled(dest) /\ Settled(disk.dest)
    /\ Owned /\ Held /\ Saved /\ Accounted /\ Published /\ AllPrivate /\ Dark

-----------------------------------------------------------------------------
LEMMA NewFileIs ==
    ASSUME NEW w \in Writers
    PROVE  /\ NewFile(w) \in File
           /\ NewFile(w).private = (w \in Secret)
BY DEF NewFile, File

(* A writer that touches nothing but its own step before it has a file, or  *)
(* gives up with its file left behind or saved.                             *)
LEMMA OnlyStepsKeepIInv ==
    ASSUME IInv, NEW w \in Writers, NEW label \in Steps,
           pc' = [pc EXCEPT ![w] = label],
           UNCHANGED <<target, files, dest, temps, disk, name, blackout>>,
           copied' \in [Writers -> BOOLEAN],
           saved' \in {saved, saved \cup {w}},
           crashed \subseteq crashed', stuck \subseteq stuck',
           w \in Running,
           w \in saved' => pc[w] = "rename" /\ label = "failed",
           \/ pc[w] \in {"resolve", "create"} /\ label \in {"create", "failed"}
           \/ label = "failed" /\ w \in saved' \cup crashed' \cup stuck'
    PROVE  IInv'
<1> USE DEF IInv
<1>1. Types'
  BY DEF Types
<1>2. \A v \in Writers : pc'[v] = IF v = w THEN label ELSE pc[v]
  BY DEF Types
<1>3. pc[w] # "done" /\ pc[w] # "failed" /\ label # "done"
  BY DEF Running
<1>4. Settled(dest)' /\ Settled(disk.dest)'
  BY <1>2, <1>3 DEF Settled, Whole
<1>5. Owned'
  BY <1>2, <1>3 DEF Owned, Holding
<1>6. Held'
  BY <1>2 DEF Held, Holding
<1>7. Saved'
  <2> SUFFICES ASSUME NEW v \in saved'
               PROVE  /\ v \in Writers /\ pc'[v] = "failed" /\ Whole(v)
                      /\ temps[name[v]] = v \/ blackout
    BY DEF Saved, Whole
  <2>1. CASE v = w
    BY <1>2, <2>1 DEF Held, Holding, Whole
  <2>2. CASE v # w
    BY <1>2, <2>2 DEF Saved
  <2> QED BY <2>1, <2>2
<1>8. Accounted'
  <2> SUFFICES ASSUME NEW n \in Names, temps[n] \in Writers \ Running', ~blackout
               PROVE  temps[n] \in saved' \cup crashed' \cup stuck'
    BY DEF Accounted
  <2>1. CASE temps[n] # w
    BY <1>2, <2>1 DEF Accounted, Running
  <2>2. CASE temps[n] = w
    BY <1>2, <2>2 DEF Owned, Holding, Running
  <2> QED BY <2>1, <2>2
<1>9. Published'
  BY <1>2, <1>3 DEF Published
<1>10. AllPrivate'
  BY DEF AllPrivate
<1>11. Dark'
  BY <1>2, <1>3 DEF Dark, Running
<1> QED BY <1>1, <1>4, <1>5, <1>6, <1>7, <1>8, <1>9, <1>10, <1>11

(* A writer that changes its own file.                                      *)
LEMMA EditsKeepIInv ==
    ASSUME IInv, NEW w \in Writers, NEW label \in Holding, NEW f \in File,
           pc[w] \in Holding, Edit(w, f, label),
           w \in Secret => f.private,
           label \in {"sync", "rename"} => f.part = "all",
           label = "rename" => f.synced
    PROVE  IInv'
<1> USE DEF IInv
<1>1. /\ \A v \in Writers : pc'[v] = IF v = w THEN label ELSE pc[v]
      /\ \A v \in Files : files'[v] = IF v = w THEN f ELSE files[v]
      /\ UNCHANGED <<target, dest, temps, disk, name, copied, saved, crashed, stuck, blackout>>
  BY DEF Edit, Go, Types, Files, history
<1>2. Types'
  BY DEF Edit, Go, Types, Files, Holding, Steps, history
<1>3. pc[w] \notin {"done", "failed"} /\ label \notin {"done", "failed"}
  BY DEF Holding
<1>4. ASSUME NEW d \in Files \cup {Nobody}, Settled(d)
      PROVE  /\ d # Nobody => Whole(d)'
             /\ d \in Writers => pc'[d] = "done"
             /\ target = "file" => d # Nobody
  BY <1>1, <1>3, <1>4 DEF Settled, Whole
<1>5. Settled(dest)' /\ Settled(disk.dest)'
  BY <1>1, <1>4 DEF Settled, Whole, Types, Directories
<1>6. Owned'
  BY <1>1 DEF Owned, Holding
<1>7. Held'
  BY <1>1 DEF Held, Files
<1>8. Saved'
  BY <1>1, <1>3 DEF Saved, Whole, Files
<1>9. Accounted'
  BY <1>1, <1>3 DEF Accounted, Running
<1>10. Published'
  BY <1>1, <1>3 DEF Published
<1>11. AllPrivate'
  BY <1>1, OutputAssumption DEF AllPrivate, Files
<1>12. Dark'
  BY <1>1, <1>3 DEF Dark, Running
<1> QED BY <1>2, <1>5, <1>6, <1>7, <1>8, <1>9, <1>10, <1>11, <1>12

(* A writer that creates its file under a free name.                        *)
LEMMA CreationKeepsIInv ==
    ASSUME IInv, NEW w \in Writers, CreateTemporary(w)
    PROVE  IInv'
<1> USE DEF IInv
<1>1. PICK n \in Names :
        /\ pc[w] = "create"
        /\ name' = [name EXCEPT ![w] = n]
        /\ \/ UNCHANGED <<files, temps, pc>>
           \/ /\ temps[n] = Nobody
              /\ temps' = [temps EXCEPT ![n] = w]
              /\ files' = [files EXCEPT ![w] = NewFile(w)]
              /\ pc' = [pc EXCEPT ![w] = "permissions"]
        /\ UNCHANGED <<target, dest, disk, copied, saved, crashed, stuck, blackout>>
  BY DEF CreateTemporary, Go, history
<1>2. \A v \in Writers : name'[v] = IF v = w THEN n ELSE name[v]
  BY <1>1 DEF Types
<1>3. name' \in [Writers -> Names]
  BY <1>1 DEF Types
<1>4. CASE UNCHANGED <<files, temps, pc>>
  <2>1. Types'
    BY <1>1, <1>3, <1>4 DEF Types
  <2>2. Owned'
    BY <1>1, <1>2, <1>4 DEF Owned, Holding
  <2>3. Held'
    BY <1>1, <1>2, <1>4 DEF Held, Holding
  <2>4. Saved'
    BY <1>1, <1>2, <1>4 DEF Saved, Whole
  <2>5. Settled(dest)' /\ Settled(disk.dest)' /\ Accounted' /\ Published' /\ AllPrivate' /\ Dark'
    BY <1>1, <1>4 DEF Settled, Whole, Accounted, Published, AllPrivate, Dark, Running
  <2> QED BY <2>1, <2>2, <2>3, <2>4, <2>5
<1>5. CASE /\ temps[n] = Nobody
           /\ temps' = [temps EXCEPT ![n] = w]
           /\ files' = [files EXCEPT ![w] = NewFile(w)]
           /\ pc' = [pc EXCEPT ![w] = "permissions"]
  <2>1. /\ \A m \in Names : temps'[m] = IF m = n THEN w ELSE temps[m]
        /\ \A v \in Writers : pc'[v] = IF v = w THEN "permissions" ELSE pc[v]
        /\ \A v \in Files : files'[v] = IF v = w THEN NewFile(w) ELSE files[v]
    BY <1>5 DEF Types
  <2>2. Types'
    BY <1>1, <1>3, <1>5, NewFileIs DEF Types, Steps
  <2>3. ASSUME NEW d \in Files \cup {Nobody}, Settled(d)
        PROVE  /\ d # Nobody => Whole(d)'
               /\ d \in Writers => pc'[d] = "done"
               /\ target = "file" => d # Nobody
    BY <1>1, <2>1, <2>3 DEF Settled, Whole
  <2>4. Settled(dest)' /\ Settled(disk.dest)'
    BY <1>1, <2>3 DEF Settled, Whole, Types, Directories
  <2>5. Owned'
    BY <1>1, <1>2, <2>1 DEF Owned, Holding
  <2>6. \A v \in Writers : pc[v] \in Holding => name[v] # n
    BY <1>5, OutputAssumption DEF Held
  <2>7. Held'
    BY <1>1, <1>2, <2>1, <2>6 DEF Held, Types, Holding, Files
  <2>8. Saved'
    <3> SUFFICES ASSUME NEW v \in saved
                 PROVE  /\ v \in Writers /\ pc'[v] = "failed" /\ Whole(v)'
                        /\ temps'[name'[v]] = v \/ blackout
      BY <1>1 DEF Saved
    <3>1. /\ v \in Writers /\ v # w /\ pc[v] = "failed" /\ Whole(v)
          /\ temps[name[v]] = v \/ blackout
      BY <1>1 DEF Saved
    <3>2. temps[name[v]] = v => name[v] # n
      BY <1>5, <3>1, OutputAssumption
    <3> QED BY <1>2, <2>1, <3>1, <3>2 DEF Types, Whole, Files
  <2>9. Accounted'
    BY <1>1, <2>1 DEF Accounted, Running
  <2>10. Published'
    BY <1>1, <2>1 DEF Published
  <2>11. AllPrivate'
    BY <2>1, NewFileIs, OutputAssumption DEF AllPrivate, Files
  <2>12. Dark'
    BY <1>1, <2>1 DEF Dark, Running
  <2> QED BY <2>2, <2>4, <2>5, <2>7, <2>8, <2>9, <2>10, <2>11, <2>12
<1> QED BY <1>1, <1>4, <1>5

(* A writer that gives its file away: to the destination, or for good.      *)
LEMMA RemovalKeepsIInv ==
    ASSUME IInv, NEW w \in Writers,
           Rename(w) \/ (Drop(w) /\ temps' = [temps EXCEPT ![name[w]] = Nobody] /\ UNCHANGED stuck)
    PROVE  IInv'
<1> USE DEF IInv
<1>1. /\ pc[w] \in Holding
      /\ temps' = [temps EXCEPT ![name[w]] = Nobody]
      /\ UNCHANGED <<target, files, disk, name, copied, saved, crashed, stuck, blackout>>
  BY DEF Rename, Drop, Holding, history
<1>2. \A v \in Writers : v # w => pc'[v] = pc[v]
  BY DEF Rename, Drop, Go, Types
<1>3. /\ name[w] \in Names /\ temps[name[w]] = w
      /\ pc[w] = "rename" => Whole(w)
  BY <1>1 DEF Types, Held, Whole
<1>4. \/ /\ pc[w] = "rename" /\ pc'[w] = "done" /\ pc' \in [Writers -> Steps]
         /\ dest' = w
      \/ /\ pc'[w] = "failed" /\ pc' \in [Writers -> Steps]
         /\ dest' = dest
  BY <1>3 DEF Rename, Drop, Go, Types, Steps
<1>5. \A n \in Names : temps'[n] = IF n = name[w] THEN Nobody ELSE temps[n]
  BY <1>1 DEF Types
<1>6. Types'
  BY <1>1, <1>3, <1>4 DEF Types, Files
<1>7. \A n \in Names : temps'[n] \in Writers =>
         temps'[n] = temps[n] /\ temps[n] # w /\ n # name[w]
  BY <1>1, <1>5, OutputAssumption DEF Owned
<1>8. Owned'
  BY <1>1, <1>2, <1>7 DEF Owned
<1>9. Held'
  BY <1>1, <1>2, <1>3, <1>4, <1>5 DEF Held, Types, Holding
<1>10. pc[w] \notin {"done", "failed"} /\ w # Nobody
  BY <1>1, OutputAssumption DEF Holding
<1>11. Settled(disk.dest)'
  BY <1>1, <1>2, <1>10 DEF Settled, Whole
<1>12. Settled(dest)'
  <2>1. CASE pc'[w] = "done" /\ pc[w] = "rename" /\ dest' = w
    BY <1>1, <1>3, <1>10, <2>1 DEF Settled, Whole
  <2>2. CASE dest' = dest
    BY <1>1, <1>2, <1>10, <2>2 DEF Settled, Whole
  <2> QED BY <1>4, <2>1, <2>2
<1>13. Saved'
  <2> SUFFICES ASSUME NEW v \in saved
               PROVE  /\ v \in Writers /\ pc'[v] = "failed" /\ Whole(v)
                      /\ temps'[name[v]] = v \/ blackout
    BY <1>1 DEF Saved, Whole
  <2>1. /\ v \in Writers /\ v # w /\ pc[v] = "failed" /\ Whole(v)
        /\ temps[name[v]] = v \/ blackout
    BY <1>10 DEF Saved
  <2>2. temps[name[v]] = v => name[v] # name[w]
    BY <1>3, <2>1
  <2> QED BY <1>2, <1>5, <2>1, <2>2 DEF Types
<1>14. Accounted'
  <2> SUFFICES ASSUME NEW n \in Names, temps'[n] \in Writers \ Running', ~blackout
               PROVE  temps'[n] \in saved \cup crashed \cup stuck
    BY <1>1 DEF Accounted
  <2>1. temps'[n] = temps[n] /\ temps[n] \in Writers /\ temps[n] # w
    BY <1>7
  <2>2. temps[n] \notin Running
    BY <1>2, <2>1 DEF Running
  <2> QED BY <2>1, <2>2 DEF Accounted
<1>15. Published'
  BY <1>1, <1>2, <1>4 DEF Published
<1>16. AllPrivate'
  BY <1>1 DEF AllPrivate
<1>17. Dark'
  BY <1>1, <1>10 DEF Dark, Running
<1> QED BY <1>6, <1>8, <1>9, <1>11, <1>12, <1>13, <1>14, <1>15, <1>16, <1>17

(* The directory on the disk is one that was in use.                        *)
LEMMA CommitKeepsIInv ==
    ASSUME IInv, Commit
    PROVE  IInv'
<1> USE DEF IInv
<1>1. /\ disk' = [dest |-> dest, temps |-> temps]
      /\ UNCHANGED <<target, files, dest, temps, pc, name, copied, saved, crashed, stuck, blackout>>
  BY DEF Commit, Directory, progress, history
<1>2. Types'
  BY <1>1 DEF Types, Directories
<1>3. Settled(dest)' /\ Settled(disk.dest)'
  BY <1>1 DEF Settled, Whole
<1>4. Owned' /\ Held' /\ Saved' /\ Accounted' /\ Published' /\ AllPrivate' /\ Dark'
  BY <1>1 DEF Owned, Held, Saved, Whole, Accounted, Published, AllPrivate, Dark, Running
<1> QED BY <1>2, <1>3, <1>4

LEMMA FileAfterPowerLoss ==
    ASSUME NEW f \in Files, files[f] \in File, NEW g \in AfterPowerLoss(f)
    PROVE  /\ g \in File
           /\ g.private = files[f].private
           /\ files[f].synced => g = files[f]
<1>1. \A part \in {"none", "some", "all"} :
        /\ [files[f] EXCEPT !.part = part] \in File
        /\ [files[f] EXCEPT !.part = part].private = files[f].private
  BY DEF File
<1> QED BY <1>1 DEF AfterPowerLoss

(* Losing power undoes namings and damages files that nobody relies on.     *)
LEMMA PowerLossKeepsIInv ==
    ASSUME IInv, PowerLoss
    PROVE  IInv'
<1> USE DEF IInv
<1>1. /\ \A w \in Writers : pc'[w] = IF pc[w] \in {"done", "failed"} THEN pc[w] ELSE "failed"
      /\ pc' \in [Writers -> Steps]
      /\ blackout' = TRUE /\ dest' = disk.dest /\ temps' = disk.temps
      /\ UNCHANGED <<target, disk, name, copied, saved>>
  BY DEF PowerLoss, Running, Types, Steps
<1>2. \A f \in Files :
        /\ files'[f] \in File
        /\ files'[f].private = files[f].private
        /\ files[f].synced => files'[f] = files[f]
  <2> TAKE f \in Files
  <2>1. files[f] \in File /\ files'[f] \in AfterPowerLoss(f)
    BY DEF PowerLoss, Types
  <2> QED BY <2>1, FileAfterPowerLoss
<1>3. Types'
  <2>1. files' \in [Files -> UNION {AfterPowerLoss(f) : f \in Files}]
    BY DEF PowerLoss
  <2>2. files' \in [Files -> File]
    BY <1>2, <2>1
  <2> QED BY <1>1, <2>2 DEF Types, Directories
<1>4. \A f \in Files : Whole(f) => files'[f].part = "all" /\ files'[f].synced
  BY <1>2 DEF Whole
<1>5. disk.dest \in Files \cup {Nobody}
  BY DEF Types, Directories
<1>6. Settled(dest)' /\ Settled(disk.dest)'
  BY <1>1, <1>4, <1>5 DEF Settled, Whole
<1>7. \A w \in Writers : pc'[w] \in {"done", "failed"}
  BY <1>1
<1>8. Owned'
  BY <1>1, <1>7 DEF Owned, Holding
<1>9. Held'
  BY <1>7 DEF Held, Holding
<1>10. Saved'
  BY <1>1, <1>4 DEF Saved, Whole, Files
<1>11. Accounted' /\ Published'
  BY <1>1 DEF Accounted, Published
<1>12. AllPrivate'
  BY <1>2, OutputAssumption DEF AllPrivate, Files
<1>13. Dark'
  BY <1>7 DEF Dark, Running
<1> QED BY <1>3, <1>6, <1>8, <1>9, <1>10, <1>11, <1>12, <1>13

-----------------------------------------------------------------------------
(* Each step of a writer, and its being killed.                             *)
LEMMA WritersKeepIInv ==
    ASSUME IInv, NEW w \in Writers, Writer(w) \/ Kill(w)
    PROVE  IInv'
<1>1. CASE \/ Resolve(w) \/ NoFreeName(w) \/ Kill(w) \/ RenameFails(w)
           \/ Drop(w) /\ stuck' = stuck \cup {w} /\ UNCHANGED temps
  <2>1. copied' \in [Writers -> BOOLEAN]
    <3>1. copied \in [Writers -> BOOLEAN] /\ (dest # Nobody => files[dest].private \in BOOLEAN)
      BY DEF IInv, Types, File
    <3>2. CASE Resolve(w)
      BY <3>1, <3>2 DEF Resolve
    <3>3. CASE ~Resolve(w)
      BY <1>1, <3>1, <3>3 DEF NoFreeName, Kill, RenameFails, Drop
    <3> QED BY <3>2, <3>3
  <2>2. PICK label \in {"create", "failed"} :
          /\ pc' = [pc EXCEPT ![w] = label]
          /\ \/ pc[w] \in {"resolve", "create"}
             \/ label = "failed" /\ w \in saved' \cup crashed' \cup stuck'
    BY <1>1 DEF Resolve, NoFreeName, Kill, RenameFails, Drop, Go
  <2>3. /\ UNCHANGED <<target, files, dest, temps, disk, name, blackout>>
        /\ saved' \in {saved, saved \cup {w}}
        /\ crashed \subseteq crashed' /\ stuck \subseteq stuck'
    BY <1>1 DEF Resolve, NoFreeName, Kill, RenameFails, Drop, history
  <2>4. w \in Running
    BY <1>1 DEF Resolve, NoFreeName, Kill, RenameFails, Drop, Running, Holding
  <2>5. w \in saved' => pc[w] = "rename" /\ label = "failed"
    <3>1. w \notin saved
      BY <2>4 DEF IInv, Saved, Running
    <3>2. CASE RenameFails(w)
      BY <2>2, <3>2 DEF RenameFails, IInv, Types
    <3>3. CASE ~RenameFails(w)
      BY <1>1, <3>1, <3>3 DEF Resolve, NoFreeName, Kill, Drop, history
    <3> QED BY <3>2, <3>3
  <2> QED BY <2>1, <2>2, <2>3, <2>4, <2>5, OnlyStepsKeepIInv DEF Steps
<1>2. CASE SetPermissions(w) \/ WriteSome(w) \/ WriteAll(w) \/ SyncAll(w)
  <2>1. pc[w] \in Holding
    BY <1>2 DEF SetPermissions, WriteSome, WriteAll, SyncAll, Holding
  <2>2. /\ files[w] \in File
        /\ w \in Secret => files[w].private
        /\ pc[w] = "sync" => files[w].part = "all"
    BY <2>1 DEF IInv, Types, Held, AllPrivate, Files
  <2> {"write", "sync", "rename"} \subseteq Holding
    BY DEF Holding
  <2>3. CASE SetPermissions(w)
    <3> DEFINE g == [files[w] EXCEPT !.private = CopiedMode(w)]
    <3>0. CopiedMode(w) \in BOOLEAN /\ (w \in Secret => CopiedMode(w))
      BY DEF CopiedMode
    <3>1. g \in File /\ g.private = CopiedMode(w)
      BY <2>2, <3>0 DEF File
    <3>2. Edit(w, g, "write")
      BY <2>3 DEF SetPermissions
    <3> HIDE DEF g
    <3> QED BY <2>1, <3>0, <3>1, <3>2, EditsKeepIInv
  <2>4. CASE WriteSome(w)
    <3> DEFINE g == [files[w] EXCEPT !.part = "some"]
    <3>1. g \in File /\ g.private = files[w].private
      BY <2>2 DEF File
    <3>2. Edit(w, g, "write")
      BY <2>4 DEF WriteSome
    <3> HIDE DEF g
    <3> QED BY <2>1, <2>2, <3>1, <3>2, EditsKeepIInv
  <2>5. CASE WriteAll(w)
    <3> DEFINE g == [files[w] EXCEPT !.part = "all"]
    <3>1. g \in File /\ g.private = files[w].private /\ g.part = "all"
      BY <2>2 DEF File
    <3>2. Edit(w, g, "sync")
      BY <2>5 DEF WriteAll
    <3> HIDE DEF g
    <3> QED BY <2>1, <2>2, <3>1, <3>2, EditsKeepIInv
  <2>6. CASE SyncAll(w)
    <3> DEFINE g == [files[w] EXCEPT !.synced = TRUE]
    <3>1. /\ g \in File /\ g.private = files[w].private
          /\ g.synced /\ g.part = files[w].part
      BY <2>2 DEF File
    <3>2. Edit(w, g, "rename") /\ pc[w] = "sync"
      BY <2>6 DEF SyncAll
    <3> HIDE DEF g
    <3> QED BY <2>1, <2>2, <3>1, <3>2, EditsKeepIInv
  <2> QED BY <1>2, <2>3, <2>4, <2>5, <2>6
<1>3. CASE CreateTemporary(w)
  BY <1>3, CreationKeepsIInv
<1>4. CASE Rename(w) \/ (Drop(w) /\ temps' = [temps EXCEPT ![name[w]] = Nobody] /\ UNCHANGED stuck)
  BY <1>4, RemovalKeepsIInv
<1>5. Drop(w) => \/ temps' = [temps EXCEPT ![name[w]] = Nobody] /\ UNCHANGED stuck
                 \/ stuck' = stuck \cup {w} /\ UNCHANGED temps
  BY DEF Drop
<1> QED BY <1>1, <1>2, <1>3, <1>4, <1>5 DEF Writer

(* The inductive invariant holds of whatever the writers and the host do.   *)
LEMMA Invariance == Spec => []IInv
<1>1. Init => IInv
  <2> SUFFICES ASSUME Init PROVE IInv
    OBVIOUS
  <2>1. PICK private \in BOOLEAN :
          files = [f \in Files |-> IF f \in Writers THEN NewFile(f)
                      ELSE [part |-> "all", synced |-> TRUE, private |-> private]]
    BY DEF Init
  <2>2. files \in [Files -> File] /\ AllPrivate
    BY <2>1, NewFileIs, OutputAssumption DEF File, Files, AllPrivate
  <2>3. Whole(Old)
    BY <2>1, OutputAssumption DEF Whole, Files
  <2>4. /\ dest \in Files \cup {Nobody} /\ temps \in [Names -> Writers \cup {Nobody}]
        /\ disk = [dest |-> dest, temps |-> temps] /\ disk.dest = dest
    BY DEF Init, Directory, Files
  <2>5. Types
    <3>1. disk \in Directories
      BY <2>4 DEF Directories
    <3>2. /\ pc \in [Writers -> Steps] /\ name \in [Writers -> Names]
          /\ copied \in [Writers -> BOOLEAN] /\ blackout \in BOOLEAN
      BY DEF Init, Steps
    <3> QED BY <2>2, <2>4, <3>1, <3>2 DEF Types
  <2>6. Settled(dest) /\ Settled(disk.dest)
    BY <2>3, <2>4, OutputAssumption DEF Init, Settled
  <2>7. Owned /\ Held /\ Saved /\ Accounted /\ Published /\ Dark
    BY OutputAssumption DEF Init, Owned, Held, Holding, Saved, Accounted, Published, Dark
  <2> QED BY <2>2, <2>5, <2>6, <2>7 DEF IInv
<1>2. IInv /\ [Next]_vars => IInv'
  <2>1. CASE UNCHANGED vars
    BY <2>1 DEF vars, progress, history, IInv, Types, Settled, Whole, Owned, Held, Saved,
      Accounted, Published, AllPrivate, Dark, Running
  <2> QED BY <2>1, WritersKeepIInv, CommitKeepsIInv, PowerLossKeepsIInv DEF Next, Finished
<1> QED BY <1>1, <1>2, PTL DEF Spec

(* For any number of writers that fail, die or lose power anywhere, and     *)
(* whatever part of the directory a power loss undoes, the destination is   *)
(* whole and does not disappear; that it is a new output once one has       *)
(* succeeded is shown only up to the power loss (DestinationWhole).         *)
THEOREM DestinationNeverTorn == Spec => []DestinationWhole
<1>1. IInv => DestinationWhole
  BY DEF IInv, Settled, Published, DestinationWhole
<1> QED BY <1>1, Invariance, PTL

(* No file holds a byte of a secret that others may read                    *)
(* (SecretStaysPrivate).                                                    *)
THEOREM SecretsNeverShared == Spec => []SecretStaysPrivate
<1>1. IInv => SecretStaysPrivate
  BY DEF IInv, AllPrivate, SecretStaysPrivate
<1> QED BY <1>1, Invariance, PTL

(* What an error names is complete, and until the power is lost an ended    *)
(* process leaves nothing else behind unless it was killed or could not     *)
(* remove it (LeftoversAreComplete).                                        *)
THEOREM LeftoversAccountedFor == Spec => []LeftoversAreComplete
<1>1. IInv => LeftoversAreComplete
  BY DEF IInv, Saved, Accounted, LeftoversAreComplete
<1> QED BY <1>1, Invariance, PTL
=============================================================================
