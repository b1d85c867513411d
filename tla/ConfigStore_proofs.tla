------------------------- MODULE ConfigStore_proofs -------------------------
(***************************************************************************)
(* What a crash may do to the files of okvm-config, for any identities,    *)
(* peers, settings and tasks that save, in any interleaving and whichever  *)
(* of their calls fail.                                                    *)
(***************************************************************************)
EXTENDS ConfigStore, TLAPS

Contents == {Missing, Damaged, None} \cup Identities \cup (SUBSET PeerIds)
              \cup [set : Settings, win : Windows]

Save == [step : {"idle", "list", "open", "write", "rename", "renamed"},
         val : Contents,
         at : {"tmp", "path", "gone"}]

\* What TypeOK leaves out, since the files hold values of different kinds.
Shape ==
  /\ path \in [File -> Contents] /\ tmp \in [File -> Contents]
  /\ job \in [Job -> Save]

\* Saves of one file under way together are known as such.
MixedIsKept ==
  /\ \A j, k \in Job : Saving(j) /\ Saving(k) /\ FileOf(j) = FileOf(k) /\ j # k => k \in mixed
  /\ "boot" \notin mixed

\* A temporary file belongs to the one save that has it open.
TmpIsOwned ==
  \A j \in Job \ mixed :
    LET f == FileOf(j) IN
    /\ job[j].step = "open" => job[j].at = "tmp"
    /\ job[j].step \in {"write", "rename"} => job[j].at \in {"tmp", "gone"}
    /\ job[j].step = "write" /\ job[j].at = "tmp" => tmp[f] = Damaged
    /\ job[j].step = "rename" /\ job[j].at = "tmp" => tmp[f] = job[j].val
    /\ job[j].step \in {"write", "rename"} /\ job[j].at = "gone" => tmp[f] = Missing

\* What is under way in each phase of the application.
PhaseIsKept ==
  /\ app # "up" => todo = {} /\ \A j \in Job \ {"boot"} : job[j].step = "idle"
  /\ app # "starting" => job["boot"].step = "idle"
  /\ \A j \in Job : job[j].step = "list" => j \in PeerSavers
  /\ \A j \in Job : job[j].step = "renamed" => j = "boot"

\* The identity of the last start is in its file, or still in the older one.
IdentityOnDisk ==
  /\ known # None => \/ path["identity"] = known
                     \/ path["identity"] = Missing /\ seed = known
  /\ Saving("boot") /\ known # None => job["boot"].val = known
  /\ job["boot"].step = "renamed" => path["identity"] = job["boot"].val

\* The list in memory is on the disk, or a save that will put it there is to come, or the
\* last save went wrong.
PeersFollow ==
  app = "up" /\ wiped = None =>
    /\ todo = {}
    /\ \A j \in PeerSavers \ mixed : job[j].step \in {"write", "rename"} => job[j].at = "tmp"
    /\ \/ \E j \in PeerSavers : job[j].step = "list"
       \/ \E j \in PeerSavers : Saving(j) /\ j \in mixed
       \/ \E j \in PeerSavers : Saving(j) /\ j \notin mixed /\ job[j].val = peers
       \/ /\ \A j \in PeerSavers : ~Saving(j)
          /\ exact => LoadOrDefault("peers", {}) = peers

IInv == Shape /\ TypeOK /\ MixedIsKept /\ TmpIsOwned /\ PhaseIsKept /\ IdentityOnDisk /\ PeersFollow

\* The kinds of values, and who writes which file.
LEMMA KindFacts ==
  /\ Missing \in Contents /\ Damaged \in Contents /\ None \in Contents
  /\ \A f \in File : \A c \in Value(f) : c \in Contents
  /\ \A c \in Identities : c \in Contents
  /\ \A c \in SUBSET PeerIds : c \in Contents
  /\ \A c \in [set : Settings, win : Windows] : c \in Contents
  /\ DefaultConfig \in [set : Settings, win : Windows]
<1>1. NoSettings \in Settings /\ NoWindow \in Windows
  BY DefaultAssumption DEF NoSettings, NoWindow
<1>2. DefaultConfig \in [set : Settings, win : Windows]
  BY <1>1 DEF DefaultConfig
<1>3. \A f \in File : \A c \in Value(f) : c \in Contents
  BY DEF Value, Contents, File
<1> QED BY <1>2, <1>3 DEF Contents

\* The tasks that save, and the one file of each.
LEMMA JobFacts ==
  /\ "identity" \in File /\ "peers" \in File /\ "config" \in File
  /\ "boot" \in Job /\ "ui" \in Job /\ "window" \in Job
  /\ \A j \in PeerSavers : j \in Job /\ j # "boot" /\ j # "ui" /\ j # "window"
  /\ \A j \in Job : FileOf(j) \in File
  /\ \A j \in Job : FileOf(j) = "peers" <=> j \in PeerSavers
  /\ \A j \in Job : FileOf(j) = "identity" <=> j = "boot"
BY SaverAssumption DEF Job, File, FileOf

\* What each task may write is what its file may hold.
LEMMA ValueFacts ==
  /\ Value("identity") = Identities /\ Value("peers") = SUBSET PeerIds
  /\ \A c : c \in Value("config") <=> c \in [set : Settings, win : Windows]
  /\ \A j \in PeerSavers : Value(FileOf(j)) = SUBSET PeerIds
  /\ Value(FileOf("boot")) = Identities
  /\ \A c : c \in [set : Settings, win : Windows] =>
       c \in Value(FileOf("ui")) /\ c \in Value(FileOf("window"))
<1>1. Value(FileOf("boot")) = Identities
  BY DEF Value, FileOf
<1>2. FileOf("ui") = "config" /\ FileOf("window") = "config"
  BY DEF FileOf
<1>3. \A c : c \in Value("config") <=> c \in [set : Settings, win : Windows]
  BY DEF Value
<1>4. Value("identity") = Identities /\ Value("peers") = SUBSET PeerIds
  BY DEF Value
<1>5. \A j \in PeerSavers : FileOf(j) = "peers"
  BY JobFacts
<1> QED BY <1>1, <1>2, <1>3, <1>4, <1>5

\* A missing or damaged file is told from every content.
LEMMA MarkFacts ==
  /\ Missing # Damaged
  /\ \A f \in File : \A c \in Value(f) : c # Missing /\ c # Damaged /\ c # None
  /\ \A c \in Identities : c # Missing /\ c # Damaged /\ c # None
  /\ \A c \in SUBSET PeerIds : c # Missing /\ c # Damaged /\ c # None
BY MarkAssumption DEF File, Value

\* A task that saves nothing.
LEMMA IdleFacts == Idle \in Save /\ Idle.step = "idle" /\ Idle.at = "tmp" /\ Idle.val = None
BY KindFacts DEF Idle, Save

\* A save that begins.
LEMMA BeginFacts ==
  ASSUME Shape, NEW j \in Job, NEW v \in Contents, Begin(j, v)
  PROVE  /\ job' \in [Job -> Save]
         /\ \A k \in Job \ {j} : job'[k] = job[k]
         /\ job'[j].step = "open" /\ job'[j].val = v /\ job'[j].at = "tmp"
         /\ exact' = exact /\ mixed \subseteq mixed' /\ mixed' \subseteq mixed \cup Job
         /\ \A k \in Overlapped(j) : k \in mixed' /\ j \in mixed'
         /\ Overlapped(j) = {} => mixed' = mixed
BY DEF Begin, Overlapped, Shape, Save

\* A save that goes on, or ends.
LEMMA StepFacts ==
  ASSUME Shape, NEW j \in Job,
         NEW s \in {"idle", "list", "open", "write", "rename", "renamed"},
         job' = [job EXCEPT ![j].step = s]
  PROVE  /\ job' \in [Job -> Save]
         /\ \A k \in Job \ {j} : job'[k] = job[k]
         /\ job'[j].step = s /\ job'[j].val = job[j].val /\ job'[j].at = job[j].at
BY DEF Shape, Save

\* A save that ends changes its own task only.
LEMMA EndFacts ==
  ASSUME Shape, NEW j \in Job, job' = [job EXCEPT ![j] = Idle]
  PROVE  /\ job' \in [Job -> Save]
         /\ \A k \in Job \ {j} : job'[k] = job[k]
         /\ job'[j] = Idle
BY IdleFacts DEF Shape

\* A save of which a call fails.
LEMMA FailFacts ==
  ASSUME Shape, NEW j \in Job, Fails(j)
  PROVE  /\ job' \in [Job -> Save]
         /\ \A k \in Job \ {j} : job'[k] = job[k]
         /\ job'[j] = Idle /\ job'[j].step = "idle"
         /\ mixed' = mixed \ {j}
         /\ j # "boot" => app' = app
         /\ j = "boot" => app' = "off"
<1>1. job' = [job EXCEPT ![j] = Idle]
  BY DEF Fails
<1> QED BY <1>1, EndFacts, IdleFacts DEF Fails, Ends

LEMMA FailExact ==
  ASSUME NEW j \in Job, Fails(j)
  PROVE  exact' = IF j \in PeerSavers THEN FALSE ELSE exact
BY DEF Fails, Ends

\* A save of which a call succeeds.
LEMMA GoFacts ==
  ASSUME Shape, NEW j \in Job, NEW s \in {"write", "rename"}, GoesOn(j, s)
  PROVE  /\ job' \in [Job -> Save]
         /\ \A k \in Job \ {j} : job'[k] = job[k]
         /\ job'[j].step = s /\ job'[j].val = job[j].val /\ job'[j].at = job[j].at
         /\ UNCHANGED <<app, mixed, exact>>
<1>1. job' = [job EXCEPT ![j].step = s] /\ UNCHANGED <<app, mixed, exact>>
  BY DEF GoesOn, saveHistory
<1> QED BY <1>1, StepFacts

\* One file replaced by a content.
LEMMA FileFacts ==
  ASSUME Shape, NEW f \in File, NEW c \in Contents
  PROVE  /\ [path EXCEPT ![f] = c] \in [File -> Contents]
         /\ [tmp EXCEPT ![f] = c] \in [File -> Contents]
BY DEF Shape

\* What a write leaves in the file the save has open.
LEMMA PutFacts ==
  ASSUME Shape, NEW j \in Job, NEW c \in Contents, Put(j, c)
  PROVE  /\ path' \in [File -> Contents] /\ tmp' \in [File -> Contents]
         /\ \A f \in File : path'[f] # path[f] => f = FileOf(j) /\ job[j].at = "path" /\ path'[f] = c
         /\ \A f \in File : tmp'[f] # tmp[f] => f = FileOf(j) /\ job[j].at = "tmp" /\ tmp'[f] = c
         /\ job[j].at = "tmp" => tmp'[FileOf(j)] = c
BY JobFacts DEF Put, Shape

\* The first call of a save, and the second.
LEMMA OpenFacts ==
  ASSUME Shape, NEW j \in Job, OpenTmp(j)
  PROVE  /\ Saving(j)
         /\ (GoesOn(j, "write") /\ tmp'[FileOf(j)] = Damaged) \/ Fails(j)
         /\ tmp' \in [File -> Contents]
         /\ \A f \in File : tmp'[f] # tmp[f] => f = FileOf(j) /\ tmp'[f] = Damaged
         /\ UNCHANGED <<path, seed, memVars, todo, known, wiped>>
BY KindFacts, JobFacts DEF OpenTmp, Shape, Saving

LEMMA WriteFacts ==
  ASSUME Shape, TypeOK, NEW j \in Job, WriteTmp(j)
  PROVE  /\ Saving(j)
         /\ \E c \in Contents :
              /\ Put(j, c)
              /\ c \in {Missing, Damaged} \cup Value(FileOf(j))
              /\ \/ GoesOn(j, "rename")
                      /\ (job[j].at = "tmp" /\ tmp[FileOf(j)] = Damaged => c = job[j].val)
                 \/ Fails(j)
         /\ UNCHANGED <<seed, memVars, todo, known, wiped>>
<1>1. /\ job[j].step = "write"
      /\ UNCHANGED <<seed, memVars, todo, known, wiped>>
  BY DEF WriteTmp
<1>2. job[j].val \in Value(FileOf(j)) /\ FileOf(j) \in File
  BY <1>1, JobFacts DEF TypeOK
<1>3. {path[FileOf(j)], tmp[FileOf(j)]} \subseteq {Missing, Damaged} \cup Value(FileOf(j))
  BY <1>2 DEF TypeOK
<1>4. \A c \in {Missing, Damaged} \cup Value(FileOf(j)) : c \in Contents
  BY <1>2, KindFacts
<1>5. CASE GoesOn(j, "rename") /\ \E c \in Filled(j) : Put(j, c)
  <2>1. PICK c \in Filled(j) : Put(j, c)
    BY <1>5
  <2>2. c \in {Missing, Damaged} \cup Value(FileOf(j))
    BY <1>2, <2>1 DEF Filled
  <2>3. job[j].at = "tmp" /\ tmp[FileOf(j)] = Damaged => c = job[j].val
    BY <2>1 DEF Filled, Content
  <2> QED BY <1>1, <1>4, <1>5, <2>1, <2>2, <2>3 DEF Saving
<1>6. CASE Fails(j) /\ \E c \in {Content(j), Damaged} : Put(j, c)
  <2>1. PICK c \in {Content(j), Damaged} : Put(j, c)
    BY <1>6
  <2>2. c \in {Missing, Damaged} \cup Value(FileOf(j))
    BY <1>3, <2>1 DEF Content
  <2> QED BY <1>1, <1>4, <1>6, <2>1, <2>2 DEF Saving
<1> QED BY <1>5, <1>6 DEF WriteTmp

\* The functions of the state keep their domains.
LEMMA ShapeHolds ==
  ASSUME Shape, TypeOK, [Next]_vars
  PROVE  Shape'
<1> USE DEF vars, diskVars, memVars, saveHistory
<1>1. ASSUME Boot PROVE Shape'
  BY <1>1 DEF Boot, Up, Shape
<1>2. ASSUME BootWithout PROVE Shape'
  <2>1. PICK v \in Identities : Begin("boot", v)
    BY <1>2 DEF BootWithout, TypeOK
  <2> QED BY <1>2, <2>1, BeginFacts, KindFacts, JobFacts DEF BootWithout, Shape
<1>3. ASSUME BootDone PROVE Shape'
  BY <1>3, EndFacts, JobFacts DEF BootDone, Up, Shape
<1>4. ASSUME Crash PROVE Shape'
  BY <1>4, IdleFacts DEF Crash, Shape
<1>5. ASSUME NEW j \in Job, OpenTmp(j) PROVE Shape'
  BY <1>5, OpenFacts, GoFacts, FailFacts DEF Shape
<1>6. ASSUME NEW j \in Job, WriteTmp(j) PROVE Shape'
  <2>1. PICK c \in Contents : Put(j, c) /\ (GoesOn(j, "rename") \/ Fails(j))
    BY <1>6, WriteFacts
  <2> QED BY <2>1, PutFacts, GoFacts, FailFacts DEF Shape
<1>7. ASSUME NEW j \in Job, RenameTmp(j) PROVE Shape'
  <2>1. CASE Fails(j) /\ UNCHANGED <<path, tmp>>
    BY <2>1, FailFacts DEF Shape
  <2>2. CASE ~(Fails(j) /\ UNCHANGED <<path, tmp>>)
    <3>0. path' = [path EXCEPT ![FileOf(j)] = tmp[FileOf(j)]]
          /\ tmp' = [tmp EXCEPT ![FileOf(j)] = Missing]
      BY <1>7, <2>2 DEF RenameTmp
    <3>1. path' \in [File -> Contents] /\ tmp' \in [File -> Contents]
      BY <3>0, FileFacts, KindFacts, JobFacts DEF Shape
    <3> DEFINE moved(k) == IF FileOf(k) # FileOf(j) THEN job[k].at
                           ELSE IF job[k].at = "tmp" THEN "path" ELSE "gone"
               next(k) == IF k # j THEN job[k].step ELSE IF j = "boot" THEN "renamed" ELSE "idle"
               new(k) == IF next(k) = "idle" THEN Idle
                         ELSE [step |-> next(k), val |-> job[k].val,
                               at |-> IF next(k) \in {"write", "rename"} THEN moved(k)
                                      ELSE job[k].at]
    <3>2. job' \in [Job -> Save]
      <4>1. job' = [k \in Job |-> new(k)]
        BY <1>7, <2>2 DEF RenameTmp
      <4>2. \A k \in Job : new(k) \in Save
        BY IdleFacts DEF Shape, Save
      <4> HIDE DEF new
      <4> QED BY <4>1, <4>2
    <3> QED BY <3>1, <3>2 DEF Shape
  <2> QED BY <2>1, <2>2
<1>8. ASSUME NEW j \in PeerSavers, ListPeers(j) PROVE Shape'
  BY <1>8, BeginFacts, KindFacts, JobFacts DEF ListPeers, Shape, TypeOK
<1>9. ASSUME NEW j \in PeerSavers, NEW ps \in SUBSET PeerIds, ChangePeers(j, ps) PROVE Shape'
  BY <1>9, StepFacts, JobFacts DEF ChangePeers, Shape
<1>10. ASSUME OpenPage PROVE Shape'
  BY <1>10 DEF OpenPage, Shape
<1>11. ASSUME NEW s \in Settings, SavePage(s) PROVE Shape'
  <2>1. page \in [set : Settings, win : Windows]
    BY <1>11, ValueFacts DEF SavePage, TypeOK
  <2>2. page' \in [set : Settings, win : Windows]
    BY <1>11, <2>1 DEF SavePage
  <2>3. page' \in Contents
    BY <2>2, KindFacts
  <2> QED BY <1>11, <2>3, BeginFacts, JobFacts DEF SavePage, Shape
<1>12. ASSUME NEW w \in Windows, MoveWindow(w) PROVE Shape'
  <2>1. LoadOrDefault("config", DefaultConfig) \in [set : Settings, win : Windows]
    BY KindFacts, ValueFacts, JobFacts DEF LoadOrDefault, Readable, TypeOK
  <2> QED BY <1>12, <2>1, BeginFacts, KindFacts, JobFacts DEF MoveWindow, Shape
<1>13. ASSUME Reset PROVE Shape'
  BY <1>13 DEF Reset, Shape
<1>14. ASSUME NEW n \in todo, ResetStep(n) PROVE Shape'
  <2>1. path' \in [File -> Contents] /\ tmp' \in [File -> Contents]
    BY <1>14, KindFacts DEF ResetStep, Shape
  <2>2. job' \in [Job -> Save]
    BY <1>14 DEF ResetStep, Shape, Save
  <2> QED BY <2>1, <2>2 DEF Shape
<1>15. CASE UNCHANGED vars
  BY <1>15 DEF Shape
<1> QED BY <1>1, <1>2, <1>3, <1>4, <1>5, <1>6, <1>7, <1>8, <1>9, <1>10, <1>11, <1>12, <1>13,
           <1>14, <1>15 DEF Next

\* What a rename does to the saves, and to the file.
LEMMA RenameFacts ==
  ASSUME Shape, NEW j \in Job, RenameTmp(j)
  PROVE  /\ Saving(j)
         /\ \A k \in Job \ {j} :
              /\ job'[k].step = job[k].step
              /\ job[k].step # "idle" => job'[k].val = job[k].val
              /\ job[k].step # "idle" /\ FileOf(k) # FileOf(j) => job'[k].at = job[k].at
              /\ job'[k].at \in {"tmp", "path", "gone"}
         /\ \/ job'[j].step = "idle"
            \/ job'[j].step = "renamed" /\ j = "boot" /\ job'[j].val = job[j].val
                 /\ tmp[FileOf(j)] # Missing /\ path'[FileOf(j)] = tmp[FileOf(j)]
         /\ \A f \in File : /\ path'[f] # path[f] => f = FileOf(j) /\ tmp[f] # Missing
                                                     /\ path'[f] = tmp[f]
                            /\ tmp'[f] # tmp[f] => f = FileOf(j) /\ tmp'[f] = Missing
         /\ mixed' = mixed \ {j}
         /\ app' = app \/ (j = "boot" /\ app' = "off" /\ job'[j].step = "idle")
         /\ UNCHANGED <<seed, memVars, todo, known, wiped>>
<1>0. Saving(j) /\ UNCHANGED <<seed, memVars, todo, known, wiped>>
  BY DEF RenameTmp, Saving
<1>1. CASE Fails(j) /\ UNCHANGED <<path, tmp>>
  <2>1. \A k \in Job \ {j} : job'[k].at \in {"tmp", "path", "gone"}
    BY <1>1, FailFacts DEF Shape, Save
  <2> QED BY <1>0, <1>1, <2>1, FailFacts, IdleFacts
<1>2. CASE ~(Fails(j) /\ UNCHANGED <<path, tmp>>)
  <2> DEFINE moved(k) == IF FileOf(k) # FileOf(j) THEN job[k].at
                         ELSE IF job[k].at = "tmp" THEN "path" ELSE "gone"
             next(k) == IF k # j THEN job[k].step ELSE IF j = "boot" THEN "renamed" ELSE "idle"
             new(k) == IF next(k) = "idle" THEN Idle
                       ELSE [step |-> next(k), val |-> job[k].val,
                             at |-> IF next(k) \in {"write", "rename"} THEN moved(k)
                                    ELSE job[k].at]
  <2>0. job' = [k \in Job |-> new(k)]
    BY <1>2 DEF RenameTmp
  <2>1. \A k \in Job \ {j} :
           /\ job'[k].step = job[k].step
           /\ job[k].step # "idle" => job'[k].val = job[k].val
           /\ job[k].step # "idle" /\ FileOf(k) # FileOf(j) => job'[k].at = job[k].at
           /\ job'[k].at \in {"tmp", "path", "gone"}
    BY <2>0, IdleFacts DEF Shape, Save
  <2>2. \/ job'[j].step = "idle"
        \/ job'[j].step = "renamed" /\ j = "boot" /\ job'[j].val = job[j].val
    BY <2>0, IdleFacts DEF Shape, Save
  <2>3. /\ path' = [path EXCEPT ![FileOf(j)] = tmp[FileOf(j)]]
        /\ tmp' = [tmp EXCEPT ![FileOf(j)] = Missing]
        /\ tmp[FileOf(j)] # Missing
        /\ Ends(j, TRUE) /\ app' = app
    BY <1>2 DEF RenameTmp
  <2>4. /\ \A f \in File : /\ path'[f] # path[f] => f = FileOf(j) /\ path'[f] = tmp[f]
                           /\ tmp'[f] # tmp[f] => f = FileOf(j) /\ tmp'[f] = Missing
        /\ path'[FileOf(j)] = tmp[FileOf(j)]
    BY <2>3, JobFacts DEF Shape
  <2>5. mixed' = mixed \ {j}
    BY <2>3 DEF Ends
  <2> QED BY <1>0, <2>1, <2>2, <2>3, <2>4, <2>5
<1> QED BY <1>1, <1>2

\* What the history keeps of it.
LEMMA RenameExact ==
  ASSUME Shape, NEW j \in Job, RenameTmp(j)
  PROVE  /\ j \in PeerSavers /\ exact' => /\ j \notin mixed /\ tmp[FileOf(j)] # Missing
                                          /\ path'[FileOf(j)] = tmp[FileOf(j)]
         /\ j \notin PeerSavers => exact' = exact
         /\ exact' \in BOOLEAN \/ exact' = exact
<1>1. CASE Fails(j) /\ UNCHANGED <<path, tmp>>
  BY <1>1, FailExact
<1>2. CASE ~(Fails(j) /\ UNCHANGED <<path, tmp>>)
  <2>1. /\ path' = [path EXCEPT ![FileOf(j)] = tmp[FileOf(j)]]
        /\ tmp[FileOf(j)] # Missing
        /\ Ends(j, TRUE)
    BY <1>2 DEF RenameTmp
  <2>2. path'[FileOf(j)] = tmp[FileOf(j)]
    BY <2>1, JobFacts DEF Shape
  <2>3. exact' = IF j \in PeerSavers THEN j \notin mixed ELSE exact
    BY <2>1 DEF Ends
  <2> QED BY <2>1, <2>2, <2>3
<1> QED BY <1>1, <1>2

\* What the removal of a name does to the saves, and to the files.
LEMMA ResetFacts ==
  ASSUME Shape, TypeOK, NEW n \in todo, ResetStep(n)
  PROVE  /\ \A k \in Job : job'[k].step = job[k].step /\ job'[k].val = job[k].val
         /\ \A k \in Job : job'[k].at # job[k].at =>
               /\ job[k].step \in {"write", "rename"}
               /\ job'[k].at = "gone"
               /\ job[k].at = "tmp" => tmp'[FileOf(k)] = Missing
         /\ \A k \in Job : tmp'[FileOf(k)] # tmp[FileOf(k)] =>
               /\ tmp'[FileOf(k)] = Missing
               /\ job[k].step \in {"write", "rename"} => job'[k].at # "tmp"
         /\ \A f \in File : path'[f] # path[f] => path'[f] = Missing /\ n = <<"path", f>>
         /\ \A f \in File : tmp'[f] # tmp[f] => tmp'[f] = Missing
         /\ \/ known' = None
            \/ known' = known /\ path'["identity"] = path["identity"] /\ seed' = seed
         /\ seed' \in {seed, Missing} /\ todo' \subseteq todo
         /\ UNCHANGED <<app, memVars, wiped, mixed, exact>>
<1>0. /\ n = <<n[1], n[2]>> /\ n[1] \in {"path", "tmp"} /\ n[2] \in File \cup {"seed"}
      /\ "seed" \notin File
  BY DEF TypeOK, File
<1>1. CASE todo' = {} /\ UNCHANGED <<diskVars, job, known>>
  BY <1>1 DEF ResetStep, diskVars, saveHistory
<1>2. CASE ~(todo' = {} /\ UNCHANGED <<diskVars, job, known>>)
  <2>1. /\ job' = [k \in Job |-> IF FileOf(k) = n[2] /\ job[k].at = n[1]
                                   /\ job[k].step \in {"write", "rename"}
                                 THEN [job[k] EXCEPT !.at = "gone"] ELSE job[k]]
        /\ path' = IF n[1] = "path" /\ n[2] \in File THEN [path EXCEPT ![n[2]] = Missing] ELSE path
        /\ tmp' = IF n[1] = "tmp" THEN [tmp EXCEPT ![n[2]] = Missing] ELSE tmp
        /\ seed' = IF n[2] = "seed" THEN Missing ELSE seed
        /\ known' = IF n[2] \in {"identity", "seed"} THEN None ELSE known
        /\ todo' = todo \ {n}
        /\ UNCHANGED <<app, memVars, wiped, mixed, exact>>
    BY <1>2 DEF ResetStep, saveHistory
  <2>2. \A k \in Job : job'[k] = IF FileOf(k) = n[2] /\ job[k].at = n[1]
                                   /\ job[k].step \in {"write", "rename"}
                                 THEN [job[k] EXCEPT !.at = "gone"] ELSE job[k]
    BY <2>1
  <2>3. \A k \in Job : [job[k] EXCEPT !.at = "gone"].step = job[k].step
                      /\ [job[k] EXCEPT !.at = "gone"].val = job[k].val
                      /\ [job[k] EXCEPT !.at = "gone"].at = "gone"
    BY DEF Shape, Save
  <2>4. /\ \A f \in File : path'[f] = IF n[1] = "path" /\ n[2] = f THEN Missing ELSE path[f]
        /\ \A f \in File : tmp'[f] = IF n[1] = "tmp" /\ n[2] = f THEN Missing ELSE tmp[f]
    BY <1>0, <2>1 DEF Shape
  <2>5. \A k \in Job : /\ job'[k].step = job[k].step
                        /\ job'[k].val = job[k].val
                        /\ job'[k].at = IF FileOf(k) = n[2] /\ job[k].at = n[1]
                                            /\ job[k].step \in {"write", "rename"}
                                         THEN "gone" ELSE job[k].at
    BY <2>2, <2>3
  <2>6. \A f \in File : path'[f] # path[f] => path'[f] = Missing /\ n[1] = "path" /\ n[2] = f
    BY <2>4
  <2>7. \A f \in File : n[1] = "path" /\ n[2] = f => n = <<"path", f>>
    BY <1>0
  <2>8. \/ known' = None
        \/ known' = known /\ path'["identity"] = path["identity"] /\ seed' = seed
    <3>1. CASE n[2] \in {"identity", "seed"}
      BY <2>1, <3>1
    <3>2. CASE n[2] \notin {"identity", "seed"}
      BY <2>1, <2>4, <3>2, JobFacts
    <3> QED BY <3>1, <3>2
  <2>9. /\ \A k \in Job : job'[k].at # job[k].at =>
             /\ job[k].step \in {"write", "rename"}
             /\ job'[k].at = "gone"
             /\ job[k].at = "tmp" => tmp'[FileOf(k)] = Missing
        /\ \A k \in Job : tmp'[FileOf(k)] # tmp[FileOf(k)] =>
             /\ tmp'[FileOf(k)] = Missing
             /\ job[k].step \in {"write", "rename"} => job'[k].at # "tmp"
    BY <2>4, <2>5, JobFacts
  <2>10. \A f \in File : tmp'[f] # tmp[f] => tmp'[f] = Missing
    BY <2>4
  <2>11. seed' \in {seed, Missing} /\ todo' \subseteq todo
    BY <2>1
  <2>12. UNCHANGED <<app, memVars, wiped, mixed, exact>>
    BY <2>1
  <2>13. \A k \in Job : job'[k].step = job[k].step /\ job'[k].val = job[k].val
    BY <2>5
  <2>14. \A f \in File : path'[f] # path[f] => path'[f] = Missing /\ n = <<"path", f>>
    BY <2>6, <2>7
  <2> QED BY <2>8, <2>9, <2>10, <2>11, <2>12, <2>13, <2>14
<1> QED BY <1>1, <1>2

\* A save that begins has a value of its file.
LEMMA BeginTyped ==
  ASSUME Shape, TypeOK, NEW j \in Job, NEW v \in Value(FileOf(j)), Begin(j, v)
  PROVE  /\ \A k \in Job :
           /\ job'[k].step \in {"idle", "list", "open", "write", "rename", "renamed"}
           /\ job'[k].step \notin {"idle", "list"} => job'[k].val \in Value(FileOf(k))
           /\ job'[k].at \in {"tmp", "path", "gone"}
         /\ mixed' \subseteq Job /\ exact' \in BOOLEAN
<1>1. v \in Contents
  BY KindFacts, JobFacts
<1> QED BY <1>1, BeginFacts DEF TypeOK

\* Each step keeps the types of files, temporary files and saves.
LEMMA TypeHolds ==
  ASSUME Shape, TypeOK, TmpIsOwned, PhaseIsKept, [Next]_vars
  PROVE  TypeOK'
<1> DEFINE JobOK == \A j \in Job :
              /\ job[j].step \in {"idle", "list", "open", "write", "rename", "renamed"}
              /\ job[j].step \notin {"idle", "list"} => job[j].val \in Value(FileOf(j))
              /\ job[j].at \in {"tmp", "path", "gone"}
<1> DEFINE DiskOK == \A f \in File : {path[f], tmp[f]} \subseteq {Missing, Damaged} \cup Value(f)
<1> DEFINE RestOK == /\ seed \in {Missing} \cup Identities
                     /\ app \in {"off", "starting", "up"}
                     /\ ident \in Identities \cup {None}
                     /\ known \in Identities \cup {None}
                     /\ peers \subseteq PeerIds
                     /\ page = None \/ page \in Value("config")
                     /\ todo \subseteq {"path", "tmp"} \X (File \cup {"seed"})
                     /\ mixed \subseteq Job /\ exact \in BOOLEAN
<1>0. TypeOK = (JobOK /\ DiskOK /\ RestOK) /\ TypeOK' = (JobOK' /\ DiskOK' /\ RestOK')
  BY DEF TypeOK
<1>a. JobOK /\ DiskOK /\ RestOK
  BY <1>0
<1> USE DEF vars, diskVars, memVars, saveHistory
<1> SUFFICES JobOK' /\ DiskOK' /\ RestOK'
  BY <1>0
<1>b. \A j \in Job : job[j] \in Save
  BY DEF Shape
<1>c. LoadOrDefault("peers", {}) \in SUBSET PeerIds
  BY <1>a, ValueFacts, JobFacts DEF LoadOrDefault, Readable
<1>d. ASSUME NEW j \in Job, GoesOn(j, "write") \/ GoesOn(j, "rename") \/ Fails(j),
             Saving(j)
      PROVE  /\ JobOK' /\ app' \in {"off", "starting", "up"}
             /\ mixed' \subseteq Job /\ exact' \in BOOLEAN
  <2>1. CASE GoesOn(j, "write") \/ GoesOn(j, "rename")
    BY <1>a, <1>d, <2>1, GoFacts DEF Saving
  <2>2. CASE Fails(j)
    BY <1>a, <2>2, FailFacts, FailExact, IdleFacts
  <2> QED BY <1>d, <2>1, <2>2
<1>1. ASSUME Boot PROVE JobOK' /\ DiskOK' /\ RestOK'
  <2>1. path["identity"] \in Identities
    BY <1>1, <1>a, ValueFacts, JobFacts DEF Boot, Readable
  <2> QED BY <1>1, <1>a, <1>c, <2>1 DEF Boot, Up
<1>2. ASSUME BootWithout PROVE JobOK' /\ DiskOK' /\ RestOK'
  <2>1. PICK v \in Identities : Begin("boot", v)
    BY <1>2, <1>a DEF BootWithout
  <2>2. JobOK' /\ mixed' \subseteq Job /\ exact' \in BOOLEAN
    BY <1>0, <1>a, <2>1, BeginTyped, JobFacts, ValueFacts
  <2> QED BY <1>2, <1>a, <2>2 DEF BootWithout
<1>3. ASSUME BootDone PROVE JobOK' /\ DiskOK' /\ RestOK'
  <2>1. job["boot"].val \in Identities
    BY <1>3, <1>a, ValueFacts, JobFacts DEF BootDone
  <2>2. JobOK'
    BY <1>3, <1>a, EndFacts, JobFacts, IdleFacts DEF BootDone
  <2> QED BY <1>3, <1>a, <1>c, <2>1, <2>2 DEF BootDone, Up
<1>4. ASSUME Crash PROVE JobOK' /\ DiskOK' /\ RestOK'
  BY <1>4, <1>a, IdleFacts DEF Crash
<1>5. ASSUME NEW j \in Job, OpenTmp(j) PROVE JobOK' /\ DiskOK' /\ RestOK'
  <2>1. /\ Saving(j) /\ (GoesOn(j, "write") \/ Fails(j))
        /\ \A f \in File : tmp'[f] # tmp[f] => tmp'[f] = Damaged
        /\ UNCHANGED <<path, seed, memVars, todo, known, wiped>>
    BY <1>5, OpenFacts
  <2>2. JobOK' /\ app' \in {"off", "starting", "up"} /\ mixed' \subseteq Job /\ exact' \in BOOLEAN
    BY <2>1, <1>a, <1>d, JobFacts
  <2>3. DiskOK'
    BY <1>a, <2>1, JobFacts
  <2> QED BY <1>a, <2>1, <2>2, <2>3
<1>6. ASSUME NEW j \in Job, WriteTmp(j) PROVE JobOK' /\ DiskOK' /\ RestOK'
  <2>1. PICK c \in Contents : /\ Put(j, c)
                              /\ c \in {Missing, Damaged} \cup Value(FileOf(j))
                              /\ GoesOn(j, "rename") \/ Fails(j)
    BY <1>6, WriteFacts
  <2>2. Saving(j) /\ UNCHANGED <<seed, memVars, todo, known, wiped>>
    BY <1>6, WriteFacts
  <2>3. JobOK' /\ app' \in {"off", "starting", "up"} /\ mixed' \subseteq Job /\ exact' \in BOOLEAN
    BY <2>1, <2>2, <1>a, <1>d, JobFacts
  <2>4. \A f \in File : /\ path'[f] = path[f] \/ path'[f] \in {Missing, Damaged} \cup Value(f)
                        /\ tmp'[f] = tmp[f] \/ tmp'[f] \in {Missing, Damaged} \cup Value(f)
    BY <2>1, PutFacts
  <2>5. DiskOK'
    BY <1>a, <2>4
  <2> QED BY <1>a, <2>2, <2>3, <2>5
<1>7. ASSUME NEW j \in Job, RenameTmp(j)
      PROVE JobOK' /\ DiskOK' /\ RestOK'
  <2>1. JobOK'
    <3>1. \A k \in Job : job'[k] \in Save
      BY <1>7, ShapeHolds DEF Shape
    <3>2. \A k \in Job : job'[k].step \notin {"idle", "list"} => job'[k].val \in Value(FileOf(k))
      <4>1. ASSUME NEW k \in Job \ {j} PROVE
                   job'[k].step \notin {"idle", "list"} => job'[k].val \in Value(FileOf(k))
        <5>1. /\ job'[k].step = job[k].step
              /\ job[k].step # "idle" => job'[k].val = job[k].val
          BY <1>7, RenameFacts
        <5> QED BY <1>a, <5>1
      <4>2. job'[j].step \notin {"idle", "list"} => job'[j].val \in Value(FileOf(j))
        <5>1. job'[j].step = "idle" \/ job'[j].val = job[j].val
          BY <1>7, RenameFacts
        <5>2. job[j].step = "rename"
          BY <1>7 DEF RenameTmp
        <5> QED BY <1>a, <5>1, <5>2
      <4> QED BY <4>1, <4>2
    <3> QED BY <3>1, <3>2 DEF Save
  <2>2. DiskOK'
    BY <1>7, <1>a, RenameFacts
  <2>3. mixed' = mixed \ {j} /\ (exact' \in BOOLEAN \/ exact' = exact)
        /\ app' \in {app, "off"} /\ UNCHANGED <<seed, memVars, todo, known, wiped>>
    BY <1>7, RenameFacts, RenameExact
  <2> QED BY <1>a, <2>1, <2>2, <2>3
<1>8. ASSUME NEW j \in PeerSavers, ListPeers(j) PROVE JobOK' /\ DiskOK' /\ RestOK'
  <2>1. JobOK' /\ mixed' \subseteq Job /\ exact' \in BOOLEAN
    BY <1>8, <1>0, <1>a, BeginTyped, JobFacts, ValueFacts DEF ListPeers
  <2> QED BY <1>8, <1>a, <2>1 DEF ListPeers
<1>9. ASSUME NEW j \in PeerSavers, NEW ps \in SUBSET PeerIds, ChangePeers(j, ps)
      PROVE  JobOK' /\ DiskOK' /\ RestOK'
  <2>1. JobOK'
    BY <1>9, <1>a, StepFacts, JobFacts DEF ChangePeers
  <2> QED BY <1>9, <1>a, <2>1 DEF ChangePeers
<1>10. ASSUME OpenPage PROVE JobOK' /\ DiskOK' /\ RestOK'
  <2>1. page' \in Value("config")
    BY <1>10, <1>a, ValueFacts, JobFacts, KindFacts DEF OpenPage, LoadOrDefault, Readable
  <2> QED BY <1>10, <1>a, <2>1 DEF OpenPage
<1>11. ASSUME NEW s \in Settings, SavePage(s) PROVE JobOK' /\ DiskOK' /\ RestOK'
  <2>1. page \in [set : Settings, win : Windows]
    BY <1>11, <1>a, ValueFacts DEF SavePage
  <2>2. page' \in [set : Settings, win : Windows]
    BY <1>11, <2>1 DEF SavePage
  <2>3. JobOK' /\ mixed' \subseteq Job /\ exact' \in BOOLEAN
    BY <1>11, <1>a, <2>2, <1>0, BeginTyped, JobFacts, ValueFacts DEF SavePage
  <2> QED BY <1>11, <1>a, <2>2, <2>3, ValueFacts DEF SavePage
<1>12. ASSUME NEW w \in Windows, MoveWindow(w) PROVE JobOK' /\ DiskOK' /\ RestOK'
  <2>1. LoadOrDefault("config", DefaultConfig) \in [set : Settings, win : Windows]
    BY <1>a, KindFacts, ValueFacts, JobFacts DEF LoadOrDefault, Readable
  <2>2. [LoadOrDefault("config", DefaultConfig) EXCEPT !.win = w]
          \in [set : Settings, win : Windows]
    BY <2>1
  <2>3. JobOK' /\ mixed' \subseteq Job /\ exact' \in BOOLEAN
    BY <1>12, <1>a, <2>2, <1>0, BeginTyped, JobFacts, ValueFacts DEF MoveWindow
  <2> QED BY <1>12, <1>a, <2>3 DEF MoveWindow
<1>13. ASSUME Reset PROVE JobOK' /\ DiskOK' /\ RestOK'
  <2>1. Names \subseteq {"path", "tmp"} \X (File \cup {"seed"})
    BY DEF Names
  <2> QED BY <1>13, <1>a, <2>1 DEF Reset
<1>14. ASSUME NEW n \in todo, ResetStep(n) PROVE JobOK' /\ DiskOK' /\ RestOK'
  <2>1. JobOK'
    BY <1>14, <1>a, <1>0, ResetFacts
  <2>2. DiskOK'
    BY <1>14, <1>a, <1>0, ResetFacts
  <2>3. RestOK'
    BY <1>14, <1>a, <1>0, ResetFacts
  <2> QED BY <2>1, <2>2, <2>3
<1>15. CASE UNCHANGED vars
  BY <1>15, <1>a
<1> QED BY <1>1, <1>2, <1>3, <1>4, <1>5, <1>6, <1>7, <1>8, <1>9, <1>10, <1>11, <1>12, <1>13,
           <1>14, <1>15 DEF Next

\* A save that overlaps no other one of its file, and another save.
LEMMA OneSave ==
  ASSUME MixedIsKept, NEW j \in Job, NEW k \in Job, j # k, Saving(j), Saving(k), k \notin mixed
  PROVE  FileOf(j) # FileOf(k)
BY DEF MixedIsKept

\* Saves go on only in the phase that starts them: a start saves the identity, the page
\* and the windows their settings, the registrations the peers.
LEMMA PhaseHolds ==
  ASSUME Shape, TypeOK, PhaseIsKept, [Next]_vars
  PROVE  PhaseIsKept'
<1> USE DEF vars, diskVars, memVars, saveHistory
<1>d. ASSUME NEW j \in Job, Saving(j), UNCHANGED todo,
             GoesOn(j, "write") \/ GoesOn(j, "rename") \/ Fails(j)
      PROVE  PhaseIsKept'
  <2>1. CASE GoesOn(j, "write") \/ GoesOn(j, "rename")
    BY <1>d, <2>1, GoFacts, JobFacts DEF PhaseIsKept, Saving
  <2>2. CASE Fails(j)
    <3>1. CASE j = "boot"
      BY <1>d, <2>2, <3>1, FailFacts, JobFacts DEF PhaseIsKept, Saving
    <3>2. CASE j # "boot"
      BY <1>d, <2>2, <3>2, FailFacts, JobFacts DEF PhaseIsKept, Saving
    <3> QED BY <3>1, <3>2
  <2> QED BY <1>d, <2>1, <2>2
<1>1. ASSUME Boot PROVE PhaseIsKept'
  BY <1>1 DEF Boot, Up, PhaseIsKept
<1>2. ASSUME BootWithout PROVE PhaseIsKept'
  <2>1. PICK v \in Identities : Begin("boot", v)
    BY <1>2 DEF BootWithout, TypeOK
  <2> QED BY <1>2, <2>1, BeginFacts, KindFacts, JobFacts DEF BootWithout, PhaseIsKept
<1>3. ASSUME BootDone PROVE PhaseIsKept'
  BY <1>3, EndFacts, IdleFacts, JobFacts DEF BootDone, Up, PhaseIsKept
<1>4. ASSUME Crash PROVE PhaseIsKept'
  BY <1>4, IdleFacts, JobFacts DEF Crash, PhaseIsKept
<1>5. ASSUME NEW j \in Job, OpenTmp(j) PROVE PhaseIsKept'
  <2>1. Saving(j) /\ (GoesOn(j, "write") \/ Fails(j)) /\ UNCHANGED todo
    BY <1>5, OpenFacts
  <2> QED BY <2>1, <1>d
<1>6. ASSUME NEW j \in Job, WriteTmp(j) PROVE PhaseIsKept'
  <2>1. Saving(j) /\ (GoesOn(j, "rename") \/ Fails(j)) /\ UNCHANGED todo
    BY <1>6, WriteFacts
  <2> QED BY <2>1, <1>d
<1>7. ASSUME NEW j \in Job, RenameTmp(j) PROVE PhaseIsKept'
  <2>1. /\ Saving(j) /\ UNCHANGED todo
        /\ \A k \in Job \ {j} : job'[k].step = job[k].step
        /\ job'[j].step = "idle" \/ (job'[j].step = "renamed" /\ j = "boot")
        /\ app' = app \/ (j = "boot" /\ app' = "off" /\ job'[j].step = "idle")
    BY <1>7, RenameFacts
  <2> QED BY <2>1, JobFacts DEF PhaseIsKept, Saving
<1>8. ASSUME NEW j \in PeerSavers, ListPeers(j) PROVE PhaseIsKept'
  <2>1. app = "up"
    BY <1>8, JobFacts DEF ListPeers, PhaseIsKept
  <2>2. Begin(j, peers) /\ peers \in Contents
    BY <1>8, KindFacts DEF ListPeers, TypeOK
  <2> QED BY <1>8, <2>1, <2>2, BeginFacts, JobFacts DEF ListPeers, PhaseIsKept
<1>9. ASSUME NEW j \in PeerSavers, NEW ps \in SUBSET PeerIds, ChangePeers(j, ps)
      PROVE  PhaseIsKept'
  BY <1>9, StepFacts, JobFacts DEF ChangePeers, PhaseIsKept
<1>10. ASSUME OpenPage PROVE PhaseIsKept'
  BY <1>10 DEF OpenPage, PhaseIsKept
<1>11. ASSUME NEW s \in Settings, SavePage(s) PROVE PhaseIsKept'
  <2>1. page' \in Contents
    <3>1. page \in [set : Settings, win : Windows]
      BY <1>11, ValueFacts DEF SavePage, TypeOK
    <3>2. page' \in [set : Settings, win : Windows]
      BY <1>11, <3>1 DEF SavePage
    <3> QED BY <3>2, KindFacts
  <2> QED BY <1>11, <2>1, BeginFacts, JobFacts DEF SavePage, PhaseIsKept
<1>12. ASSUME NEW w \in Windows, MoveWindow(w) PROVE PhaseIsKept'
  <2>1. LoadOrDefault("config", DefaultConfig) \in [set : Settings, win : Windows]
    BY KindFacts, ValueFacts, JobFacts DEF LoadOrDefault, Readable, TypeOK
  <2> QED BY <1>12, <2>1, BeginFacts, KindFacts, JobFacts DEF MoveWindow, PhaseIsKept
<1>13. ASSUME Reset PROVE PhaseIsKept'
  BY <1>13 DEF Reset, PhaseIsKept
<1>14. ASSUME NEW n \in todo, ResetStep(n) PROVE PhaseIsKept'
  BY <1>14, ResetFacts, JobFacts DEF PhaseIsKept
<1>15. CASE UNCHANGED vars
  BY <1>15 DEF PhaseIsKept
<1> QED BY <1>1, <1>2, <1>3, <1>4, <1>5, <1>6, <1>7, <1>8, <1>9, <1>10, <1>11, <1>12, <1>13,
           <1>14, <1>15 DEF Next

\* A save that begins while another of its file is under way makes both known.
LEMMA BeginMixed ==
  ASSUME Shape, MixedIsKept, NEW j \in Job, NEW v \in Contents, Begin(j, v)
  PROVE  MixedIsKept'
<1>1. /\ \A k \in Job \ {j} : job'[k] = job[k]
      /\ mixed \subseteq mixed'
      /\ \A k \in Overlapped(j) : k \in mixed' /\ j \in mixed'
  BY BeginFacts
<1>2. \A k \in Job \ {j} : Saving(k) /\ FileOf(k) = FileOf(j) => k \in mixed' /\ j \in mixed'
  BY <1>1 DEF Overlapped
<1>3. "boot" \notin mixed'
  <2>1. \A k \in Overlapped(j) : k # "boot"
    BY JobFacts DEF Overlapped
  <2>2. j = "boot" => Overlapped(j) = {}
    BY JobFacts DEF Overlapped
  <2> QED BY <2>1, <2>2 DEF Begin, MixedIsKept
<1> QED BY <1>1, <1>2, <1>3 DEF MixedIsKept, Saving

\* A save that goes on or ends is known as before.
LEMMA GoMixed ==
  ASSUME MixedIsKept, NEW j \in Job,
         \A k \in Job \ {j} : job'[k].step = job[k].step, Saving(j)' => Saving(j),
         mixed' = mixed \/ (mixed' = mixed \ {j} /\ ~Saving(j)')
  PROVE  MixedIsKept'
BY DEF MixedIsKept, Saving

\* Whatever the steps, two saves of one file under way together are known as such.
LEMMA MixedHolds ==
  ASSUME Shape, TypeOK, PhaseIsKept, MixedIsKept, [Next]_vars
  PROVE  MixedIsKept'
<1> USE DEF vars, diskVars, memVars, saveHistory
<1>1. ASSUME Boot PROVE MixedIsKept'
  BY <1>1 DEF Boot, Up, MixedIsKept, Saving
<1>2. ASSUME BootWithout PROVE MixedIsKept'
  <2>1. PICK v \in Identities : Begin("boot", v)
    BY <1>2 DEF BootWithout, TypeOK
  <2>2. job["boot"].step = "idle"
    BY <1>2 DEF BootWithout, PhaseIsKept
  <2> QED BY <2>1, <2>2, BeginMixed, KindFacts, JobFacts
<1>3. ASSUME BootDone PROVE MixedIsKept'
  <2>1. job' = [job EXCEPT !["boot"] = Idle] /\ mixed' = mixed
    BY <1>3 DEF BootDone
  <2>2. /\ \A k \in Job \ {"boot"} : job'[k] = job[k]
        /\ job'["boot"].step = "idle"
    BY <2>1, EndFacts, IdleFacts, JobFacts
  <2> QED BY <2>1, <2>2, GoMixed, JobFacts DEF Saving
<1>4. ASSUME Crash PROVE MixedIsKept'
  BY <1>4, IdleFacts DEF Crash, MixedIsKept, Saving
<1>d. ASSUME NEW j \in Job, Saving(j), GoesOn(j, "write") \/ GoesOn(j, "rename") \/ Fails(j)
      PROVE  MixedIsKept'
  <2>1. CASE GoesOn(j, "write") \/ GoesOn(j, "rename")
    BY <1>d, <2>1, GoFacts, GoMixed
  <2>2. CASE Fails(j)
    BY <1>d, <2>2, FailFacts, GoMixed DEF Saving
  <2> QED BY <1>d, <2>1, <2>2
<1>5. ASSUME NEW j \in Job, OpenTmp(j) PROVE MixedIsKept'
  BY <1>5, <1>d, OpenFacts
<1>6. ASSUME NEW j \in Job, WriteTmp(j) PROVE MixedIsKept'
  BY <1>6, <1>d, WriteFacts
<1>7. ASSUME NEW j \in Job, RenameTmp(j) PROVE MixedIsKept'
  <2>1. /\ \A k \in Job \ {j} : job'[k].step = job[k].step
        /\ job'[j].step \in {"idle", "renamed"}
        /\ mixed' = mixed \ {j}
    BY <1>7, RenameFacts
  <2> QED BY <2>1, GoMixed DEF Saving
<1>8. ASSUME NEW j \in PeerSavers, ListPeers(j) PROVE MixedIsKept'
  <2>1. Begin(j, peers) /\ peers \in Contents /\ job[j].step = "list"
    BY <1>8, KindFacts DEF ListPeers, TypeOK
  <2> QED BY <2>1, BeginMixed, JobFacts
<1>9. ASSUME NEW j \in PeerSavers, NEW ps \in SUBSET PeerIds, ChangePeers(j, ps)
      PROVE  MixedIsKept'
  <2>1. job' = [job EXCEPT ![j].step = "list"] /\ mixed' = mixed
    BY <1>9 DEF ChangePeers
  <2>2. /\ \A k \in Job \ {j} : job'[k] = job[k]
        /\ job'[j].step = "list"
    BY <2>1, StepFacts, JobFacts
  <2> QED BY <2>1, <2>2, GoMixed, JobFacts DEF Saving
<1>10. ASSUME OpenPage PROVE MixedIsKept'
  BY <1>10 DEF OpenPage, MixedIsKept, Saving
<1>11. ASSUME NEW s \in Settings, SavePage(s) PROVE MixedIsKept'
  <2>1. page \in [set : Settings, win : Windows]
    BY <1>11, ValueFacts DEF SavePage, TypeOK
  <2>2. page' \in [set : Settings, win : Windows] /\ Begin("ui", page') /\ job["ui"].step = "idle"
    BY <1>11, <2>1 DEF SavePage
  <2> QED BY <2>2, BeginMixed, KindFacts, JobFacts
<1>12. ASSUME NEW w \in Windows, MoveWindow(w) PROVE MixedIsKept'
  <2>1. LoadOrDefault("config", DefaultConfig) \in [set : Settings, win : Windows]
    BY KindFacts, ValueFacts, JobFacts DEF LoadOrDefault, Readable, TypeOK
  <2>2. [LoadOrDefault("config", DefaultConfig) EXCEPT !.win = w]
          \in [set : Settings, win : Windows]
    BY <2>1
  <2>3. /\ Begin("window", [LoadOrDefault("config", DefaultConfig) EXCEPT !.win = w])
        /\ job["window"].step = "idle"
    BY <1>12 DEF MoveWindow
  <2> QED BY <2>2, <2>3, BeginMixed, KindFacts, JobFacts
<1>13. ASSUME Reset PROVE MixedIsKept'
  BY <1>13 DEF Reset, MixedIsKept, Saving
<1>14. ASSUME NEW n \in todo, ResetStep(n) PROVE MixedIsKept'
  BY <1>14, ResetFacts DEF MixedIsKept, Saving
<1>15. CASE UNCHANGED vars
  BY <1>15 DEF MixedIsKept, Saving
<1> QED BY <1>1, <1>2, <1>3, <1>4, <1>5, <1>6, <1>7, <1>8, <1>9, <1>10, <1>11, <1>12, <1>13,
           <1>14, <1>15 DEF Next

\* A save that begins takes its temporary file.
LEMMA BeginOwned ==
  ASSUME Shape, TmpIsOwned, NEW j \in Job, NEW v \in Contents, Begin(j, v), UNCHANGED tmp
  PROVE  TmpIsOwned'
BY BeginFacts DEF TmpIsOwned

\* A temporary file belongs to the one save that has it open.
LEMMA TmpHolds ==
  ASSUME Shape, TypeOK, MixedIsKept, PhaseIsKept, TmpIsOwned, [Next]_vars
  PROVE  TmpIsOwned'
<1> USE DEF vars, diskVars, memVars, saveHistory
<1>1. ASSUME Boot PROVE TmpIsOwned'
  BY <1>1 DEF Boot, Up, TmpIsOwned
<1>2. ASSUME BootWithout PROVE TmpIsOwned'
  <2>1. PICK v \in Identities : Begin("boot", v)
    BY <1>2 DEF BootWithout, TypeOK
  <2> QED BY <1>2, <2>1, BeginOwned, KindFacts, JobFacts DEF BootWithout
<1>3. ASSUME BootDone PROVE TmpIsOwned'
  BY <1>3, EndFacts, IdleFacts, JobFacts DEF BootDone, Up, TmpIsOwned
<1>4. ASSUME Crash PROVE TmpIsOwned'
  BY <1>4, IdleFacts DEF Crash, TmpIsOwned
<1>5. ASSUME NEW j \in Job, OpenTmp(j) PROVE TmpIsOwned'
  <2>1. \A k \in Job \ {j} : Saving(k) /\ k \notin mixed => FileOf(k) # FileOf(j)
    BY <1>5, OneSave, OpenFacts
  <2>2. \A f \in File : tmp'[f] # tmp[f] => f = FileOf(j)
    BY <1>5, OpenFacts
  <2>3. CASE GoesOn(j, "write") /\ tmp'[FileOf(j)] = Damaged
    <3>1. job[j].step = "open"
      BY <1>5 DEF OpenTmp
    <3> QED BY <2>1, <2>2, <2>3, <3>1, GoFacts, JobFacts DEF TmpIsOwned, Saving
  <2>4. CASE Fails(j)
    BY <2>1, <2>2, <2>4, FailFacts, JobFacts DEF TmpIsOwned, Saving
  <2> QED BY <1>5, <2>3, <2>4, OpenFacts
<1>6. ASSUME NEW j \in Job, WriteTmp(j) PROVE TmpIsOwned'
  <2>1. \A k \in Job \ {j} : Saving(k) /\ k \notin mixed => FileOf(k) # FileOf(j)
    BY <1>6, OneSave, WriteFacts
  <2>2. PICK c \in Contents :
          /\ Put(j, c)
          /\ \/ GoesOn(j, "rename")
                  /\ (job[j].at = "tmp" /\ tmp[FileOf(j)] = Damaged => c = job[j].val)
             \/ Fails(j)
    BY <1>6, WriteFacts
  <2>3. /\ \A f \in File : tmp'[f] # tmp[f] => f = FileOf(j) /\ job[j].at = "tmp"
        /\ job[j].at = "tmp" => tmp'[FileOf(j)] = c
    BY <2>2, PutFacts
  <2>4. CASE Fails(j)
    BY <2>1, <2>3, <2>4, FailFacts, JobFacts DEF TmpIsOwned, Saving
  <2>5. CASE ~Fails(j)
    <3>1. job[j].step = "write"
      BY <1>6 DEF WriteTmp
    <3>2. j \notin mixed => \/ job[j].at = "tmp" /\ tmp[FileOf(j)] = Damaged
                            \/ job[j].at = "gone" /\ tmp[FileOf(j)] = Missing
      BY <3>1 DEF TmpIsOwned
    <3> QED BY <2>1, <2>2, <2>3, <2>5, <3>1, <3>2, GoFacts, JobFacts DEF TmpIsOwned, Saving
  <2> QED BY <2>4, <2>5
<1>7. ASSUME NEW j \in Job, RenameTmp(j) PROVE TmpIsOwned'
  <2>1. \A k \in Job \ {j} : Saving(k) /\ k \notin mixed => FileOf(k) # FileOf(j)
    BY <1>7, OneSave, RenameFacts
  <2> QED BY <1>7, <2>1, RenameFacts, JobFacts DEF TmpIsOwned, Saving
<1>8. ASSUME NEW j \in PeerSavers, ListPeers(j) PROVE TmpIsOwned'
  <2>1. Begin(j, peers) /\ peers \in Contents
    BY <1>8, KindFacts DEF ListPeers, TypeOK
  <2> QED BY <1>8, <2>1, BeginOwned, JobFacts DEF ListPeers
<1>9. ASSUME NEW j \in PeerSavers, NEW ps \in SUBSET PeerIds, ChangePeers(j, ps)
      PROVE  TmpIsOwned'
  BY <1>9, StepFacts, JobFacts DEF ChangePeers, TmpIsOwned
<1>10. ASSUME OpenPage PROVE TmpIsOwned'
  BY <1>10 DEF OpenPage, TmpIsOwned
<1>11. ASSUME NEW s \in Settings, SavePage(s) PROVE TmpIsOwned'
  <2>1. page \in [set : Settings, win : Windows]
    BY <1>11, ValueFacts DEF SavePage, TypeOK
  <2>2. page' \in [set : Settings, win : Windows]
    BY <1>11, <2>1 DEF SavePage
  <2> QED BY <1>11, <2>2, KindFacts, BeginOwned, JobFacts DEF SavePage
<1>12. ASSUME NEW w \in Windows, MoveWindow(w) PROVE TmpIsOwned'
  <2>1. LoadOrDefault("config", DefaultConfig) \in [set : Settings, win : Windows]
    BY KindFacts, ValueFacts, JobFacts DEF LoadOrDefault, Readable, TypeOK
  <2> QED BY <1>12, <2>1, BeginOwned, KindFacts, JobFacts DEF MoveWindow
<1>13. ASSUME Reset PROVE TmpIsOwned'
  BY <1>13 DEF Reset, TmpIsOwned
<1>14. ASSUME NEW n \in todo, ResetStep(n) PROVE TmpIsOwned'
  BY <1>14, ResetFacts, JobFacts DEF TmpIsOwned
<1>15. CASE UNCHANGED vars
  BY <1>15 DEF TmpIsOwned
<1> QED BY <1>1, <1>2, <1>3, <1>4, <1>5, <1>6, <1>7, <1>8, <1>9, <1>10, <1>11, <1>12, <1>13,
           <1>14, <1>15 DEF Next

\* Each step of a start, a migration or a crash leaves the identity in one of its files.
LEMMA IdentityHolds ==
  ASSUME Shape, TypeOK, MixedIsKept, PhaseIsKept, TmpIsOwned, IdentityOnDisk, [Next]_vars
  PROVE  IdentityOnDisk'
<1> USE DEF vars, diskVars, memVars, saveHistory
<1>d. ASSUME NEW j \in Job, Saving(j), path'["identity"] = path["identity"],
             UNCHANGED <<seed, known>>, GoesOn(j, "write") \/ GoesOn(j, "rename") \/ Fails(j)
      PROVE  IdentityOnDisk'
  <2>1. CASE GoesOn(j, "write") \/ GoesOn(j, "rename")
    BY <1>d, <2>1, GoFacts, JobFacts DEF IdentityOnDisk, Saving
  <2>2. CASE Fails(j)
    BY <1>d, <2>2, FailFacts, JobFacts DEF IdentityOnDisk, Saving
  <2> QED BY <1>d, <2>1, <2>2
<1>1. ASSUME Boot PROVE IdentityOnDisk'
  BY <1>1 DEF Boot, Up, IdentityOnDisk, Saving, PhaseIsKept
<1>2. ASSUME BootWithout PROVE IdentityOnDisk'
  <2>1. CASE seed # Missing
    <3>1. Begin("boot", seed) /\ seed \in Identities
      BY <1>2, <2>1 DEF BootWithout, TypeOK
    <3> QED BY <1>2, <3>1, BeginFacts, KindFacts, JobFacts, MarkFacts
            DEF BootWithout, IdentityOnDisk, Saving, TypeOK
  <2>2. CASE seed = Missing
    <3>1. PICK v \in Identities : Begin("boot", v)
      BY <1>2, <2>2 DEF BootWithout
    <3>2. known = None
      BY <1>2, <2>2, MarkFacts DEF BootWithout, IdentityOnDisk, TypeOK
    <3> QED BY <1>2, <3>1, <3>2, BeginFacts, KindFacts, JobFacts
            DEF BootWithout, IdentityOnDisk, Saving
  <2> QED BY <2>1, <2>2
<1>3. ASSUME BootDone PROVE IdentityOnDisk'
  BY <1>3, EndFacts, IdleFacts, JobFacts DEF BootDone, Up, IdentityOnDisk, Saving
<1>4. ASSUME Crash PROVE IdentityOnDisk'
  BY <1>4, IdleFacts, JobFacts DEF Crash, IdentityOnDisk, Saving
<1>5. ASSUME NEW j \in Job, OpenTmp(j) PROVE IdentityOnDisk'
  <2>1. Saving(j) /\ (GoesOn(j, "write") \/ Fails(j)) /\ UNCHANGED <<path, seed, known>>
    BY <1>5, OpenFacts
  <2> QED BY <2>1, <1>d
<1>6. ASSUME NEW j \in Job, WriteTmp(j) PROVE IdentityOnDisk'
  <2>1. PICK c \in Contents : Put(j, c) /\ (GoesOn(j, "rename") \/ Fails(j))
    BY <1>6, WriteFacts
  <2>2. job[j].step = "write" /\ UNCHANGED <<seed, known>> /\ Saving(j)
    BY <1>6, WriteFacts DEF WriteTmp
  <2>3. path'["identity"] = path["identity"]
    <3>1. j = "boot" => job[j].at # "path"
      BY <2>2, JobFacts DEF TmpIsOwned, MixedIsKept
    <3>2. path'["identity"] # path["identity"] => "identity" = FileOf(j) /\ job[j].at = "path"
      BY <2>1, PutFacts, JobFacts
    <3> QED BY <3>1, <3>2, JobFacts
  <2> QED BY <2>1, <2>2, <2>3, <1>d
<1>7. ASSUME NEW j \in Job, RenameTmp(j) PROVE IdentityOnDisk'
  <2>1. known' = known /\ seed' = seed
    BY <1>7 DEF RenameTmp
  <2>2. CASE j = "boot"
    <3>1. tmp["identity"] # Missing => tmp["identity"] = job["boot"].val
      BY <1>7, <2>2, JobFacts DEF RenameTmp, TmpIsOwned, MixedIsKept
    <3>2. Saving("boot")
      BY <1>7, <2>2 DEF RenameTmp, Saving
    <3>3. /\ path'["identity"] # path["identity"] => path'["identity"] = job["boot"].val
          /\ job'["boot"].step = "idle" \/ /\ job'["boot"].step = "renamed"
                                            /\ job'["boot"].val = job["boot"].val
                                            /\ path'["identity"] = job["boot"].val
      BY <1>7, <2>2, <3>1, RenameFacts, JobFacts
    <3> QED BY <2>1, <3>2, <3>3 DEF IdentityOnDisk, Saving
  <2>3. CASE j # "boot"
    <3>1. path'["identity"] = path["identity"]
      BY <1>7, <2>3, RenameFacts, JobFacts
    <3> QED BY <1>7, <2>1, <2>3, <3>1, RenameFacts, JobFacts DEF IdentityOnDisk, Saving
  <2> QED BY <2>2, <2>3
<1>8. ASSUME NEW j \in PeerSavers, ListPeers(j) PROVE IdentityOnDisk'
  <2>1. Begin(j, peers) /\ peers \in Contents
    BY <1>8, KindFacts DEF ListPeers, TypeOK
  <2> QED BY <1>8, <2>1, BeginFacts, JobFacts DEF ListPeers, IdentityOnDisk, Saving
<1>9. ASSUME NEW j \in PeerSavers, NEW ps \in SUBSET PeerIds, ChangePeers(j, ps)
      PROVE  IdentityOnDisk'
  BY <1>9, StepFacts, JobFacts DEF ChangePeers, IdentityOnDisk, Saving
<1>10. ASSUME OpenPage PROVE IdentityOnDisk'
  BY <1>10 DEF OpenPage, IdentityOnDisk, Saving
<1>11. ASSUME NEW s \in Settings, SavePage(s) PROVE IdentityOnDisk'
  <2>1. page \in [set : Settings, win : Windows]
    BY <1>11, ValueFacts DEF SavePage, TypeOK
  <2>2. page' \in [set : Settings, win : Windows]
    BY <1>11, <2>1 DEF SavePage
  <2> QED BY <1>11, <2>2, KindFacts, BeginFacts, JobFacts DEF SavePage, IdentityOnDisk, Saving
<1>12. ASSUME NEW w \in Windows, MoveWindow(w) PROVE IdentityOnDisk'
  <2>1. LoadOrDefault("config", DefaultConfig) \in [set : Settings, win : Windows]
    BY KindFacts, ValueFacts, JobFacts DEF LoadOrDefault, Readable, TypeOK
  <2> QED BY <1>12, <2>1, BeginFacts, KindFacts, JobFacts DEF MoveWindow, IdentityOnDisk, Saving
<1>13. ASSUME Reset PROVE IdentityOnDisk'
  BY <1>13 DEF Reset, IdentityOnDisk, Saving
<1>14. ASSUME NEW n \in todo, ResetStep(n) PROVE IdentityOnDisk'
  BY <1>14, ResetFacts, JobFacts DEF IdentityOnDisk, Saving, PhaseIsKept
<1>15. CASE UNCHANGED vars
  BY <1>15 DEF IdentityOnDisk, Saving
<1> QED BY <1>1, <1>2, <1>3, <1>4, <1>5, <1>6, <1>7, <1>8, <1>9, <1>10, <1>11, <1>12, <1>13,
           <1>14, <1>15 DEF Next

\* Each step leaves the list of peers on the disk or in the save under way.
LEMMA PeersHold ==
  ASSUME Shape, TypeOK, MixedIsKept, PhaseIsKept, TmpIsOwned, PeersFollow, [Next]_vars
  PROVE  PeersFollow'
<1> USE DEF vars, diskVars, memVars, saveHistory
\* A save of the list ends.
<1>e. ASSUME NEW j \in PeerSavers, Saving(j), app = "up", wiped = None,
             UNCHANGED <<memVars, todo, wiped>>,
             \A k \in Job \ {j} : job'[k].step = job[k].step,
             job'[j].step = "idle", mixed' = mixed \ {j},
             exact' => j \notin mixed /\ LoadOrDefault("peers", {})' = job[j].val
      PROVE  PeersFollow'
  <2>2. \A k \in PeerSavers \ {j} : Saving(k) => k \in mixed /\ j \in mixed
    BY <1>e, JobFacts DEF MixedIsKept
  <2>1. /\ todo' = {}
        /\ \A k \in PeerSavers \ mixed' :
             job'[k].step \in {"write", "rename"} => job'[k].at = "tmp"
    BY <1>e, <2>2, JobFacts DEF PeersFollow, Saving
  <2>3. CASE \E k \in PeerSavers \ {j} : Saving(k)
    BY <1>e, <2>1, <2>2, <2>3, JobFacts DEF PeersFollow, Saving
  <2>4. CASE \A k \in PeerSavers \ {j} : ~Saving(k)
    <3>1. CASE \E k \in PeerSavers : job[k].step = "list"
      BY <1>e, <2>1, <3>1, JobFacts DEF PeersFollow, Saving
    <3>2. CASE ~\E k \in PeerSavers : job[k].step = "list"
      <4>1. j \in mixed \/ job[j].val = peers
        BY <1>e, <2>4, <3>2 DEF PeersFollow
      <4>2. \A k \in PeerSavers : ~Saving(k)'
        BY <1>e, <2>4, JobFacts DEF Saving
      <4>3. exact' => LoadOrDefault("peers", {})' = peers'
        BY <1>e, <4>1
      <4> QED BY <2>1, <4>2, <4>3 DEF PeersFollow
    <3> QED BY <3>1, <3>2
  <2> QED BY <2>3, <2>4
\* Outside the running application there is nothing to show.
<1>f. ASSUME ~(app = "up" /\ wiped = None), app' = app \/ app' = "off", wiped' = wiped
      PROVE  PeersFollow'
  BY <1>f DEF PeersFollow
<1>1. ASSUME Boot PROVE PeersFollow'
  BY <1>1, JobFacts DEF Boot, Up, PeersFollow, PhaseIsKept, Saving, LoadOrDefault, Readable
<1>2. ASSUME BootWithout PROVE PeersFollow'
  BY <1>2 DEF BootWithout, PeersFollow
<1>3. ASSUME BootDone PROVE PeersFollow'
  <2>1. app # "up" /\ \A j \in PeerSavers : job'[j].step = "idle"
    BY <1>3, EndFacts, IdleFacts, JobFacts DEF BootDone, PhaseIsKept
  <2> QED BY <1>3, <2>1 DEF BootDone, Up, PeersFollow, PhaseIsKept, Saving, LoadOrDefault, Readable
<1>4. ASSUME Crash PROVE PeersFollow'
  BY <1>4 DEF Crash, PeersFollow
<1>d. ASSUME NEW j \in Job, Saving(j), app = "up", wiped = None,
             UNCHANGED <<memVars, todo, wiped>>,
             j \in PeerSavers /\ j \notin mixed => path'["peers"] = path["peers"],
             j \notin PeerSavers => path'["peers"] = path["peers"],
             job[j].step = "open" => job[j].at = "tmp" \/ j \in mixed,
             GoesOn(j, "write") \/ GoesOn(j, "rename") \/ Fails(j)
      PROVE  PeersFollow'
  <2>1. CASE GoesOn(j, "write") \/ GoesOn(j, "rename")
    <3>1. /\ \A k \in Job \ {j} : job'[k] = job[k]
          /\ Saving(j)' /\ job'[j].val = job[j].val /\ job'[j].at = job[j].at
          /\ job[j].step # "list" /\ UNCHANGED <<app, mixed, exact>>
      BY <1>d, <2>1, GoFacts DEF Saving
    <3>2. /\ todo' = {}
          /\ \A k \in PeerSavers \ mixed' :
               job'[k].step \in {"write", "rename"} => job'[k].at = "tmp"
      BY <1>d, <3>1, JobFacts DEF PeersFollow, Saving
    <3>3. (\A k \in PeerSavers : ~Saving(k))' =>
             /\ j \notin PeerSavers
             /\ LoadOrDefault("peers", {})' = LoadOrDefault("peers", {})
      BY <1>d, <3>1 DEF LoadOrDefault, Readable
    <3>4. \/ \E k \in PeerSavers : job'[k].step = "list"
          \/ \E k \in PeerSavers : Saving(k)' /\ k \in mixed'
          \/ \E k \in PeerSavers : Saving(k)' /\ k \notin mixed' /\ job'[k].val = peers'
          \/ /\ \A k \in PeerSavers : ~Saving(k)'
             /\ exact' => LoadOrDefault("peers", {})' = peers'
      <4>1. CASE \E k \in PeerSavers : job[k].step = "list"
        BY <3>1, <4>1, JobFacts
      <4>2. CASE \E k \in PeerSavers : Saving(k) /\ k \in mixed
        BY <3>1, <4>2, JobFacts DEF Saving
      <4>3. CASE \E k \in PeerSavers : Saving(k) /\ k \notin mixed /\ job[k].val = peers
        BY <1>d, <3>1, <4>3, JobFacts DEF Saving
      <4>4. CASE /\ \A k \in PeerSavers : ~Saving(k)
                 /\ exact => LoadOrDefault("peers", {}) = peers
        <5>1. j \notin PeerSavers
          BY <1>d, <4>4
        <5>2. \A k \in PeerSavers : ~Saving(k)'
          BY <3>1, <4>4, <5>1, JobFacts DEF Saving
        <5>3. LoadOrDefault("peers", {})' = LoadOrDefault("peers", {})
          BY <1>d, <5>1 DEF LoadOrDefault, Readable
        <5> QED BY <1>d, <3>1, <4>4, <5>2, <5>3
      <4> QED BY <1>d, <4>1, <4>2, <4>3, <4>4 DEF PeersFollow
    <3> QED BY <3>2, <3>4 DEF PeersFollow
  <2>2. CASE Fails(j)
    <3>1. /\ \A k \in Job \ {j} : job'[k] = job[k]
          /\ job'[j].step = "idle" /\ mixed' = mixed \ {j}
          /\ app' = app \/ app' = "off"
      BY <2>2, FailFacts
    <3>2. exact' = IF j \in PeerSavers THEN FALSE ELSE exact
      BY <2>2, FailExact
    <3>3. CASE j \in PeerSavers
      BY <1>d, <1>e, <3>1, <3>2, <3>3
    <3>4. CASE j \notin PeerSavers
      <4>1. LoadOrDefault("peers", {})' = LoadOrDefault("peers", {})
        BY <1>d, <3>4 DEF LoadOrDefault, Readable
      <4>2. /\ \A k \in PeerSavers : k \in Job /\ job'[k] = job[k] /\ (k \in mixed' <=> k \in mixed)
            /\ exact' = exact
        BY <3>1, <3>2, <3>4, JobFacts
      <4> QED BY <1>d, <4>1, <4>2 DEF PeersFollow, Saving
    <3> QED BY <3>3, <3>4
  <2> QED BY <1>d, <2>1, <2>2
<1>5. ASSUME NEW j \in Job, OpenTmp(j) PROVE PeersFollow'
  <2> SUFFICES ASSUME app = "up", wiped = None PROVE PeersFollow'
    BY <1>5, <1>f, OpenFacts, GoFacts, FailFacts
  <2>1. job[j].step = "open" => job[j].at = "tmp" \/ j \in mixed
    BY DEF TmpIsOwned
  <2> QED BY <1>5, <1>d, <2>1, OpenFacts
<1>6. ASSUME NEW j \in Job, WriteTmp(j) PROVE PeersFollow'
  <2> SUFFICES ASSUME app = "up", wiped = None PROVE PeersFollow'
    BY <1>6, <1>f, WriteFacts, GoFacts, FailFacts
  <2>1. PICK c \in Contents : Put(j, c) /\ (GoesOn(j, "rename") \/ Fails(j))
    BY <1>6, WriteFacts
  <2>2. job[j].step = "write" /\ UNCHANGED <<memVars, todo, wiped>> /\ Saving(j)
    BY <1>6, WriteFacts DEF WriteTmp
  <2>3. path'["peers"] # path["peers"] => j \in PeerSavers /\ job[j].at = "path"
    BY <2>1, PutFacts, JobFacts
  <2>4. j \notin mixed => job[j].at # "path"
    BY <2>2 DEF TmpIsOwned
  <2> QED BY <1>d, <2>1, <2>2, <2>3, <2>4
<1>7. ASSUME NEW j \in Job, RenameTmp(j) PROVE PeersFollow'
  <2> SUFFICES ASSUME app = "up", wiped = None PROVE PeersFollow'
    BY <1>7, <1>f, RenameFacts
  <2>1. CASE j \in PeerSavers
    <3>1. exact' => LoadOrDefault("peers", {})' = job[j].val
      <4>1. SUFFICES ASSUME exact' PROVE LoadOrDefault("peers", {})' = job[j].val
        OBVIOUS
      <4>2. j \notin mixed /\ tmp["peers"] # Missing /\ path'["peers"] = tmp["peers"]
        BY <1>7, <2>1, <4>1, RenameExact, JobFacts
      <4>3. job[j].step = "rename"
        BY <1>7 DEF RenameTmp
      <4>4. tmp["peers"] = job[j].val
        BY <2>1, <4>2, <4>3, JobFacts DEF TmpIsOwned
      <4>5. job[j].val \in SUBSET PeerIds
        BY <2>1, <4>3, JobFacts, ValueFacts DEF TypeOK
      <4> QED BY <4>2, <4>4, <4>5, MarkFacts DEF LoadOrDefault, Readable
    <3>2. j # "boot" /\ j \in Job
      BY <2>1, JobFacts
    <3>3. /\ \A k \in Job \ {j} : job'[k].step = job[k].step
          /\ job'[j].step = "idle" /\ mixed' = mixed \ {j}
          /\ Saving(j) /\ UNCHANGED <<memVars, todo, wiped>>
      BY <1>7, <2>1, <3>2, RenameFacts
    <3>4. exact' => j \notin mixed
      BY <1>7, <2>1, RenameExact
    <3> QED BY <1>7, <2>1, <3>1, <3>2, <3>3, <3>4, <1>e, RenameFacts
  <2>2. CASE j \notin PeerSavers
    <3>1. path'["peers"] = path["peers"]
      BY <1>7, <2>2, RenameFacts, JobFacts
    <3>2. LoadOrDefault("peers", {})' = LoadOrDefault("peers", {})
      BY <3>1 DEF LoadOrDefault, Readable
    <3>3. \A k \in PeerSavers :
             /\ job'[k].step = job[k].step
             /\ job[k].step # "idle" => job'[k].val = job[k].val /\ job'[k].at = job[k].at
      BY <1>7, <2>2, RenameFacts, JobFacts
    <3>4. UNCHANGED <<wiped, todo, peers>> /\ exact' = exact /\ mixed' = mixed \ {j}
      BY <1>7, <2>2, RenameFacts, RenameExact
    <3> QED BY <2>2, <3>2, <3>3, <3>4 DEF PeersFollow, Saving
  <2> QED BY <2>1, <2>2
<1>8. ASSUME NEW j \in PeerSavers, ListPeers(j) PROVE PeersFollow'
  <2>1. Begin(j, peers) /\ peers \in Contents /\ UNCHANGED <<path, app, peers, todo, wiped>>
    BY <1>8, KindFacts DEF ListPeers, TypeOK
  <2>2. /\ \A k \in Job \ {j} : job'[k] = job[k]
        /\ job'[j].step = "open" /\ job'[j].val = peers
        /\ mixed \subseteq mixed' /\ Saving(j)'
    BY <2>1, BeginFacts, JobFacts DEF Saving
  <2>3. \/ \E k \in PeerSavers : Saving(k)' /\ k \in mixed'
        \/ \E k \in PeerSavers : Saving(k)' /\ k \notin mixed' /\ job'[k].val = peers'
    BY <2>1, <2>2
  <2> QED BY <2>1, <2>2, <2>3, JobFacts DEF PeersFollow
<1>9. ASSUME NEW j \in PeerSavers, NEW ps \in SUBSET PeerIds, ChangePeers(j, ps)
      PROVE  PeersFollow'
  <2>1. /\ \A k \in Job \ {j} : job'[k] = job[k]
        /\ job'[j].step = "list" /\ UNCHANGED <<app, todo, wiped, mixed>>
    BY <1>9, StepFacts, JobFacts DEF ChangePeers
  <2> QED BY <2>1, JobFacts DEF PeersFollow
<1>10. ASSUME OpenPage PROVE PeersFollow'
  BY <1>10 DEF OpenPage, PeersFollow, Saving, LoadOrDefault, Readable
<1>11. ASSUME NEW s \in Settings, SavePage(s) PROVE PeersFollow'
  <2>1. page \in [set : Settings, win : Windows]
    BY <1>11, ValueFacts DEF SavePage, TypeOK
  <2>2. page' \in [set : Settings, win : Windows]
    BY <1>11, <2>1 DEF SavePage
  <2> QED BY <1>11, <2>2, KindFacts, BeginFacts, JobFacts
          DEF SavePage, PeersFollow, Saving, LoadOrDefault, Readable
<1>12. ASSUME NEW w \in Windows, MoveWindow(w) PROVE PeersFollow'
  <2>1. LoadOrDefault("config", DefaultConfig) \in [set : Settings, win : Windows]
    BY KindFacts, ValueFacts, JobFacts DEF LoadOrDefault, Readable, TypeOK
  <2>2. UNCHANGED <<path, app, peers, todo, wiped>>
    BY <1>12 DEF MoveWindow
  <2>3. \A k \in PeerSavers : job'[k] = job[k]
    BY <1>12, <2>1, BeginFacts, KindFacts, JobFacts DEF MoveWindow
  <2>4. exact' = exact /\ mixed \subseteq mixed'
    BY <1>12, <2>1, BeginFacts, KindFacts, JobFacts DEF MoveWindow
  <2>5. \A k \in PeerSavers : k \in mixed' <=> k \in mixed
    <3>1. \A k \in PeerSavers : k # "window" /\ k \notin Overlapped("window")
      BY JobFacts DEF Overlapped, FileOf
    <3> QED BY <1>12, <3>1 DEF MoveWindow, Begin
  <2> QED BY <2>2, <2>3, <2>4, <2>5 DEF PeersFollow, Saving, LoadOrDefault, Readable
<1>13. ASSUME Reset PROVE PeersFollow'
  <2>1. wiped' # None
    BY <1>13, MarkFacts DEF Reset, TypeOK
  <2> QED BY <2>1 DEF PeersFollow
<1>14. ASSUME NEW n \in todo, ResetStep(n) PROVE PeersFollow'
  BY <1>14, ResetFacts DEF PeersFollow
<1>15. CASE UNCHANGED vars
  BY <1>15 DEF PeersFollow, Saving, LoadOrDefault, Readable
<1> QED BY <1>1, <1>2, <1>3, <1>4, <1>5, <1>6, <1>7, <1>8, <1>9, <1>10, <1>11, <1>12, <1>13,
           <1>14, <1>15 DEF Next

\* The files of a first start satisfy the invariant.
LEMMA InitHolds == Init => IInv
<1> SUFFICES ASSUME Init PROVE IInv
  OBVIOUS
<1>1. \A f \in File : path[f] = Missing /\ tmp[f] = Missing
  BY DEF Init
<1>2. \A j \in Job : job[j] = Idle
  BY DEF Init
<1>3. Shape
  BY IdleFacts, KindFacts DEF Init, Shape
<1>4. Earlier = IF seed # Missing THEN seed ELSE None
  BY <1>1, JobFacts DEF Earlier, Readable
<1>5. TypeOK
  BY <1>1, <1>2, <1>4, IdleFacts DEF Init, TypeOK
<1>6. MixedIsKept /\ TmpIsOwned /\ PhaseIsKept
  BY <1>2, IdleFacts, JobFacts DEF Init, MixedIsKept, Saving, TmpIsOwned, PhaseIsKept
<1>7. IdentityOnDisk /\ PeersFollow
  BY <1>1, <1>2, <1>4, IdleFacts, JobFacts DEF Init, IdentityOnDisk, Saving, PeersFollow
<1> QED BY <1>3, <1>5, <1>6, <1>7 DEF IInv

\* Each step keeps the invariant.
LEMMA StepHolds == IInv /\ [Next]_vars => IInv'
BY ShapeHolds, TypeHolds, MixedHolds, TmpHolds, PhaseHolds, IdentityHolds, PeersHold DEF IInv

\* Type correctness, and the strengthening the other theorems rest on.
THEOREM IInvHolds == Spec => []IInv
BY InitHolds, StepHolds, PTL DEF Spec

\* peers.json is the list in memory whenever no save is under way, whatever number of
\* tasks save it and in any order, unless the last save failed or overlapped another: an
\* earlier save that went wrong is made good.
THEOREM PeersAreSavedHolds == Spec => []PeersAreSaved
<1>1. IInv => PeersAreSaved
  BY DEF IInv, PeersFollow, PeersAreSaved, Saving
<1> QED BY <1>1, IInvHolds, PTL

\* A file is only replaced by a complete value, or removed by reset_all, unless saves of
\* it overlap: what write_atomic and write_json_atomic are there for.
THEOREM OldOrNewHolds == Spec => OldOrNew
<1> DEFINE Kept == \A f \in File :
       path'[f] # path[f] => Replaced(f) \/ \E j \in mixed : FileOf(j) = f
<1> USE DEF vars, diskVars, memVars, saveHistory
<1>1. IInv /\ [Next]_vars => [Kept]_vars
  <2> SUFFICES ASSUME IInv, Next, NEW f \in File, path'[f] # path[f],
                      ~\E j \in mixed : FileOf(j) = f
               PROVE  Replaced(f)
    OBVIOUS
  <2>1. ASSUME NEW j \in Job, RenameTmp(j)
        PROVE  FileOf(j) = f /\ job[j].step = "rename" /\ path'[f] = job[j].val
    <3>1. FileOf(j) = f /\ tmp[f] # Missing /\ path'[f] = tmp[f]
      BY <2>1, RenameFacts DEF IInv
    <3>2. job[j].step = "rename" /\ j \notin mixed
      BY <2>1, <3>1 DEF RenameTmp
    <3> QED BY <3>1, <3>2 DEF IInv, TmpIsOwned
  <2>2. ASSUME NEW j \in Job, WriteTmp(j) PROVE FALSE
    <3>1. PICK c \in Contents : Put(j, c)
      BY <2>2, WriteFacts DEF IInv
    <3>2. f = FileOf(j) /\ job[j].at = "path"
      BY <3>1, PutFacts DEF IInv
    <3>3. job[j].step = "write" /\ j \notin mixed
      BY <2>2, <3>2 DEF WriteTmp
    <3> QED BY <3>2, <3>3 DEF IInv, TmpIsOwned
  <2>3. ASSUME NEW n \in todo, ResetStep(n) PROVE path'[f] = Missing /\ <<"path", f>> \in todo
    BY <2>3, ResetFacts DEF IInv
  <2> QED BY <2>1, <2>2, <2>3 DEF Replaced, Next, Boot, BootWithout, BootDone, Up, Crash, OpenTmp,
             ListPeers, ChangePeers, OpenPage, SavePage, MoveWindow, Reset
<1>2. Spec => [][Kept]_vars
  BY <1>1, IInvHolds, PTL DEF Spec
<1> QED BY <1>2 DEF OldOrNew

\* Every start uses the identity of the last one, wherever the migration of the older
\* file was interrupted (load_or_create_identity).
THEOREM IdentityIsKeptHolds == Spec => IdentityIsKept
<1> USE DEF vars, diskVars, memVars, saveHistory
<1> DEFINE Same == app # "up" /\ app' = "up" /\ known # None => ident' = known
<1>1. IInv /\ [Next]_vars => [Same]_vars
  <2> SUFFICES ASSUME IInv, Next, app # "up", app' = "up", known # None PROVE ident' = known
    OBVIOUS
  <2>1. ASSUME Boot PROVE ident' = known
    BY <2>1 DEF Boot, Up, Readable, IInv, IdentityOnDisk
  <2>2. ASSUME BootDone PROVE ident' = known
    BY <2>2, MarkFacts, ValueFacts, JobFacts DEF BootDone, Up, IInv, IdentityOnDisk, TypeOK
  <2> QED BY <2>1, <2>2 DEF Next, BootWithout, Crash, OpenTmp, WriteTmp, RenameTmp, GoesOn, Fails, ListPeers,
             ChangePeers, OpenPage, SavePage, MoveWindow, Reset, ResetStep
<1>2. Spec => [][Same]_vars
  BY <1>1, IInvHolds, PTL DEF Spec
<1> QED BY <1>2 DEF IdentityIsKept
=============================================================================
