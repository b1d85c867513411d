---------------------------- MODULE ConfigStore ----------------------------
(***************************************************************************)
(* The files of okvm-config and who writes them: the identity, made or     *)
(* migrated when the application starts, peers.json, saved after every     *)
(* change of the list of peers, config.json, saved by the settings page    *)
(* and whenever the window moves, and the command that removes them all.   *)
(* A save fills a temporary file, always the same one for a file, and      *)
(* renames it; any of its calls may fail, which the callers only log, two  *)
(* saves of one file may overlap, and the process may be killed between    *)
(* any two calls of the operating system.                                  *)
(*                                                                         *)
(* A file holds a complete value, or it is Damaged: created and not yet    *)
(* written, or written by two saves at once.  Reading Damaged fails, which *)
(* the callers of load_peers and load_app_config take for an empty list    *)
(* and the default configuration.                                          *)
(***************************************************************************)
EXTENDS Naturals, FiniteSets, TLC

CONSTANTS PeerIds,
          PeerSavers,    \* tasks that may save peers.json at once
          Settings,      \* what the settings page edits in AppConfig
          Windows,       \* WindowState
          Identities,    \* seeds the random generator may give
          MaxJobs,       \* bound of a run: saves and resets under way at once
          MaxTmp,        \* bound of a run: temporary files on the disk
          Missing, Damaged, None

ASSUME MarkAssumption ==
  /\ Missing # Damaged
  /\ \A c \in Identities \cup (SUBSET PeerIds) \cup [set : Settings, win : Windows] :
        c \notin {Missing, Damaged, None}
ASSUME DefaultAssumption == Settings # {} /\ Windows # {}
ASSUME SaverAssumption == PeerSavers \cap {"ui", "window", "boot"} = {}

File == {"identity", "peers", "config"}
Job == PeerSavers \cup {"ui", "window", "boot"}
FileOf(j) == CASE j = "boot" -> "identity"
               [] j \in {"ui", "window"} -> "config"
               [] OTHER -> "peers"

VARIABLES path,   \* file -> what is on the disk under its name
          tmp,    \* file -> what is on the disk under its temporary name
          seed,   \* identity.seed of an older version, or Missing
          job,    \* job -> [step, val, at]: a save under way and where its open file is
          app,    \* "off", "starting" or "up"
          ident,  \* AppState::identity, or None
          peers,  \* the paired peers in memory
          page,   \* the configuration the settings page was given, or None
          todo,   \* names reset_all still removes
          known,  \* history: the identity of the last start since a reset, or None
          wiped,  \* history: the peers in memory when reset_all was called, or None
          mixed,  \* history: the saves that overlap another one of their file
          exact   \* history: the last save of peers.json to end was alone and succeeded

diskVars == <<path, tmp, seed>>
memVars == <<ident, peers, page>>
saveHistory == <<mixed, exact>>
vars == <<diskVars, job, app, memVars, todo, known, wiped, saveHistory>>

Idle == [step |-> "idle", val |-> None, at |-> "tmp"]
Saving(j) == job[j].step \in {"open", "write", "rename"}
Readable(c) == c \notin {Missing, Damaged}
NoSettings == CHOOSE s \in Settings : TRUE
NoWindow == CHOOSE w \in Windows : TRUE
DefaultConfig == [set |-> NoSettings, win |-> NoWindow]

\* load_json_or_default, and what the callers make of its error.
LoadOrDefault(f, default) == IF Readable(path[f]) THEN path[f] ELSE default

\* The identity an earlier start has used, if any.
Earlier == IF Readable(path["identity"]) THEN path["identity"]
           ELSE IF seed # Missing THEN seed ELSE None

Init ==
  /\ path = [f \in File |-> Missing]
  /\ tmp = [f \in File |-> Missing]
  /\ seed \in Identities \cup {Missing}
  /\ job = [j \in Job |-> Idle]
  /\ app = "off"
  /\ ident = None /\ peers = {} /\ page = None
  /\ todo = {}
  /\ known = Earlier
  /\ wiped = None
  /\ mixed = {} /\ exact = TRUE

-----------------------------------------------------------------------------
(* A save: write_atomic and write_json_atomic.                             *)

\* The saves the one of j would overlap.
Overlapped(j) == {k \in Job \ {j} : Saving(k) /\ FileOf(k) = FileOf(j)}

Begin(j, v) ==
  /\ job' = [job EXCEPT ![j] = [step |-> "open", val |-> v, at |-> "tmp"]]
  /\ mixed' = mixed \cup (IF Overlapped(j) = {} THEN {} ELSE Overlapped(j) \cup {j})
  /\ UNCHANGED exact

\* A save ends, with what the history keeps of it.
Ends(j, ok) ==
  /\ mixed' = mixed \ {j}
  /\ exact' = IF j \in PeerSavers THEN ok /\ j \notin mixed ELSE exact

\* A call of the save fails: the callers of save_peers and save_app_config log it, a
\* start without a file for its identity ends the process.
Fails(j) ==
  /\ job' = [job EXCEPT ![j] = Idle]
  /\ app' = IF j = "boot" THEN "off" ELSE app
  /\ Ends(j, FALSE)

GoesOn(j, step) ==
  /\ job' = [job EXCEPT ![j].step = step]
  /\ UNCHANGED <<app, saveHistory>>

\* Mutant: the file is written in place.
OpenInPlace(j) ==
  /\ job[j].step = "open"
  /\ path' = [path EXCEPT ![FileOf(j)] = Damaged]
  /\ job' = [job EXCEPT ![j].step = "write", ![j].at = "path"]
  /\ UNCHANGED <<tmp, seed, app, memVars, todo, known, wiped, saveHistory>>

\* The temporary file is created or emptied, or it cannot be.
OpenTmp(j) ==
  /\ job[j].step = "open"
  /\ \/ tmp' = [tmp EXCEPT ![FileOf(j)] = Damaged] /\ GoesOn(j, "write")
     \/ Fails(j) /\ UNCHANGED tmp
  /\ UNCHANGED <<path, seed, memVars, todo, known, wiped>>

\* The file the job has open, and what a write of c leaves in it.
Content(j) == IF job[j].at = "tmp" THEN tmp[FileOf(j)] ELSE path[FileOf(j)]
Put(j, c) ==
  /\ tmp' = IF job[j].at = "tmp" THEN [tmp EXCEPT ![FileOf(j)] = c] ELSE tmp
  /\ path' = IF job[j].at = "path" THEN [path EXCEPT ![FileOf(j)] = c] ELSE path

\* Over what another save has left in the file, a write may give a mixture.
Filled(j) == IF Content(j) = Damaged THEN {job[j].val} ELSE {job[j].val, Damaged}

\* The value is written, or the disk takes a part of it only.
WriteTmp(j) ==
  /\ job[j].step = "write"
  /\ \/ GoesOn(j, "rename") /\ \E c \in Filled(j) : Put(j, c)
     \/ Fails(j) /\ \E c \in {Content(j), Damaged} : Put(j, c)
  /\ UNCHANGED <<seed, memVars, todo, known, wiped>>

\* Whoever has the temporary file open has the file itself open afterwards; a save
\* whose temporary file is gone fails, and one that has it may fail.  The job of the
\* identity ends with BootDone.
RenameTmp(j) ==
  LET f == FileOf(j)
      moved(k) == IF FileOf(k) # f THEN job[k].at
                  ELSE IF job[k].at = "tmp" THEN "path" ELSE "gone"
      next(k) == IF k # j THEN job[k].step ELSE IF j = "boot" THEN "renamed" ELSE "idle"
  IN  /\ job[j].step = "rename"
      /\ \/ Fails(j) /\ UNCHANGED <<path, tmp>>
         \/ /\ tmp[f] # Missing
            /\ path' = [path EXCEPT ![f] = tmp[f]]
            /\ tmp' = [tmp EXCEPT ![f] = Missing]
            /\ job' = [k \in Job |->
                         IF next(k) = "idle" THEN Idle
                         ELSE [step |-> next(k), val |-> job[k].val,
                               at |-> IF next(k) \in {"write", "rename"} THEN moved(k)
                                      ELSE job[k].at]]
            /\ Ends(j, TRUE)
            /\ UNCHANGED app
      /\ UNCHANGED <<seed, memVars, todo, known, wiped>>

-----------------------------------------------------------------------------
(* The start: load_or_create_identity and AppState::initialize.            *)

\* The application is up with an identity and the peers on the disk.
Up(id) ==
  /\ app' = "up"
  /\ ident' = id
  /\ peers' = LoadOrDefault("peers", {})
  /\ known' = id
  /\ wiped' = None
  /\ exact' = TRUE

\* There is an identity: it is used.  One that cannot be read keeps the application
\* from starting.
Boot ==
  /\ app = "off"
  /\ Readable(path["identity"])
  /\ Up(path["identity"])
  /\ UNCHANGED <<diskVars, job, page, todo, mixed>>

\* Mutant: an identity that is not in the new format is made anew.
BootIgnoresSeed ==
  /\ app = "off"
  /\ path["identity"] = Missing
  /\ \E id \in Identities : Begin("boot", id)
  /\ app' = "starting"
  /\ UNCHANGED <<diskVars, memVars, todo, known, wiped>>

\* There is none: the one of the older version is migrated, or a new one is made.
BootWithout ==
  /\ app = "off"
  /\ path["identity"] = Missing
  /\ IF seed # Missing THEN Begin("boot", seed)
     ELSE \E id \in Identities : Begin("boot", id)
  /\ app' = "starting"
  /\ UNCHANGED <<diskVars, memVars, todo, known, wiped>>

\* Its file is in place; the one of the older version is removed, if that works.
BootDone ==
  /\ job["boot"].step = "renamed"
  /\ Up(job["boot"].val)
  /\ job' = [job EXCEPT !["boot"] = Idle]
  /\ seed' \in {seed, Missing}
  /\ UNCHANGED <<path, tmp, page, todo, mixed>>

\* The process ends or is killed.
Crash ==
  /\ app # "off"
  /\ app' = "off"
  /\ job' = [j \in Job |-> Idle]
  /\ ident' = None /\ peers' = {} /\ page' = None
  /\ todo' = {}
  /\ mixed' = {}
  /\ UNCHANGED <<diskVars, known, wiped, exact>>

-----------------------------------------------------------------------------
(* The running application.                                                *)

\* Mutant: the list is taken before the change.
ChangePeersLate(j, ps) ==
  /\ app = "up"
  /\ job[j].step = "idle"
  /\ peers' = ps
  /\ Begin(j, peers)
  /\ UNCHANGED <<diskVars, app, ident, page, todo, known, wiped>>

\* A peer is paired, or unpaired; the task that does it saves the list afterwards.
ChangePeers(j, ps) ==
  /\ app = "up"
  /\ job[j].step = "idle"
  /\ peers' = ps
  /\ job' = [job EXCEPT ![j].step = "list"]
  /\ UNCHANGED <<diskVars, app, ident, page, todo, known, wiped, saveHistory>>

\* save_peers and persist_peers_from_ctx: the list under the lock.
ListPeers(j) ==
  /\ job[j].step = "list"
  /\ Begin(j, peers)
  /\ UNCHANGED <<diskVars, app, memVars, todo, known, wiped>>

\* get_app_config: an error leaves the page without a configuration.
OpenPage ==
  /\ app = "up"
  /\ path["config"] # Damaged
  /\ page' = LoadOrDefault("config", DefaultConfig)
  /\ UNCHANGED <<diskVars, job, app, ident, peers, todo, known, wiped, saveHistory>>

\* set_app_config: all the fields of the page, the window it does not show included.
SavePage(s) ==
  /\ app = "up"
  /\ page # None
  /\ job["ui"].step = "idle"
  /\ page' = [page EXCEPT !.set = s]
  /\ Begin("ui", page')
  /\ UNCHANGED <<diskVars, app, ident, peers, todo, known, wiped>>

\* persist_window_state: config.json is read, changed and saved.
MoveWindow(w) ==
  LET c == LoadOrDefault("config", DefaultConfig)
  IN  /\ app = "up"
      /\ job["window"].step = "idle"
      /\ c.win # w
      /\ Begin("window", [c EXCEPT !.win = w])
      /\ UNCHANGED <<diskVars, app, memVars, todo, known, wiped>>

\* reset_all_settings: the names in the directory, removed one after the other.
Names == {<<"path", f>> : f \in {g \in File : path[g] # Missing}}
         \cup {<<"tmp", f>> : f \in {g \in File : tmp[g] # Missing}}
         \cup (IF seed # Missing THEN {<<"path", "seed">>} ELSE {})

Reset ==
  /\ app = "up"
  /\ todo = {}
  /\ todo' = Names
  /\ wiped' = peers
  /\ UNCHANGED <<diskVars, job, app, memVars, known, saveHistory>>

\* A name is removed; an error ends reset_all.  A save that has the file open goes on
\* writing to what no longer has a name.
ResetStep(n) ==
  LET f == n[2]
      drop(at) == [j \in Job |-> IF FileOf(j) = f /\ job[j].at = at
                                   /\ job[j].step \in {"write", "rename"}
                                 THEN [job[j] EXCEPT !.at = "gone"] ELSE job[j]]
  IN  /\ n \in todo
      /\ \/ /\ todo' = todo \ {n}
            /\ path' = IF n[1] = "path" /\ f \in File THEN [path EXCEPT ![f] = Missing] ELSE path
            /\ tmp' = IF n[1] = "tmp" THEN [tmp EXCEPT ![f] = Missing] ELSE tmp
            /\ seed' = IF f = "seed" THEN Missing ELSE seed
            /\ job' = drop(n[1])
            /\ known' = IF f \in {"identity", "seed"} THEN None ELSE known
         \/ todo' = {} /\ UNCHANGED <<diskVars, job, known>>
      /\ UNCHANGED <<app, memVars, wiped, saveHistory>>

-----------------------------------------------------------------------------
Next ==
  \/ Boot \/ BootWithout \/ BootDone \/ Crash
  \/ \E j \in Job : OpenTmp(j) \/ WriteTmp(j) \/ RenameTmp(j)
  \/ \E j \in PeerSavers : ListPeers(j) \/ \E ps \in SUBSET PeerIds : ChangePeers(j, ps)
  \/ OpenPage
  \/ \E s \in Settings : SavePage(s)
  \/ \E w \in Windows : MoveWindow(w)
  \/ Reset \/ \E n \in todo : ResetStep(n)

Spec == Init /\ [][Next]_vars

\* The specification of a run: MaxJobs saves and resets under way, MaxTmp temporary files.
Few ==
  /\ Cardinality({j \in Job : job[j].step # "idle"}) + (IF todo = {} THEN 0 ELSE 1) <= MaxJobs
  /\ Cardinality({f \in File : tmp[f] # Missing}) <= MaxTmp
BoundedSpec == Init /\ [][Next /\ Few']_vars
Symmetry == Permutations(PeerSavers) \cup Permutations(Identities)

-----------------------------------------------------------------------------
Value(f) == CASE f = "identity" -> Identities
              [] f = "peers" -> SUBSET PeerIds
              [] OTHER -> [set : Settings, win : Windows]

TypeOK ==
  /\ \A f \in File : {path[f], tmp[f]} \subseteq {Missing, Damaged} \cup Value(f)
  /\ seed \in {Missing} \cup Identities
  /\ \A j \in Job : /\ job[j].step \in {"idle", "list", "open", "write", "rename", "renamed"}
                    /\ job[j].step \notin {"idle", "list"} => job[j].val \in Value(FileOf(j))
                    /\ job[j].at \in {"tmp", "path", "gone"}
  /\ app \in {"off", "starting", "up"}
  /\ ident \in Identities \cup {None}
  /\ known \in Identities \cup {None}
  /\ peers \subseteq PeerIds
  /\ page = None \/ page \in Value("config")
  /\ todo \subseteq {"path", "tmp"} \X (File \cup {"seed"})
  /\ mixed \subseteq Job /\ exact \in BOOLEAN

\* A step that changes file f puts the complete value of a save there, or removes it for
\* reset_all.
Replaced(f) ==
  \/ \E j \in Job : FileOf(j) = f /\ job[j].step = "rename" /\ path'[f] = job[j].val
  \/ path'[f] = Missing /\ <<"path", f>> \in todo

\* Wherever the process is killed and whichever call fails, the next start finds the old
\* value or the new one (write_atomic, write_json_atomic), unless the saves of the file
\* overlap: those have one temporary file between them.
OldOrNew ==
  [][\A f \in File :
       path'[f] # path[f] => Replaced(f) \/ \E j \in mixed : FileOf(j) = f]_vars

\* A start uses the identity of the starts before it, whatever was interrupted: the
\* older file is removed only when the new one is in place (load_or_create_identity).
IdentityIsKept ==
  [][app # "up" /\ app' = "up" /\ known # None => ident' = known]_vars

\* When no save is under way, peers.json is the list in memory, unless reset_all was
\* called or the last save failed or overlapped another: the list is taken after the
\* change, and a save that goes wrong is made good by the next one (save_peers,
\* persist_peers_from_ctx, initialize).
PeersAreSaved ==
  app = "up" /\ wiped = None /\ exact /\ (\A j \in PeerSavers : job[j].step = "idle")
    => LoadOrDefault("peers", {}) = peers

\* "write_json_atomic": a file is replaced as a whole, also by saves that overlap.
\* They write to one temporary file, and the later rename moves a mixture.
AlwaysOldOrNew == [][\A f \in File : path'[f] # path[f] => Replaced(f)]_vars

\* "Sauvegarde la position/taille courante de la fenêtre dans AppConfig": that is all
\* persist_window_state changes.  It writes back what it read before the page saved.
WindowSaveKeepsSettings ==
  [][\A j \in Job : j = "window" /\ job[j].step = "rename" /\ job'[j].step = "idle"
                      /\ Readable(path["config"]) /\ Readable(path'["config"])
       => path'["config"].set = path["config"].set]_vars

\* reset_all "supprime config + peers + identité": the peers of then do not come back.
\* The application still runs, and its next save of peers.json writes the whole list.
ResetForgets ==
  [][wiped # None /\ todo = {} /\ path["peers"] = Missing /\ path'["peers"] # Missing
       => path'["peers"] \cap wiped = {}]_vars

=============================================================================
