------------------------------ MODULE ProjectFiles ------------------------------
(***************************************************************************)
(* The files of one project that its users change: project.json            *)
(* (src/src/pyfuzz/project.py, cli.py, pfui/project_service.py) and the    *)
(* inputs (inputs.py, pfui/input_service.py).                              *)
(*                                                                         *)
(* Commands are processes that may be killed anywhere; the dashboard's     *)
(* requests run in threads of its server.  A file that is opened for       *)
(* writing is empty until it is written.                                   *)
(***************************************************************************)
EXTENDS Naturals, FiniteSets, Sequences

CONSTANTS
  Shells,      \* processes of the command line
  Tabs,        \* requests of the dashboard
  Settings,    \* fields of Project
  Unknown,     \* a key that is none
  Seeds,       \* the files of one input directory
  MaxOrders    \* bound: commands and requests begun

ASSUME ProjectAssumption ==
  "harness" \in Settings /\ Unknown \notin Settings /\ "fuzz_peg" \notin Settings /\ MaxOrders \in Nat

VARIABLES
  root,       \* the project's directory is there
  config,     \* project.json
  skeleton,   \* so are the directories inside
  seedDir,    \* the input directory is there
  seed,       \* its files
  shell,      \* what each command is doing
  tabRequest, \* what each request of the dashboard is doing
  shown,      \* the settings each tab shows
  killed,     \* history: commands were killed while they wrote
  orders

projectVars == <<root, config, skeleton, seedDir, seed, shell, tabRequest, shown, killed, orders>>
configVars == <<root, config, skeleton>>
seedVars == <<seedDir, seed>>

\* A configuration is the set of settings that are not the default.
Missing == <<"missing">>
Empty == <<"empty">>
Json(s) == <<"json", s>>
Idle == <<"idle">>

(***************************************************************************)
(* Project.load(): an unknown key is refused, a former one is replaced.    *)
(***************************************************************************)
Loadable == root /\ config[1] = "json" /\ config[2] \subseteq Settings \cup {"fuzz_peg"}
Loaded == IF "fuzz_peg" \in config[2] THEN (config[2] \ {"fuzz_peg"}) \cup {"harness"} ELSE config[2]

ProjectInit ==
  /\ \/ root = FALSE /\ config = Missing /\ skeleton = FALSE
     \/ root = TRUE /\ config \in {Json({}), Json({"fuzz_peg"})} /\ skeleton = TRUE
  /\ seedDir = FALSE /\ seed = [f \in Seeds |-> "none"]
  /\ shell = [p \in Shells |-> Idle] /\ tabRequest = [t \in Tabs |-> Idle]
  /\ shown = [t \in Tabs |-> {}]
  /\ killed = {} /\ orders = 0

Moves(p, pc) == shell' = [shell EXCEPT ![p] = pc]
Replies(t, pc) == tabRequest' = [tabRequest EXCEPT ![t] = pc]
Ordered == orders < MaxOrders /\ orders' = orders + 1

(***************************************************************************)
(* create: the directory decides between two commands.  edit: the text is  *)
(* what was loaded when the editor was opened, changed in any way.         *)
(***************************************************************************)
CreateProject(p) ==
  /\ shell[p] = Idle /\ ~root /\ Ordered
  /\ root' = TRUE
  /\ Moves(p, <<"truncate", {}, "skeleton">>)
  /\ UNCHANGED <<config, skeleton, seedVars, tabRequest, shown, killed>>

CreateSkeleton(p) ==
  /\ shell[p][1] = "skeleton"
  /\ skeleton' = TRUE
  /\ Moves(p, Idle)
  /\ UNCHANGED <<root, config, seedVars, tabRequest, shown, killed, orders>>

OpenEditor(p) ==
  /\ shell[p] = Idle /\ Loadable /\ Ordered
  /\ Moves(p, <<"editor", Loaded>>)
  /\ UNCHANGED <<configVars, seedVars, tabRequest, shown, killed>>

\* A failing editor, or a text that is no JSON, saves nothing; nothing else is tested.
CloseEditor(p) ==
  /\ shell[p][1] = "editor"
  /\ \/ \E s \in SUBSET (Settings \cup {Unknown}) : Moves(p, <<"truncate", s, "idle">>)
     \/ Moves(p, Idle)
  /\ UNCHANGED <<configVars, seedVars, tabRequest, shown, killed, orders>>

\* write_text() opens the file ...
TruncateConfig(p) ==
  /\ shell[p][1] = "truncate"
  /\ config' = Empty
  /\ Moves(p, <<"fill", shell[p][2], shell[p][3]>>)
  /\ UNCHANGED <<root, skeleton, seedVars, tabRequest, shown, killed, orders>>

\* ... and writes it.
FillConfig(p) ==
  /\ shell[p][1] = "fill"
  /\ config' = Json(shell[p][2])
  /\ Moves(p, <<shell[p][3]>>)
  /\ UNCHANGED <<root, skeleton, seedVars, tabRequest, shown, killed, orders>>

(***************************************************************************)
(* The dashboard.  A request is refused when the project cannot be loaded. *)
(***************************************************************************)
ShowProject(t) ==
  /\ tabRequest[t] = Idle /\ Loadable /\ shown[t] # Loaded
  /\ shown' = [shown EXCEPT ![t] = Loaded]
  /\ UNCHANGED <<configVars, seedVars, shell, tabRequest, killed, orders>>

\* Nothing is tested.
SaveAnything(t) ==
  /\ tabRequest[t] = Idle /\ Loadable /\ Ordered
  /\ \E s \in SUBSET (Settings \cup {Unknown}) : Replies(t, <<"replace", s>>)
  /\ UNCHANGED <<configVars, seedVars, shell, shown, killed>>

\* Known keys are all a configuration is tested for; the tab sends the whole of it.
SaveSettings(t) ==
  /\ tabRequest[t] = Idle /\ Loadable /\ Ordered
  /\ \E s \in SUBSET (Settings \cup {Unknown}) :
       Replies(t, IF s \subseteq Settings THEN <<"replace", s>> ELSE Idle)
  /\ UNCHANGED <<configVars, seedVars, shell, shown, killed>>

\* os.replace() of a temporary file.
ReplaceConfig(t) ==
  /\ tabRequest[t][1] = "replace"
  /\ config' = Json(tabRequest[t][2])
  /\ Replies(t, <<"reload">>)
  /\ UNCHANGED <<root, skeleton, seedVars, shell, shown, killed, orders>>

ReloadConfig(t) ==
  /\ tabRequest[t][1] = "reload"
  /\ shown' = [shown EXCEPT ![t] = IF Loadable THEN Loaded ELSE @]
  /\ Replies(t, Idle)
  /\ UNCHANGED <<configVars, seedVars, shell, killed, orders>>

(***************************************************************************)
(* Inputs.  A command copies or removes the directory file by file.        *)
(***************************************************************************)
AddInputs(p) ==
  /\ shell[p] = Idle /\ Loadable /\ skeleton /\ ~seedDir /\ Ordered
  /\ seedDir' = TRUE
  /\ Moves(p, <<"copy", Seeds>>)
  /\ UNCHANGED <<configVars, seed, tabRequest, shown, killed>>

CopyInput(p) ==
  /\ shell[p][1] = "copy"
  /\ IF ~seedDir \/ shell[p][2] = {} THEN Moves(p, Idle) /\ UNCHANGED seed
     ELSE LET f == CHOOSE f \in shell[p][2] : TRUE IN
          IF seed[f] = "half"
          THEN seed' = [seed EXCEPT ![f] = "added"] /\ Moves(p, <<"copy", shell[p][2] \ {f}>>)
          ELSE seed' = [seed EXCEPT ![f] = "half"] /\ UNCHANGED shell
  /\ UNCHANGED <<configVars, seedDir, tabRequest, shown, killed, orders>>

RemoveInputs(p) ==
  /\ shell[p] = Idle /\ Loadable /\ seedDir /\ Ordered
  /\ Moves(p, <<"remove", {f \in Seeds : seed[f] # "none"}>>)
  /\ UNCHANGED <<configVars, seedVars, tabRequest, shown, killed>>

\* rmtree() ends with an error at a file that is gone, or a directory that is not empty.
RemoveInput(p) ==
  /\ shell[p][1] = "remove"
  /\ LET left == shell[p][2] IN
     IF left = {} THEN Moves(p, Idle) /\ seedDir' = (\E f \in Seeds : seed[f] # "none") /\ UNCHANGED seed
     ELSE LET f == CHOOSE f \in left : TRUE IN
          /\ Moves(p, IF seed[f] = "none" THEN Idle ELSE <<"remove", left \ {f}>>)
          /\ seed' = [seed EXCEPT ![f] = "none"]
          /\ UNCHANGED seedDir
  /\ UNCHANGED <<configVars, tabRequest, shown, killed, orders>>

\* contained_input_file(): the file is there, and inside.
UpdateInput(t, f) ==
  /\ tabRequest[t] = Idle /\ Loadable /\ seed[f] # "none" /\ Ordered
  /\ Replies(t, <<"input", f>>)
  /\ UNCHANGED <<configVars, seedVars, shell, shown, killed>>

\* The temporary file lies in the same directory, and takes the place even of a file that
\* was deleted meanwhile.
ReplaceInput(t) ==
  /\ tabRequest[t][1] = "input"
  /\ seed' = IF seedDir THEN [seed EXCEPT ![tabRequest[t][2]] = "saved"] ELSE seed
  /\ Replies(t, Idle)
  /\ UNCHANGED <<configVars, seedDir, shell, shown, killed, orders>>

DeleteInput(t, f) ==
  /\ tabRequest[t] = Idle /\ Loadable /\ seed[f] # "none" /\ Ordered
  /\ seed' = [seed EXCEPT ![f] = "none"]
  /\ UNCHANGED <<configVars, seedDir, shell, tabRequest, shown, killed>>

KillShell(p) ==
  /\ shell[p][1] \notin {"idle", "editor"}
  /\ killed' = killed \cup {shell[p][1]}
  /\ Moves(p, Idle)
  /\ UNCHANGED <<configVars, seedVars, tabRequest, shown, orders>>

ShellStep(p) ==
  \/ CreateProject(p) \/ CreateSkeleton(p) \/ OpenEditor(p) \/ CloseEditor(p)
  \/ TruncateConfig(p) \/ FillConfig(p) \/ KillShell(p)
  \/ AddInputs(p) \/ CopyInput(p) \/ RemoveInputs(p) \/ RemoveInput(p)

TabStep(t) ==
  \/ ShowProject(t) \/ SaveSettings(t) \/ ReplaceConfig(t) \/ ReloadConfig(t) \/ ReplaceInput(t)
  \/ \E f \in Seeds : UpdateInput(t, f) \/ DeleteInput(t, f)

ProjectStep == (\E p \in Shells : ShellStep(p)) \/ (\E t \in Tabs : TabStep(t))

-----------------------------------------------------------------------------
(***************************************************************************)
(* Properties                                                              *)
(***************************************************************************)

ProjectTypeOK ==
  /\ root \in BOOLEAN /\ skeleton \in BOOLEAN /\ seedDir \in BOOLEAN
  /\ config \in {Missing, Empty} \cup {Json(s) : s \in SUBSET (Settings \cup {Unknown, "fuzz_peg"})}
  /\ seed \in [Seeds -> {"none", "half", "added", "saved"}]
  /\ \A t \in Tabs : shown[t] \subseteq Settings
  /\ root \/ (config = Missing /\ ~skeleton)

\* Whatever the tabs save, and however their requests overlap with one another and with
\* commands, a project that can be loaded stays so; only the command line's editor, which
\* writes in place and tests no keys, may end that (update_project_config() against edit).
OnlyEditorsBreakConfig ==
  [][Loadable /\ ~Loadable' =>
       \E p \in Shells : \/ shell[p][1] = "truncate" /\ shell'[p][1] = "fill"
                         \/ shell[p][1] = "fill" /\ Unknown \in shell[p][2] /\ shell'[p] = Idle]_projectVars

\* A project that was created has all of its files, unless its creation goes on or was
\* killed (Project.create()).
CreatedIsComplete ==
  root /\ ~(config[1] = "json" /\ skeleton) =>
    killed # {} \/ \E p \in Shells : shell[p][1] \in {"truncate", "fill", "skeleton"}

ProjectSpec == ProjectInit /\ [][ProjectStep]_projectVars
=============================================================================
