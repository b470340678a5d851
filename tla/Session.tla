------------------------------ MODULE Session ------------------------------
(***************************************************************************)
(* The program from its start to its end, and again: zrythm.c, project.c,  *)
(* start_assistant.c, the file actions of actions.c and main_window.c,     *)
(* around what Mixer says of an open project, PluginManager of the         *)
(* browser, and Backend of the engine.                                     *)
(*                                                                         *)
(* One task after the other runs in a thread and posts an idle call for    *)
(* the splash screen when it is done.  The last one asks for a project,    *)
(* unless the command line named one.  The three actions that follow       *)
(* activate each other, and return to the main loop only at the end.       *)
(*                                                                         *)
(* A project is saved in a directory; .recent_projects has a line for      *)
(* every save.  What the program keeps in memory is lost when it ends.     *)
(***************************************************************************)
EXTENDS Mixer, ProjectFiles, Backend

CONSTANTS
  Dirs,        \* the directories projects are saved in
  MaxStarts, MaxEdits  \* bounds; a save and a region are edits too

VARIABLES
  stage,         \* what the program waits for
  task,          \* task_id
  updates,       \* whether calls of update_splash are posted; they run in one turn of the loop
  openFilename,  \* ZRYTHM->open_filename: <<dir>>, or <<>>
  selection,     \* StartAssistantWidget.selection
  createNew,     \* the toggle button of the assistant
  complete,      \* its page can be applied
  dir,           \* PROJECT->dir: <<dir>>, or <<>>
  regions,       \* PROJECT->regions: the tracks they are in
  disk,          \* of each directory: the project file, <<>> when there is none, and the regions
  recent,        \* the lines of .recent_projects
  starts, edits  \* what the bounds count

startVars == <<stage, task, updates, openFilename, selection, createNew, complete>>
fileVars == <<dir, regions, disk, recent, starts, edits>>
sessionVars == <<fileVars, browserVars, backendVars>>
vars == <<mixerVars, startVars, sessionVars>>

Tasks == <<"start", "settings", "audio engine", "plugin manager", "end">>
NoFile == [project |-> <<>>, regions |-> <<>>]

Init ==
  /\ channels = <<>> /\ order = <<>> /\ tracks = <<>> /\ plugins = <<>> /\ wires = <<>>
  /\ shown = {} /\ selected = {} /\ paned = {} /\ doomed = <<>>
  /\ engineRuns = FALSE /\ crashed = FALSE
  /\ units = {} /\ view = [src |-> <<>>, dest |-> <<>>]
  /\ stage = "off" /\ task = 1 /\ updates = FALSE /\ openFilename = <<>>
  /\ selection = <<>> /\ createNew = FALSE /\ complete = FALSE
  /\ dir = <<>> /\ regions = <<>> /\ disk = [d \in Dirs |-> NoFile] /\ recent = <<>>
  /\ starts = 0 /\ edits = 0
  /\ descriptors = {} /\ categories = {} /\ category = <<>>
  /\ preferred = "jack" /\ engine = EngineNew

\* What a project is made of is in memory.
Forget ==
  /\ channels' = <<>> /\ order' = <<>> /\ tracks' = <<>> /\ plugins' = <<>> /\ wires' = <<>>
  /\ shown' = {} /\ selected' = {} /\ paned' = {} /\ doomed' = <<>>
  /\ engineRuns' = FALSE /\ crashed' = FALSE /\ units' = {} /\ ViewNew
  /\ PluginManagerNew /\ BrowserNew /\ engine' = EngineNew /\ UNCHANGED preferred

AssistantNew == selection' = <<>> /\ createNew' = FALSE /\ complete' = FALSE
Open(file) == openFilename' = file

Crashes == Crash /\ UNCHANGED <<startVars, sessionVars>>

\* zrythm_app_startup, and zrythm_app_open before the first task is over.  The
\* file on the command line need not be there.
Launch(file) ==
  /\ (stage = "off" \/ crashed) /\ starts < MaxStarts
  /\ Forget
  /\ stage' = "task" /\ task' = 1 /\ updates' = FALSE
  /\ Open(file) /\ AssistantNew
  /\ dir' = <<>> /\ regions' = <<>> /\ starts' = starts + 1
  /\ UNCHANGED <<disk, recent, edits>>

\* task_func, which sleeps and then does its task.  The plugins are scanned after the
\* engine was set up, in the last task.
TaskFunc ==
  /\ stage = "task" /\ ~crashed
  /\ stage' = "task done"
  /\ IF Tasks[task] = "end"
     THEN /\ \E block \in JackBlocks : engine' = EngineSetup(engine, preferred, block)
          /\ ScanPlugins
     ELSE UNCHANGED <<engine, managerVars>>
  /\ UNCHANGED <<mixerVars, task, updates, openFilename, selection, createNew, complete,
                 fileVars, category, preferred>>

TaskFails ==
  /\ stage = "task" /\ ~crashed /\ Tasks[task] = "end" /\ SetupFails
  /\ Crashes

\* on_prompt_for_project: a file that was given needs no assistant.
PromptForProject == IF openFilename = <<>> THEN "assistant" ELSE "init main window"

\* task_completed_cb.
TaskCompleted ==
  /\ stage = "task done" /\ ~crashed
  /\ updates' = TRUE
  /\ task' = IF task = Len(Tasks) THEN task ELSE task + 1
  /\ stage' = IF task < Len(Tasks) THEN "task" ELSE PromptForProject
  /\ UNCHANGED <<mixerVars, openFilename, selection, createNew, complete, sessionVars>>

InMainLoop == stage \in {"task", "task done", "assistant", "running"} /\ ~crashed

\* update_splash: "sometimes this gets called after the splash window gets deleted".
UpdateSplash ==
  /\ InMainLoop /\ updates
  /\ updates' = FALSE
  /\ UNCHANGED <<mixerVars, stage, task, openFilename, selection, createNew, complete,
                 sessionVars>>

-----------------------------------------------------------------------------
\* init_recent_projects and start_assistant_widget_new: the lines whose file opens.
RecentProjects == {d \in Elements(recent) : disk[d].project # <<>>}
ProjectRows == RecentProjects

Assistant == stage = "assistant" /\ ~crashed /\ ~updates

SelectionChanged(d) ==
  /\ Assistant /\ ~createNew /\ d \in ProjectRows
  /\ selection' = <<d>> /\ complete' = TRUE
  /\ UNCHANGED <<mixerVars, stage, task, updates, openFilename, createNew, sessionVars>>

\* on_create_new_project_toggled.  Toggled back, the page stays complete and nothing
\* is selected until the selection changes.
CreateNewToggled ==
  /\ Assistant
  /\ createNew' = ~createNew
  /\ complete' = (complete \/ createNew')
  /\ selection' = IF createNew' THEN <<>> ELSE selection
  /\ UNCHANGED <<mixerVars, stage, task, updates, openFilename, sessionVars>>

OnFinish(cancel) ==
  /\ Assistant /\ (cancel \/ complete)
  /\ openFilename' = IF cancel THEN <<>> ELSE selection
  /\ stage' = "init main window"
  /\ UNCHANGED <<mixerVars, task, updates, selection, createNew, complete, sessionVars>>

\* on_init_main_window destroys the splash screen.
InitMainWindow ==
  /\ stage = "init main window" /\ ~crashed
  /\ stage' = "load project"
  /\ UNCHANGED <<mixerVars, task, updates, openFilename, selection, createNew, complete,
                 sessionVars>>

\* on_load_project
LoadProject == stage = "load project" /\ ~crashed

\* tracklist_setup
TracklistSetup == tracks' = <<Master, Chord>> \o order

\* project_setup without a file: create_default.
CreateDefault ==
  /\ LoadProject /\ openFilename = <<>> /\ TracklistSetup
  /\ channels' = <<ChannelCreate("Master", "master")>>
  /\ wires' = ConnectAll(<<>>, ChannelWires(Master, "master"))
  /\ stage' = "setup main window"
  /\ UNCHANGED <<order, plugins, shown, selected, paned, doomed, engineRuns, crashed,
                 connectionsVars, task, updates, openFilename, selection, createNew, complete,
                 sessionVars>>

\* project_setup with a file.  No file that xml.c writes loads, and there is no action
\* for one that does: TLC would find that the program cannot go on from it.
LoadCrashes ==
  /\ LoadProject /\ openFilename # <<>>
  /\ LET file == disk[openFilename[1]]
     IN ~(LoadsRegions(file.regions) /\ Loads(file.project) /\ LoadsWhole(file.project))
  /\ Crashes

\* main_window_widget_refresh: the connections, the tracklist and the mixer are shown.
MainWindowRefresh ==
  /\ UNCHANGED order
  /\ channels' = RefreshTracklist(channels, tracks, Descr)
  /\ shown' = {Master} \cup Elements(order)
  /\ Rewired

\* on_setup_main_window: the engine may run.
SetupMainWindow ==
  /\ stage = "setup main window" /\ ~crashed
  /\ MainWindowRefresh
  /\ stage' = "running" /\ engineRuns' = TRUE
  /\ UNCHANGED <<tracks, plugins, wires, selected, paned, doomed, crashed,
                 task, updates, openFilename, selection, createNew, complete, sessionVars>>
-----------------------------------------------------------------------------
Running == stage = "running" /\ ~crashed /\ ~updates

Edits == Running /\ Idle /\ edits < MaxEdits
Counted == edits' = edits + 1 /\ UNCHANGED <<startVars, starts>>
SameFiles == UNCHANGED <<dir, regions, disk, recent>>
SameDevices == UNCHANGED <<browserVars, backendVars>>

Edit == Edits /\ MixerEdit /\ Counted /\ SameFiles /\ SameDevices
Step == Running /\ MixerStep /\ UNCHANGED <<startVars, sessionVars>>

\* A row of the browser's categories.
Browse(c) ==
  /\ Edits /\ Counted /\ SameFiles /\ SelectCategory(c)
  /\ UNCHANGED <<mixerVars, managerVars, backendVars>>

\* on_ok_clicked of the preferences: the engine keeps its backend.
SetAudioBackend(backend) ==
  /\ Edits /\ Counted /\ SameFiles /\ backend # preferred
  /\ preferred' = backend
  /\ UNCHANGED <<mixerVars, browserVars, engine>>

\* The tempo meter, and the callbacks of JACK while a project is open.
EngineChange(e) ==
  /\ Edits /\ Counted /\ SameFiles /\ e # engine
  /\ engine' = e
  /\ UNCHANGED <<mixerVars, browserVars, preferred>>

SetTempo == EngineChange(TransportSetBpm(engine))
JackChanges ==
  /\ engine.backend = "jack"
  /\ \/ EngineChange(SampleRateCb(engine, JackRate, TRUE))
     \/ \E block \in JackBlocks : EngineChange(BufferSizeCb(engine, block))

\* The first block that is played: position_add_frames divides by frames_per_tick.
PlayCrashes == Running /\ engineRuns /\ engine.ticks_from = 0 /\ Crashes

\* project_add_region, for a region created on the track of an instrument.
AddRegion(t) ==
  /\ Edits /\ Counted
  /\ t \in Elements(tracks) \ {Chord} /\ channels[t].type = "midi"
  /\ regions' = ArrayAppend(regions, t)
  /\ UNCHANGED <<mixerVars, dir, disk, recent>> /\ SameDevices

\* What a save reads is freed: a deleted master, the channel of a region.
SaveReadsFreed == ~Alive(Master) \/ \E t \in Elements(regions) : ~Alive(t)

\* project_save writes the state of the plugins of the mixer's channels, each into a
\* directory named after the channel and the slot.
SavedPlugins == {ck \in Elements(order) \X Slots : channels[ck[1]].strip[ck[2]] # 0}
StateDir(ck) == <<channels[ck[1]].name, ck[2]>>

\* A save that fails returns before it adds the line.
ProjectSaveMutant(d, writable) ==
  /\ Edits /\ Counted
  /\ dir' = <<d>>
  /\ disk' = disk
  /\ recent' = IF writable THEN Append(recent, d) ELSE recent
  /\ UNCHANGED <<mixerVars, regions>> /\ SameDevices

\* zrythm_add_to_recent_projects
AddToRecentProjects(d) == recent' = Append(recent, d)

\* project_save.  A directory that cannot be written gets no files, only the line.
ProjectSave(d, writable) ==
  /\ Edits /\ Counted
  /\ dir' = <<d>>
  /\ disk' = IF ~writable THEN disk
             ELSE [disk EXCEPT ![d] =
                     [project |-> WriteProject(<<Master>> \o order,
                                    [c \in DOMAIN channels |-> channels[c].strip], Descr),
                      regions |-> WriteRegions(Len(regions))]]
  /\ AddToRecentProjects(d)
  /\ UNCHANGED <<mixerVars, regions>> /\ SameDevices

\* activate_save and activate_save_as, whose dialog is accepted.
Save(writable) == dir # <<>> /\ ProjectSave(dir[1], writable)
SaveAs(d, writable) == ProjectSave(d, writable)
SaveCrashes == Edits /\ SaveReadsFreed /\ Crashes

\* activate_quit and on_main_window_destroy.
Quit ==
  /\ Running
  /\ stage' = "off" /\ Forget
  /\ dir' = <<>> /\ regions' = <<>>
  /\ UNCHANGED <<task, updates, openFilename, selection, createNew, complete,
                 disk, recent, starts, edits>>

Terminated == starts = MaxStarts /\ (stage = "off" \/ crashed) /\ UNCHANGED vars

Next ==
  \/ Launch(<<>>) \/ \E d \in Dirs : Launch(<<d>>)
  \/ TaskFunc \/ TaskFails \/ TaskCompleted \/ UpdateSplash
  \/ \E d \in Dirs : SelectionChanged(d)
  \/ CreateNewToggled \/ \E cancel \in BOOLEAN : OnFinish(cancel)
  \/ InitMainWindow \/ CreateDefault \/ LoadCrashes \/ SetupMainWindow
  \/ Edit \/ Step
  \/ \E c \in categories : Browse(c)
  \/ \E backend \in Backends : SetAudioBackend(backend)
  \/ SetTempo \/ JackChanges \/ PlayCrashes
  \/ \E t \in DOMAIN channels : AddRegion(t)
  \/ \E writable \in BOOLEAN : Save(writable) \/ \E d \in Dirs : SaveAs(d, writable)
  \/ SaveCrashes \/ Quit \/ Terminated

Spec == Init /\ [][Next]_vars
-----------------------------------------------------------------------------
TypeOK ==
  /\ \A c \in Elements(order) \cup shown \cup Elements(regions) : c \in DOMAIN channels
  /\ \A c \in DOMAIN channels :
       /\ channels[c].type \in {"master", "midi", "bus"}
       /\ channels[c].strip \in [Slots -> 0..Len(plugins)]
       /\ \A n \in DOMAIN channels[c].ats :
            channels[c].ats[n].automatable \in (0..Len(plugins)) \X Nat
  /\ Elements(tracks) \cup selected \cup paned \subseteq {Chord} \cup DOMAIN channels
  /\ task \in DOMAIN Tasks
  /\ Elements(category) \subseteq categories
  /\ preferred \in Backends
  /\ engine.backend \in Backends \cup {"none"}
  /\ engine.active <=> engine.backend # "none"
  /\ selection # <<>> => complete /\ selection[1] \in RecentProjects
  /\ dir # <<>> => dir[1] \in Elements(recent)
  /\ Elements(<<view.src, view.dest>>) \subseteq
       {<<>>} \cup ({"channel"} \X DOMAIN channels) \cup ({"plugin"} \X DOMAIN plugins)

\* Whatever is added, moved in by a drop and deleted, the tracklist shows the channels
\* of the mixer in the order of the mixer.
TrackLists == INSTANCE TrackOrder WITH Channels <- 2..MaxChannels, Master <- Master, Chord <- Chord
KeepsTrackOrder == TrackLists!Spec

\* Once a channel exists or its strip has changed, each of its automatables has exactly
\* one automation track, and no automation track is left over from a plugin that went,
\* whatever the user made the lanes show before.  (automation_tracklist_update runs
\* twice in a drop that replaces a plugin, once on a strip that holds the freed one.)
StripChanged(c) == c \notin DOMAIN channels \/ channels'[c].strip # channels[c].strip
OneTrackEach(channel, descr) ==
  LET automatables == Elements(Automatables(channel.strip, descr))
      owners == [n \in DOMAIN channel.ats |-> channel.ats[n].automatable]
  IN Distinct(owners) /\ Elements(owners) = automatables
AutomationTracksMatch ==
  [][\A c \in DOMAIN channels' : StripChanged(c) => OneTrackEach(channels'[c], Descr')]_vars

\* However the plugins of a strip came there, in any order and in the place of others,
\* what a plugin plays reaches the next plugin of the strip, or the channel behind the
\* last one.
Reaches(p, ports) ==
  LET outs == Elements(OfType(OutPorts(p, Descr[p]), "audio"))
  IN \E wire \in Elements(wires) : wire[1] \in outs /\ wire[2] \in ports
Plays(p) == p # 0 /\ OfType(OutPorts(p, Descr[p]), "audio") # <<>>
Heard(c, strip) ==
  \A k \in Slots : Plays(strip[k]) =>
    LET behind == {m \in Slots : m > k /\ strip[m] # 0}
    IN IF behind = {} THEN Reaches(strip[k], {StereoOut(c, 0), StereoOut(c, 1)})
       ELSE \A m \in behind : (\A n \in behind : m <= n) =>
              LET ins == InPorts(strip[m], Descr[strip[m]])
              IN OfType(ins, "audio") = <<>> \/ Reaches(strip[k], Elements(ins))
PluginsHeard == ~crashed => \A c \in DOMAIN channels : Alive(c) => Heard(c, channels[c].strip)

\* Every plugin that a save writes has a state directory of its own, after any mix of
\* channels of one name added and deleted.
OwnStateDir == \A a, b \in SavedPlugins : StateDir(a) = StateDir(b) => a = b

\* A project that was saved can be opened: "If project has a filename set, it loads
\* that."  (project.c)
Saved(file) == file # <<>> /\ disk[file[1]].project # <<>>
LoadsProject ==
  [][stage = "load project" /\ Saved(openFilename) => ~crashed']_vars
=============================================================================
